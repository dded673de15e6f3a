-------------------------- MODULE DERClient_proofs --------------------------
(***************************************************************************)
(* The poll task and the scheduler task never hand over a control twice,   *)
(* report what became of it in the order of the protocol, call it          *)
(* completed only if it was executed, and leave none ACTIVE; and what is   *)
(* polled belongs to an assignment.  While one task executes, the higher   *)
(* priority wins.  The handler under the client keeps what it promises to  *)
(* any caller, and the power controller is used as the service it is.      *)
(* What is done to each control is a life that ControlLife allows.         *)
(* For any programs, assignments, controls and intervals, whatever         *)
(* happens around the client.                                              *)
(***************************************************************************)
EXTENDS DERClientRefines, DERControlHandler_proofs

\* The await of a control that the handler has not been given yet, and of one that is past
\* that, or not to be given to it.
Before == {"conflict", "received", "started", "call"}
Beyond == {"lost", "aborted", "handling", "completed", "sweep", "sweptMode", "sweepScheduled",
           "sweptControl", "sweepHandler", "sweepCancelling"}
InHand == Before \cup Beyond
Points == InHand \cup
    {"idle", "next", "round", "get", "default", "future", "expired", "cancel", "cancelling",
     "cancelled", "retry", "retrying", "fetch", "untrack", "untracking"}

Frames == [on : Mrids \cup {None}, other : Ids \cup Programs \cup Responses \cup {None},
           mode : Modes \cup {0}, modes : SUBSET Modes, sweep : SUBSET Mrids,
           seen : {0} \cup {Cardinality(S) : S \in SUBSET Mrids}]

ClientTypes ==
    /\ at \in [Tasks -> Points] /\ frame \in [Tasks -> Frames]
    /\ left \in [Tasks -> SUBSET Mrids] /\ DOMAIN batch \subseteq Mrids
    /\ status \in [Mrids -> ClientStatuses]
    /\ processed \subseteq Mrids
    /\ byMode \in [Modes -> Mrids \cup {None}]
    /\ sent \in [Mrids -> SUBSET Responses] /\ owed \in [Mrids -> SUBSET Responses]
    /\ pending \in [Mrids -> Responses \cup {None}]
    /\ handed \in [Mrids -> Nat]
    /\ at[FsaTask] \in {"idle", "fetch", "untrack", "untracking", "cancelled"}
    /\ at[Scheduler] \in InHand \cup {"idle", "next"}

\* The control a task has in hand: the poll task's is not processed yet, that of the scheduler
\* task is; so they are never the same.
Owns(t) ==
    LET c == frame[t].on
    IN  /\ at[t] \in InHand \cup {"future", "expired"} => c \in Mrids
        /\ t = Poller /\ at[t] \in InHand \cup {"future", "expired"} => c \notin processed
        /\ t = Scheduler /\ at[t] \in InHand => c \in processed /\ "expired" \notin Said(c)
        /\ at[t] \in Before \cup {"future", "expired"} => handed[c] = 0
        /\ at[t] \in {"started", "call"} => status[c] # "scheduled"
        /\ at[t] = "started" => "received" \in Said(c)
        /\ at[t] \in {"call", "handling", "completed"} => "started" \in Said(c)
        /\ at[t] = "retrying" => c \in Mrids /\ frame[t].other \in owed[c]

\* What is true of a control, whoever has it in hand.
Fresh(c) ==
    c \notin processed /\ ~(at[Poller] \in InHand /\ frame[Poller].on = c) =>
        handed[c] = 0 /\ "started" \notin Said(c)

Accounted(c) ==
    /\ handed[c] <= 1
    /\ status[c] = "scheduled" =>
           c \in processed /\ handed[c] = 0 /\ "expired" \notin Said(c)
    /\ "expired" \in Said(c) => c \in processed
    /\ pending[c] # None => pending[c] \in owed[c]
    /\ "completed" \in Said(c) => "started" \in Said(c)
    /\ "started" \in Said(c) => "received" \in Said(c)
    /\ "expired" \in Said(c) => "started" \notin Said(c)
    /\ status[c] = "active" =>
           \E t \in Requesters : frame[t].on = c /\ at[t] \in {"started", "call", "handling"}

OnceInv == ClientTypes /\ (\A t \in Requesters : Owns(t)) /\ (\A c \in Mrids : Fresh(c) /\ Accounted(c))

\* While an assignment's end is handled, what is still tracked is what is still to untrack.
AssignmentInv ==
    /\ ProgramsComeFromFsas
    /\ trackedFsa \subseteq Fsas
    /\ fsaJob \in [fetch : SUBSET Fsas, gone : SUBSET Fsas, untrack : SUBSET Programs,
                   program : Programs \cup {None}]
    /\ at[FsaTask] = "untrack" => programs \subseteq fsaJob.untrack
    /\ at[FsaTask] \in {"untracking", "cancelled"} =>
           programs \subseteq fsaJob.untrack \cup {fsaJob.program}
HandlerCore ==
    /\ events \in Seq(Events) /\ Stored(events, tracked) /\ active \in 0..Len(events)
    /\ pc \in [Requesters -> {"idle", "power"}]
    /\ job \in [Requesters -> [op : Ops \cup {"cancel", "none"}, event : Int]]
    /\ \A t \in Requesters : pc[t] = "power" => lock = t

\* Whoever waits for the handler waits for the event of the control it has in hand.
Awaits(t) ==
    at[t] = "handling" =>
        /\ pc[t] = "power" /\ job[t].op = "handle" /\ job[t].event \in 1..Len(events)
        /\ events[job[t].event].id = frame[t].on
        /\ events[job[t].event].executed /\ events[job[t].event].status = "active"

SuccessInv ==
    /\ HandlerCore
    /\ \A t \in Requesters : Awaits(t)
    /\ \A c \in Mrids :
           "completed" \in Said(c) \/ (\E t \in Requesters : at[t] = "completed" /\ frame[t].on = c)
               => \E k \in 1..Len(events) : Succeeded(c, k)
-----------------------------------------------------------------------------
(***************************************************************************)
(* What the handler makes of an event.                                     *)
(***************************************************************************)
\* A mark changes the status of one event and nothing else.
LEMMA MarkOne ==
    ASSUME NEW evs \in Seq(Events), NEW k \in 1..Len(evs), NEW s \in Statuses
    PROVE  /\ Mark(evs, k, s) \in Seq(Events) /\ Len(Mark(evs, k, s)) = Len(evs)
           /\ \A j \in 1..Len(evs) :
                  /\ Mark(evs, k, s)[j].id = evs[j].id
                  /\ Mark(evs, k, s)[j].executed = evs[j].executed
                  /\ Mark(evs, k, s)[j].status = IF j = k THEN s ELSE evs[j].status
<1> DEFINE e == [evs[k] EXCEPT !.status = s]
<1>1. evs[k] \in Events
  BY ElementOfSeq
<1>2. e \in Events /\ e.id = evs[k].id /\ e.executed = evs[k].executed /\ e.status = s
  BY <1>1 DEF Events
<1>3. Mark(evs, k, s) = [evs EXCEPT ![k] = e]
  BY DEF Mark
<1> HIDE DEF e
<1>4. /\ [evs EXCEPT ![k] = e] \in Seq(Events)
      /\ Len([evs EXCEPT ![k] = e]) = Len(evs)
      /\ \A j \in 1..Len(evs) : [evs EXCEPT ![k] = e][j] = IF j = k THEN e ELSE evs[j]
  BY <1>2, ExceptSeq
<1> QED BY <1>2, <1>3, <1>4

\* new is evs but that its event a, which is not of the control of event k, may be superseded.
Superseded(new, evs, a, k) ==
    /\ new \in Seq(Events) /\ Len(new) = Len(evs)
    /\ \A j \in 1..Len(evs) :
           /\ new[j].id = evs[j].id /\ new[j].executed = evs[j].executed
           /\ \/ new[j].status = evs[j].status
              \/ /\ j = a /\ evs[j].id # evs[k].id /\ evs[j].status \in {"active", "completed"}
                 /\ new[j].status = "superseded"

\* What Supersede does to the events.
LEMMA SupersedeOne ==
    ASSUME NEW evs \in Seq(Events), NEW a \in 0..Len(evs), NEW k \in 1..Len(evs)
    PROVE  Superseded(Supersede(evs, a, k), evs, a, k)
<1>1. CASE a # 0 /\ evs[a].id # evs[k].id /\ evs[a].status \in {"active", "completed"}
  <2>1. Supersede(evs, a, k) = Mark(evs, a, "superseded")
    BY <1>1 DEF Supersede
  <2>2. "superseded" \in Statuses /\ a \in 1..Len(evs)
    BY <1>1 DEF Statuses
  <2> QED BY <1>1, <2>1, <2>2, MarkOne DEF Superseded
<1>2. CASE ~(a # 0 /\ evs[a].id # evs[k].id /\ evs[a].status \in {"active", "completed"})
  BY <1>2 DEF Supersede, Superseded
<1> QED BY <1>1, <1>2

\* The events of old are there, and those that were executed with success still are.
Kept ==
    /\ Len(events) <= Len(events')
    /\ \A k \in 1..Len(events) :
           /\ events'[k].id = events[k].id
           /\ events[k].executed => events'[k].executed
           /\ events[k].status \in Good => events'[k].status \in Good

\* What may befall an event while another is handled: it is superseded or cancelled, before
\* it was executed, or after it was with success.
Altered(k) ==
    /\ events'[k].executed = events[k].executed
    /\ \/ events'[k].status = events[k].status
       \/ /\ events[k].status \in {"pending", "scheduled", "active", "completed"}
          /\ events'[k].status \in {"superseded", "cancelled"}

\* A new event that is begun.
LEMMA NewlyBegun ==
    ASSUME events \in Seq(Events), NEW c \in Mrids
    PROVE  LET k   == Len(events) + 1
               new == Append(events, NewEvent(c, ControlOf[c], "open"))
               evs == Begun(new, k)
           IN  /\ new[k].control = ControlOf[c]
               /\ evs \in Seq(Events) /\ Len(evs) = k
               /\ \A j \in 1..Len(events) : evs[j] = events[j]
               /\ evs[k].id = c /\ evs[k].executed /\ evs[k].status = "active"
<1> DEFINE k   == Len(events) + 1
           n   == NewEvent(c, ControlOf[c], "open")
           new == Append(events, n)
           e   == [n EXCEPT !.status = "active", !.executed = TRUE]
<1>1. ControlOf[c] \in Fields /\ c \in Ids
  BY ClientControlsAssumption, ControlsAssumption DEF Mrids
<1>2. n \in Events /\ n.control = ControlOf[c]
  BY <1>1 DEF NewEvent, Events, Windows, Statuses
<1>3. e \in Events /\ e.id = c /\ e.executed /\ e.status = "active"
  BY <1>1 DEF NewEvent, Events, Windows, Statuses
<1> HIDE DEF n
<1>4. /\ new \in Seq(Events) /\ Len(new) = k /\ new[k] = n /\ k \in 1..Len(new)
      /\ \A j \in 1..Len(events) : new[j] = events[j] /\ j \in 1..Len(new) /\ j # k
  BY <1>2, AppendProperties, LenProperties
<1>5. Begun(new, k) = [new EXCEPT ![k] = e]
  BY <1>4, LenProperties DEF Begun
<1> HIDE DEF new, e
<1>6. /\ [new EXCEPT ![k] = e] \in Seq(Events) /\ Len([new EXCEPT ![k] = e]) = Len(new)
      /\ \A j \in 1..Len(new) : [new EXCEPT ![k] = e][j] = IF j = k THEN e ELSE new[j]
  BY <1>3, <1>4, ExceptSeq
<1> QED BY <1>2, <1>3, <1>4, <1>5, <1>6 DEF new, n

\* handle_control: it waits for the power controller with the new event active, or has ended it.
LEMMA HandlerHandles ==
    ASSUME HandlerCore, NEW t \in Requesters, NEW c \in Mrids,
           HandleControl(t, c, ControlOf[c], "open")
    PROVE  /\ HandlerCore' /\ Kept /\ lock = Free
           /\ Len(events') = Len(events) + 1 /\ events'[Len(events')].id = c
           /\ \A j \in 1..Len(events) : Altered(j)
           /\ \A u \in Requesters \ {t} : pc'[u] = pc[u] /\ job'[u] = job[u]
           /\ IF pc'[t] = "power"
              THEN LET k == job'[t].event
                   IN  /\ k = Len(events')
                       /\ job'[t].op = "handle" /\ k \in 1..Len(events') /\ events'[k].id = c
                       /\ events'[k].executed /\ events'[k].status = "active"
              ELSE LET k == Len(events')
                   IN  /\ k \in 1..Len(events') /\ events'[k].id = c /\ events'[k].executed
                       /\ events'[k].status \in {"completed", "failed"}
<1> DEFINE k   == Len(events) + 1
           new == Append(events, NewEvent(c, ControlOf[c], "open"))
           evs == Begun(new, k)
           b   == Branch(ControlOf[c])
<1>1. /\ pc[t] = "idle" /\ lock = Free /\ Execute(t, "handle", k, new, active)
  BY DEF HandleControl
<1>2. /\ new[k].control = ControlOf[c]
      /\ evs \in Seq(Events) /\ Len(evs) = k
      /\ \A j \in 1..Len(events) : evs[j] = events[j]
      /\ evs[k].id = c /\ evs[k].executed /\ evs[k].status = "active"
  BY NewlyBegun DEF HandlerCore
<1>3. /\ Len(events) \in Nat /\ k \in 1..k /\ active \in 0..k /\ active # k
      /\ 1..Len(events) \subseteq 1..k
  BY LenProperties DEF HandlerCore
<1>4. \A u \in Requesters : pc[u] = "idle"
  BY <1>1, HandlerNamesAssumption DEF HandlerCore
<1>5. b \in {"reconnect", "energize", "blocked", "disconnect", "deenergize", "nothing", "set"}
  BY BranchesOfControls, ClientControlsAssumption, ControlsAssumption
<1>6. /\ "handle" \in Ops /\ "completed" \in Statuses /\ "failed" \in Statuses
      /\ t # Free
  BY HandlerNamesAssumption DEF Ops, Statuses
<1>7. Superseded(Supersede(evs, active, k), evs, active, k)
  <2> HIDE DEF evs
  <2> QED BY <1>2, <1>3, SupersedeOne
<1>8. CASE b \in {"reconnect", "disconnect", "deenergize", "set"}
  <2>1. /\ events' = IF b = "set" THEN Supersede(evs, active, k) ELSE evs
        /\ active' = IF b = "set" THEN k ELSE active
        /\ pc' = [pc EXCEPT ![t] = "power"]
        /\ job' = [job EXCEPT ![t] = [op |-> "handle", event |-> k]]
        /\ lock' = t /\ UNCHANGED tracked
    BY <1>1, <1>2, <1>8 DEF Execute
  <2> HIDE DEF evs, b
  <2>2. /\ events' \in Seq(Events) /\ Len(events') = k
        /\ \A j \in 1..k :
               /\ events'[j].id = evs[j].id /\ events'[j].executed = evs[j].executed
               /\ \/ events'[j].status = evs[j].status
                  \/ /\ j = active /\ evs[j].status \in {"active", "completed"}
                     /\ events'[j].status = "superseded"
    BY <1>2, <1>7, <2>1 DEF Superseded
  <2>3. Kept /\ \A j \in 1..Len(events) : Altered(j)
    BY <1>2, <1>3, <2>2 DEF Kept, Good, Altered
  <2>4. HandlerCore'
    <3>1. Stored(events', tracked')
      <4>1. Stored(events, tracked) /\ tracked' = tracked
        BY <2>1 DEF HandlerCore
      <4>2. /\ 1..Len(events) \subseteq 1..Len(events')
            /\ \A j \in 1..Len(events) : events'[j].id = events[j].id
        BY <1>2, <1>3, <2>2
      <4> QED BY <4>1, <4>2 DEF Stored
    <3>2. [op |-> "handle", event |-> k] \in [op : Ops \cup {"cancel", "none"}, event : Int]
      BY <1>3, <1>6
    <3>3. /\ pc' \in [Requesters -> {"idle", "power"}]
          /\ \A u \in Requesters : pc'[u] = "power" => lock' = u
      BY <1>4, <2>1 DEF HandlerCore
    <3>4. job' \in [Requesters -> [op : Ops \cup {"cancel", "none"}, event : Int]]
      BY <2>1, <3>2 DEF HandlerCore
    <3> QED BY <1>3, <2>1, <2>2, <3>1, <3>3, <3>4 DEF HandlerCore
  <2>5. pc'[t] = "power" /\ job'[t].op = "handle" /\ job'[t].event = k
        /\ \A u \in Requesters \ {t} : pc'[u] = pc[u] /\ job'[u] = job[u]
    BY <2>1 DEF HandlerCore
  <2>6. Len(events') = Len(events) + 1
    BY <2>2
  <2>7. events'[k].id = c /\ events'[k].executed /\ events'[k].status = "active"
    BY <1>2, <1>3, <2>2
  <2> HIDE DEF k
  <2> QED BY <1>1, <1>3, <2>2, <2>3, <2>4, <2>5, <2>6, <2>7
<1>9. CASE b \in {"energize", "blocked", "nothing"}
  <2> DEFINE s == IF b = "blocked" THEN "failed" ELSE "completed"
             m == Mark(evs, k, s)
  <2>1. /\ events' = IF b = "energize" THEN Supersede(m, active, k) ELSE m
        /\ active' = IF b = "energize" THEN k ELSE active
        /\ Conclude(t, "handle", k, events')
    BY <1>1, <1>2, <1>9 DEF Execute
  <2>2. s \in {"completed", "failed"} /\ s \in Statuses
    BY <1>6
  <2>3. /\ m \in Seq(Events) /\ Len(m) = k
        /\ \A j \in 1..k : /\ m[j].id = evs[j].id /\ m[j].executed = evs[j].executed
                           /\ m[j].status = IF j = k THEN s ELSE evs[j].status
    <3>1. evs \in Seq(Events) /\ Len(evs) = k /\ k \in 1..Len(evs) /\ s \in Statuses
      BY <1>2, <1>3, <2>2
    <3> HIDE DEF evs, s, k
    <3>2. /\ Mark(evs, k, s) \in Seq(Events) /\ Len(Mark(evs, k, s)) = Len(evs)
          /\ \A j \in 1..Len(evs) :
                 /\ Mark(evs, k, s)[j].id = evs[j].id
                 /\ Mark(evs, k, s)[j].executed = evs[j].executed
                 /\ Mark(evs, k, s)[j].status = IF j = k THEN s ELSE evs[j].status
      BY <3>1, MarkOne, Zenon
    <3> HIDE DEF m
    <3>3. m = Mark(evs, k, s)
      BY DEF m
    <3> QED BY <3>1, <3>2, <3>3
  <2> HIDE DEF evs, m, s, b
  <2>4. Superseded(Supersede(m, active, k), m, active, k)
    BY <1>3, <2>3, SupersedeOne
  <2>5. /\ events' \in Seq(Events) /\ Len(events') = k
        /\ \A j \in 1..k :
               /\ events'[j].id = m[j].id /\ events'[j].executed = m[j].executed
               /\ \/ events'[j].status = m[j].status
                  \/ /\ j = active /\ m[j].status \in {"active", "completed"}
                     /\ events'[j].status = "superseded"
    BY <2>1, <2>3, <2>4 DEF Superseded
  <2>6. Kept /\ \A j \in 1..Len(events) : Altered(j)
    <3>1. ASSUME NEW j \in 1..Len(events)
          PROVE  /\ events'[j].id = events[j].id /\ events'[j].executed = events[j].executed
                 /\ \/ events'[j].status = events[j].status
                    \/ /\ events[j].status \in {"active", "completed"}
                       /\ events'[j].status = "superseded"
      <4>1. j \in 1..k /\ j # k /\ evs[j] = events[j]
        BY <1>2, <1>3
      <4>2. m[j].id = events[j].id /\ m[j].executed = events[j].executed /\ m[j].status = events[j].status
        BY <2>3, <4>1
      <4> QED BY <2>5, <4>1, <4>2
    <3>2. Kept
      BY <1>3, <2>5, <3>1 DEF Kept, Good
    <3>3. \A j \in 1..Len(events) : Altered(j)
      BY <3>1 DEF Altered
    <3> QED BY <3>2, <3>3
  <2>7. /\ pc' = [pc EXCEPT ![t] = "idle"] /\ lock' = Free
        /\ job' = [job EXCEPT ![t] = NoJob]
    BY <2>1 DEF Conclude
  <2>8. Stored(events', tracked')
    <3>1. Stored(events', tracked)
      <4>1. Stored(events, tracked)
        BY DEF HandlerCore
      <4>2. /\ 1..Len(events) \subseteq 1..Len(events')
            /\ \A j \in 1..Len(events) : events'[j].id = events[j].id
        BY <1>2, <1>3, <2>3, <2>5
      <4> QED BY <4>1, <4>2 DEF Stored
    <3> QED BY <1>3, <1>6, <2>1, <2>5, <3>1, Remembering
  <2>9. HandlerCore'
    <3>1. NoJob \in [op : Ops \cup {"cancel", "none"}, event : Int]
      BY DEF NoJob
    <3> QED BY <1>3, <1>4, <2>1, <2>5, <2>7, <2>8, <3>1 DEF HandlerCore
  <2>10. pc'[t] = "idle" /\ \A u \in Requesters \ {t} : pc'[u] = pc[u] /\ job'[u] = job[u]
    BY <2>7 DEF HandlerCore
  <2>11. Len(events') = Len(events) + 1
    BY <2>5
  <2>12. events'[k].id = c /\ events'[k].executed /\ events'[k].status = s
    BY <1>2, <1>3, <2>3, <2>5
  <2> HIDE DEF k
  <2> QED BY <1>1, <1>3, <2>2, <2>5, <2>6, <2>9, <2>10, <2>11, <2>12
<1> QED BY <1>5, <1>8, <1>9

\* The answer of the power controller: the event awaited has ended.
LEMMA HandlerAnswers ==
    ASSUME HandlerCore, NEW t \in Requesters, PowerReturned(t), at[t] = "handling", Awaits(t)
    PROVE  LET k == job[t].event
           IN  /\ HandlerCore' /\ Kept
               /\ Len(events') = Len(events) /\ \A j \in 1..Len(events) : j # k => Altered(j)
               /\ \A u \in Requesters \ {t} : pc'[u] = "idle" /\ pc[u] = "idle"
               /\ k \in 1..Len(events') /\ events'[k].id = frame[t].on
               /\ events'[k].executed /\ events'[k].status \in {"completed", "failed"}
<1> DEFINE k == job[t].event
           s == IF stage[t] = "ok" THEN "completed" ELSE "failed"
           m == Mark(events, k, s)
<1>1. /\ events' = Supersede(m, active, k) /\ active' = k
      /\ Conclude(t, "handle", k, events')
  BY DEF PowerReturned, Awaits
<1>2. /\ k \in 1..Len(events) /\ events[k].id = frame[t].on
      /\ events[k].executed /\ events[k].status = "active" /\ pc[t] = "power"
  BY DEF Awaits
<1>3. s \in {"completed", "failed"} /\ s \in Statuses
  BY DEF Statuses
<1> HIDE DEF k, s
<1>4. /\ m \in Seq(Events) /\ Len(m) = Len(events)
      /\ \A j \in 1..Len(events) :
             /\ m[j].id = events[j].id /\ m[j].executed = events[j].executed
             /\ m[j].status = IF j = k THEN s ELSE events[j].status
  BY <1>2, <1>3, MarkOne DEF HandlerCore
<1> HIDE DEF m
<1>5. /\ events' \in Seq(Events) /\ Len(events') = Len(events)
      /\ \A j \in 1..Len(events) :
             /\ events'[j].id = m[j].id /\ events'[j].executed = m[j].executed
             /\ \/ events'[j].status = m[j].status
                \/ /\ m[j].id # m[k].id /\ m[j].status \in {"active", "completed"}
                   /\ events'[j].status = "superseded"
  <2>1. m \in Seq(Events) /\ active \in 0..Len(m) /\ k \in 1..Len(m) /\ Len(m) = Len(events)
    BY <1>2, <1>4 DEF HandlerCore
  <2>2. Superseded(events', m, active, k)
    BY <1>1, <2>1, SupersedeOne
  <2> QED BY <2>1, <2>2 DEF Superseded
<1>6. Kept
  <2>1. Len(events) <= Len(events')
    BY <1>5, LenProperties DEF HandlerCore
  <2>2. ASSUME NEW j \in 1..Len(events)
        PROVE  /\ events'[j].id = events[j].id /\ (events[j].executed => events'[j].executed)
               /\ events[j].status \in Good => events'[j].status \in Good
    <3>1. /\ events'[j].id = events[j].id /\ events'[j].executed = events[j].executed
          /\ events'[j].status = m[j].status \/ events'[j].status = "superseded"
      BY <1>4, <1>5
    <3>2. events[j].status \in Good => m[j].status = events[j].status
      BY <1>2, <1>4 DEF Good
    <3> QED BY <3>1, <3>2 DEF Good
  <2> QED BY <2>1, <2>2 DEF Kept
<1>7. /\ pc' = [pc EXCEPT ![t] = "idle"] /\ lock' = Free /\ job' = [job EXCEPT ![t] = NoJob]
  BY <1>1 DEF Conclude
<1>8. \A u \in Requesters \ {t} : pc[u] = "idle"
  BY <1>2 DEF HandlerCore
<1>9. Stored(events', tracked')
  <2>1. Stored(events', tracked)
    <3>1. Stored(events, tracked)
      BY DEF HandlerCore
    <3>2. Len(events') = Len(events) /\ \A j \in 1..Len(events) : events'[j].id = events[j].id
      BY <1>4, <1>5
    <3> QED BY <3>1, <3>2 DEF Stored
  <2> QED BY <1>1, <1>2, <1>5, <2>1, Remembering DEF Ops
<1>10. HandlerCore'
  <2>1. NoJob \in [op : Ops \cup {"cancel", "none"}, event : Int]
    BY DEF NoJob
  <2> QED BY <1>1, <1>2, <1>5, <1>7, <1>8, <1>9, <2>1 DEF HandlerCore
<1>11. \A u \in Requesters \ {t} : pc'[u] = "idle"
  BY <1>7, <1>8 DEF HandlerCore
<1>12. /\ k \in 1..Len(events') /\ events'[k].id = frame[t].on
       /\ events'[k].executed /\ events'[k].status \in {"completed", "failed"}
  BY <1>2, <1>3, <1>4, <1>5
<1>13. Len(events') = Len(events) /\ \A j \in 1..Len(events) : j # k => Altered(j)
  BY <1>4, <1>5 DEF Altered
<1> QED BY <1>6, <1>8, <1>10, <1>11, <1>12, <1>13 DEF k

\* cancel_control, up to its await and after it.
LEMMA HandlerCancels ==
    ASSUME HandlerCore, NEW t \in Requesters, NEW i, CancelControl(t, i)
    PROVE  /\ HandlerCore' /\ Kept /\ lock = Free
           /\ Len(events') = Len(events) /\ \A j \in 1..Len(events) : Altered(j)
           /\ \A u \in Requesters \ {t} : pc'[u] = pc[u] /\ job'[u] = job[u]
<1> DEFINE k == tracked[i]
<1>1. /\ events[k].status \in {"pending", "scheduled", "active", "completed"}
      /\ lock = Free /\ i \in DOMAIN tracked /\ pc[t] = "idle"
      /\ events' = Mark(events, k, "cancelled") /\ UNCHANGED <<tracked, active>>
      /\ \/ /\ lock' = t /\ pc' = [pc EXCEPT ![t] = "power"]
            /\ job' = [job EXCEPT ![t] = [op |-> "cancel", event |-> k]]
         \/ UNCHANGED <<lock, pc, job>>
  BY DEF CancelControl
<1>2. k \in 1..Len(events) /\ "cancelled" \in Statuses
  BY <1>1 DEF HandlerCore, Stored, Statuses
<1>3. \A u \in Requesters : pc[u] = "idle"
  BY <1>1, HandlerNamesAssumption DEF HandlerCore
<1> HIDE DEF k
<1>4. /\ events' \in Seq(Events) /\ Len(events') = Len(events)
      /\ \A j \in 1..Len(events) :
             /\ events'[j].id = events[j].id /\ events'[j].executed = events[j].executed
             /\ events'[j].status = IF j = k THEN "cancelled" ELSE events[j].status
  BY <1>1, <1>2, MarkOne DEF HandlerCore
<1>5. Kept
  BY <1>4, LenProperties DEF Kept, Good, HandlerCore
<1>6. Stored(events', tracked')
  BY <1>1, <1>4 DEF HandlerCore, Stored
<1>7. [op |-> "cancel", event |-> k] \in [op : Ops \cup {"cancel", "none"}, event : Int]
  BY <1>2
<1>8. /\ pc' \in [Requesters -> {"idle", "power"}]
      /\ job' \in [Requesters -> [op : Ops \cup {"cancel", "none"}, event : Int]]
      /\ \A u \in Requesters : pc'[u] = "power" => lock' = u
      /\ \A u \in Requesters \ {t} : pc'[u] = pc[u] /\ job'[u] = job[u]
  BY <1>1, <1>3, <1>7 DEF HandlerCore
<1>9. active' \in 0..Len(events')
  BY <1>1, <1>4 DEF HandlerCore
<1>10. \A j \in 1..Len(events) : Altered(j)
  BY <1>1, <1>4 DEF Altered
<1> QED BY <1>1, <1>4, <1>5, <1>6, <1>8, <1>9, <1>10 DEF HandlerCore

\* The end of a cancellation leaves every event as it is.
LEMMA HandlerCancelled ==
    ASSUME HandlerCore, NEW t \in Requesters, CancelReturned(t)
    PROVE  /\ HandlerCore' /\ events' = events
           /\ \A u \in Requesters \ {t} : pc'[u] = "idle" /\ pc[u] = "idle"
<1>1. NoJob \in [op : Ops \cup {"cancel", "none"}, event : Int]
  BY DEF NoJob
<1> QED BY <1>1, LenProperties DEF HandlerCore, CancelReturned

-----------------------------------------------------------------------------
(***************************************************************************)
(* What one step of a task may do to the controls.                         *)
(***************************************************************************)
Others(t) == \A u \in Tasks \ {t} : at'[u] = at[u] /\ frame'[u] = frame[u]

Marks(t) ==
    /\ processed \subseteq processed'
    /\ processed' # processed => t = Poller /\ processed' = processed \cup {frame[t].on}

\* What may befall a control that the task does not have in hand.
Harmless(c) ==
    /\ handed'[c] = handed[c]
    /\ status'[c] = status[c] \/ status'[c] \notin {"scheduled", "active"}
    /\ Said(c)' \subseteq Said(c) \cup {"received", "cancelled", "superseded", "aborted"}

Concerns(t) ==
    \A c \in Mrids :
        \/ Harmless(c)
        \/ /\ t \in Requesters /\ at[t] \in InHand \cup {"future", "expired"}
           /\ c = frame[t].on /\ Accounted(c)' /\ Fresh(c)'

Remembers ==
    \A c \in Mrids : /\ Said(c) \subseteq Said(c)' /\ owed[c] \subseteq owed'[c]
                     /\ pending'[c] # None => pending'[c] \in owed'[c]

\* A control is put down only when it is marked, and not while it is ACTIVE.
PutsDown(t) ==
    /\ t = Poller /\ at[t] \in InHand =>
           \/ at'[t] \in InHand /\ frame'[t].on = frame[t].on
           \/ frame[t].on \in processed'
    /\ /\ t \in Requesters /\ at[t] \in {"started", "call", "handling"}
       /\ status'[frame[t].on] = "active"
       => at'[t] \in {"started", "call", "handling"} /\ frame'[t].on = frame[t].on

StepOf(t) == Others(t) /\ Marks(t) /\ Concerns(t) /\ Remembers /\ PutsDown(t)

\* The three tasks are different.
LEMMA TasksAre ==
    /\ Tasks = {Poller, Scheduler, FsaTask} /\ Requesters = {Poller, Scheduler}
    /\ Poller # Scheduler /\ Poller # FsaTask /\ Scheduler # FsaTask
    /\ Requesters \subseteq Tasks
BY TasksAssumption DEF Tasks

\* Such a step preserves the invariant: no other task has in hand what it concerns.
LEMMA OneStep ==
    ASSUME OnceInv, ClientTypes', NEW t \in Tasks, StepOf(t), t \in Requesters => Owns(t)'
    PROVE  OnceInv'
<1>1. ASSUME NEW c \in Mrids, Harmless(c) PROVE Fresh(c)' /\ Accounted(c)'
  <2>1. Fresh(c) /\ Accounted(c) /\ Said(c) \subseteq Said(c)'
    BY DEF OnceInv, StepOf, Remembers
  <2>2. Fresh(c)'
    <3>1. ASSUME c \notin processed', ~(at'[Poller] \in InHand /\ frame'[Poller].on = c)
          PROVE  c \notin processed /\ ~(at[Poller] \in InHand /\ frame[Poller].on = c)
      BY <3>1, TasksAre DEF StepOf, Others, Marks, PutsDown
    <3> QED BY <1>1, <2>1, <3>1 DEF Fresh, Harmless
  <2>3. status'[c] = "active" => \E u \in Requesters : /\ frame'[u].on = c
                                                       /\ at'[u] \in {"started", "call", "handling"}
    <3> SUFFICES ASSUME status'[c] = "active"
                 PROVE  \E u \in Requesters : /\ frame'[u].on = c
                                              /\ at'[u] \in {"started", "call", "handling"}
      OBVIOUS
    <3>1. PICK u \in Requesters : frame[u].on = c /\ at[u] \in {"started", "call", "handling"}
      BY <1>1, <2>1 DEF Harmless, Accounted
    <3> QED BY <3>1, TasksAre DEF StepOf, Others, PutsDown
  <2>4. pending'[c] # None => pending'[c] \in owed'[c]
    BY DEF StepOf, Remembers
  <2>5. processed \subseteq processed'
    BY DEF StepOf, Marks
  <2>6. Accounted(c)'
    BY <1>1, <2>1, <2>3, <2>4, <2>5 DEF Accounted, Harmless
  <2> QED BY <2>2, <2>6
<1>2. \A c \in Mrids : Fresh(c)' /\ Accounted(c)'
  BY <1>1 DEF StepOf, Concerns
<1>3. ASSUME NEW u \in Requesters, u # t PROVE Owns(u)'
  <2>1. at'[u] = at[u] /\ frame'[u] = frame[u] /\ Owns(u) /\ ClientTypes
    BY <1>3, TasksAre DEF StepOf, Others, OnceInv
  <2>2. at[u] \in Points
    BY <2>1, <1>3, TasksAre DEF ClientTypes
  <2>3. CASE at[u] \in InHand \cup {"future", "expired"}
    <3>1. PICK c \in Mrids : c = frame[u].on
      BY <2>1, <2>3 DEF Owns
    <3>2. u = Poller \/ at[u] \in InHand
      BY <2>1, <2>3, TasksAre DEF ClientTypes, InHand, Before, Beyond
    <3>3. t \in Requesters /\ at[t] \in InHand \cup {"future", "expired"} => frame[t].on # c
      <4>1. ASSUME t \in Requesters, at[t] \in InHand \cup {"future", "expired"}
            PROVE  frame[t].on # c
        <5>1. Owns(t) /\ (t = Poller \/ at[t] \in InHand)
          BY <2>1, <4>1, TasksAre DEF ClientTypes, OnceInv, InHand, Before, Beyond
        <5>2. CASE u = Poller
          <6>1. c \notin processed /\ t = Scheduler
            BY <1>3, <2>1, <2>3, <3>1, <4>1, <5>2, TasksAre DEF Owns
          <6>2. frame[t].on \in processed
            BY <5>1, <6>1, TasksAre DEF Owns
          <6> QED BY <6>1, <6>2
        <5>3. CASE u = Scheduler
          <6>1. c \in processed /\ t = Poller
            BY <1>3, <2>1, <3>1, <3>2, <4>1, <5>3, TasksAre DEF Owns
          <6>2. frame[t].on \notin processed
            BY <4>1, <5>1, <6>1 DEF Owns
          <6> QED BY <6>1, <6>2
        <5> QED BY <5>2, <5>3, TasksAre
      <4> QED BY <4>1
    <3>4. Harmless(c) /\ Said(c) \subseteq Said(c)'
      BY <3>1, <3>3 DEF StepOf, Concerns, Remembers
    <3>5. u = Poller /\ c \notin processed => c \notin processed'
      BY <1>3 DEF StepOf, Marks
    <3>6. processed \subseteq processed'
      BY DEF StepOf, Marks
    <3>7. at[u] # "retrying"
      BY <2>3 DEF InHand, Before, Beyond
    <3> QED BY <2>1, <2>3, <3>1, <3>4, <3>5, <3>6, <3>7 DEF Owns, Harmless
  <2>4. CASE at[u] \notin InHand \cup {"future", "expired"}
    <3>1. at[u] \notin Before /\ at[u] \notin {"started", "call", "handling", "completed"}
      BY <2>4 DEF InHand, Before, Beyond
    <3>2. \A c \in Mrids : owed[c] \subseteq owed'[c]
      BY DEF StepOf, Remembers
    <3> QED BY <2>1, <2>4, <3>1, <3>2 DEF Owns
  <2> QED BY <2>3, <2>4
<1> QED BY <1>2, <1>3 DEF OnceInv

\* _send_response: whether it gets through or not, it has been said.
Says(c, code) ==
    /\ sent' \in [Mrids -> SUBSET Responses] /\ owed' \in [Mrids -> SUBSET Responses]
    /\ pending' \in [Mrids -> Responses \cup {None}]
    /\ Remembers
    /\ \A d \in Mrids : Said(d)' = Said(d) \cup (IF d = c THEN {code} ELSE {})

\* A POST says its response of its control, and nothing else, whether or not it gets through.
LEMMA PostSays ==
    ASSUME OnceInv, NEW c, NEW code \in Responses, Post(c, code)
    PROVE  Says(c, code)
<1>1. /\ sent \in [Mrids -> SUBSET Responses] /\ owed \in [Mrids -> SUBSET Responses]
      /\ pending \in [Mrids -> Responses \cup {None}]
      /\ \A d \in Mrids : pending[d] # None => pending[d] \in owed[d]
  BY DEF OnceInv, ClientTypes, Accounted
<1> QED BY <1>1 DEF Post, Says, Said, Remembers

\* A task that has nothing in hand.
LEMMA OwnsNothing ==
    ASSUME NEW t, at'[t] \notin InHand \cup {"future", "expired", "retrying"}
    PROVE  Owns(t)'
BY DEF Owns, InHand, Before, Beyond

\* A new frame, and that of a control just taken in hand, are frames.
LEMMA FrameTypes ==
    /\ NoFrame \in Frames
    /\ \A c \in Mrids : [NoFrame EXCEPT !.on = c] \in Frames /\ [NoFrame EXCEPT !.on = c].on = c
BY DEF NoFrame, Frames

\* The first of some modes is one of them.
LEMMA FirstIsOne == ASSUME NEW S \in SUBSET Modes, S # {} PROVE First(S) \in S
<1>1. \E m \in S : \A n \in S : m <= n
  <2>1. S \subseteq {1, 2, 3}
    BY DEF Modes, FixedW, ConnectMode, EnergizeMode
  <2>2. CASE 1 \in S
    BY <2>1, <2>2
  <2>3. CASE 1 \notin S /\ 2 \in S
    BY <2>1, <2>3
  <2>4. CASE 1 \notin S /\ 2 \notin S
    <3>1. S = {3}
      BY <2>1, <2>4
    <3> QED BY <3>1
  <2> QED BY <2>2, <2>3, <2>4
<1> QED BY <1>1 DEF First

\* A task takes control c in hand, or goes on with it, the statuses being st.
Takes(t, c, st) ==
    /\ at' \in [Tasks -> Points] /\ at'[t] \in {"received", "conflict", "lost", "aborted"}
    /\ frame' \in [Tasks -> Frames] /\ frame'[t].on = c
    /\ Others(t)
    /\ status' \in [Mrids -> ClientStatuses]
    /\ \A d \in Mrids : status'[d] = st[d] \/ status'[d] \in {"superseded", "failed"}

\* _resolve_conflict keeps the control in hand, and marks no other but as superseded.
LEMMA Resolving ==
    ASSUME ClientTypes, NEW t \in Requesters, NEW c \in Mrids, NEW S \in SUBSET Modes,
           NEW st \in [Mrids -> ClientStatuses], ResolveConflict(t, c, S, st)
    PROVE  Takes(t, c, st)
<1> DEFINE taken == {m \in S : byMode[m] # None}
           e     == byMode[First(taken)]
           own   == [NoFrame EXCEPT !.on = c]
           more  == [own EXCEPT !.other = e, !.modes = {m \in S : m > First(taken)}]
<1>1. /\ {"received", "conflict", "lost"} \subseteq Points
      /\ {"superseded", "failed"} \subseteq ClientStatuses
  BY DEF Points, InHand, Before, Beyond, ClientStatuses, Statuses
<1>2. t \in Tasks /\ at \in [Tasks -> Points] /\ frame \in [Tasks -> Frames]
  BY TasksAre DEF ClientTypes
<1>3. own \in Frames /\ own.on = c
  BY FrameTypes
<1>4. taken # {} => e \in Mrids \cup {None}
  <2>1. taken # {} => First(taken) \in Modes
    BY FirstIsOne
  <2> HIDE DEF taken
  <2> QED BY <2>1 DEF ClientTypes
<1>5. taken # {} => more \in Frames /\ more.on = c
  <2>1. own \in Frames /\ own.on = c /\ {m \in S : m > First(taken)} \in SUBSET Modes
    BY <1>3
  <2> HIDE DEF own, e
  <2> QED BY <1>4, <2>1, Zenon DEF Frames, Mrids
<1>6. CASE taken = {}
  <2>1. at' = [at EXCEPT ![t] = "received"] /\ status' = st /\ frame' = [frame EXCEPT ![t] = own]
    BY <1>6 DEF ResolveConflict, GoOn, Enter
  <2> HIDE DEF own
  <2> QED BY <1>1, <1>2, <1>3, <2>1 DEF Takes, Others
<1>7. CASE taken # {} /\ Beats(c, e)
  <2>1. /\ at' = [at EXCEPT ![t] = "conflict"] /\ status' = [st EXCEPT ![e] = "superseded"]
        /\ frame' = [frame EXCEPT ![t] = more]
    BY <1>7 DEF ResolveConflict, GoOn
  <2> HIDE DEF more, e, taken
  <2> QED BY <1>1, <1>2, <1>5, <1>7, <2>1 DEF Takes, Others
<1>8. CASE taken # {} /\ ~Beats(c, e)
  <2>1. /\ at' = [at EXCEPT ![t] = "lost"] /\ status' = [st EXCEPT ![c] = "superseded"]
        /\ frame' = [frame EXCEPT ![t] = own]
    BY <1>8 DEF ResolveConflict, GoOn, Enter
  <2> HIDE DEF own
  <2> QED BY <1>1, <1>2, <1>3, <2>1 DEF Takes, Others
<1> QED BY <1>6, <1>7, <1>8

\* So does the beginning of _execute_control.
LEMMA BeginningToExecute ==
    ASSUME ClientTypes, NEW t \in Requesters, NEW c \in Mrids,
           NEW st \in [Mrids -> ClientStatuses], ExecuteControl(t, c, st)
    PROVE  Takes(t, c, st)
<1>1. CASE stopped
  <2>1. /\ at' = [at EXCEPT ![t] = "aborted"] /\ status' = [st EXCEPT ![c] = "failed"]
        /\ frame' = [frame EXCEPT ![t] = [NoFrame EXCEPT !.on = c]]
    BY <1>1 DEF ExecuteControl, GoOn, Enter
  <2>2. "aborted" \in Points /\ "failed" \in ClientStatuses
    BY DEF Points, InHand, Before, Beyond, ClientStatuses, Statuses
  <2>3. t \in Tasks /\ at \in [Tasks -> Points] /\ frame \in [Tasks -> Frames]
    BY TasksAre DEF ClientTypes
  <2> QED BY <2>1, <2>2, <2>3, FrameTypes DEF Takes, Others
<1>2. CASE ~stopped
  <2>1. ModesOf(c) \in SUBSET Modes
    BY DEF ModesOf
  <2> QED BY <1>2, <2>1, Resolving DEF ExecuteControl
<1> QED BY <1>1, <1>2

\* The end of _execute_control.
LEMMA Leaving ==
    ASSUME ClientTypes, NEW t \in Requesters, frame[t].on \in Mrids, Leave(t)
    PROVE  /\ at' \in [Tasks -> Points] /\ at'[t] = "next" /\ frame' \in [Tasks -> Frames]
           /\ processed' \subseteq Mrids /\ Others(t) /\ Marks(t) /\ Owns(t)'
           /\ t = Poller => frame[t].on \in processed'
<1>1. "next" \in Points /\ t \in Tasks /\ "next" \notin InHand \cup {"future", "expired", "retrying"}
  BY TasksAre DEF Points, InHand, Before, Beyond
<1>2. /\ at' = [at EXCEPT ![t] = "next"] /\ frame' = [frame EXCEPT ![t] = NoFrame]
      /\ processed' = IF t = Poller THEN processed \cup {frame[t].on} ELSE processed
  BY DEF Leave, GoOn, Forget
<1>3. at'[t] = "next"
  BY <1>1, <1>2 DEF ClientTypes
<1> QED BY <1>1, <1>2, <1>3, FrameTypes, OwnsNothing DEF ClientTypes, Others, Marks

\* What is left as it was, in the next state too.
LEMMA SaidAgain ==
    ASSUME OnceInv, UNCHANGED responses
    PROVE  /\ Remembers /\ \A d \in Mrids : Said(d)' = Said(d)
           /\ sent' \in [Mrids -> SUBSET Responses] /\ owed' \in [Mrids -> SUBSET Responses]
           /\ pending' \in [Mrids -> Responses \cup {None}]
BY DEF OnceInv, ClientTypes, Accounted, responses, Remembers, Said

-----------------------------------------------------------------------------
(***************************************************************************)
(* _execute_control.                                                       *)
(***************************************************************************)
LEMMA InHandNow ==
    ASSUME OnceInv, NEW t \in Requesters, at[t] \in InHand \cup {"future", "expired"}
    PROVE  /\ t \in Tasks /\ ClientTypes /\ Owns(t) /\ frame[t].on \in Mrids
           /\ Fresh(frame[t].on) /\ Accounted(frame[t].on)
           /\ "expired" \notin Said(frame[t].on) /\ (t = Poller \/ frame[t].on \in processed)
<1>1. t \in Tasks /\ ClientTypes /\ Owns(t) /\ frame[t].on \in Mrids
  BY TasksAre DEF OnceInv, Owns
<1>2. PICK c \in Mrids : c = frame[t].on
  BY <1>1
<1>3. Fresh(c) /\ Accounted(c)
  BY DEF OnceInv
<1>4. t # Poller => at[t] \in InHand /\ t = Scheduler
  BY TasksAre DEF OnceInv, ClientTypes, InHand, Before, Beyond
<1>5. "expired" \notin Said(c) /\ (t = Poller \/ c \in processed)
  BY <1>1, <1>2, <1>3, <1>4 DEF Owns, Accounted
<1> QED BY <1>1, <1>2, <1>3, <1>5

\* The control that lost a mode has been reported; the next mode is looked at.
LEMMA SupersededReportedStep ==
    ASSUME OnceInv, NEW t \in Requesters, SupersededReported(t) PROVE OnceInv'
<1>1. at[t] = "conflict" /\ at[t] \in InHand
  BY DEF SupersededReported, Stands, InHand, Before
<1>2. PICK c \in Mrids : c = frame[t].on
  BY <1>1, InHandNow
<1>3. Takes(t, c, status)
  <2>1. frame[t].modes \in SUBSET Modes
    BY <1>1, InHandNow DEF ClientTypes, Frames
  <2>2. status \in [Mrids -> ClientStatuses]
    BY DEF OnceInv, ClientTypes
  <2> QED BY <1>1, <1>2, <2>1, <2>2, InHandNow, Resolving DEF SupersededReported
<1>4. Says(frame[t].other, "superseded")
  BY PostSays DEF SupersededReported, Responses
<1>5. UNCHANGED <<processed, byMode, left, batch, handed>>
  BY DEF SupersededReported, lists, inForce, pollVars
<1>6. at'[FsaTask] = at[FsaTask] /\ (t = Poller => at'[Scheduler] = at[Scheduler])
  BY <1>3, TasksAre DEF Takes, Others
<1>7. ClientTypes'
  BY <1>1, <1>3, <1>4, <1>5, <1>6, InHandNow, TasksAre
     DEF ClientTypes, Takes, Says, InHand, Before, Beyond
<1>8. StepOf(t)
  <2>1. Marks(t) /\ Others(t) /\ Remembers
    BY <1>3, <1>4, <1>5 DEF Marks, Takes, Says
  <2>2. \A d \in Mrids : Harmless(d)
    BY <1>3, <1>4, <1>5 DEF Harmless, Takes, Says
  <2>3. PutsDown(t)
    BY <1>1, <1>2, <1>3 DEF PutsDown, Takes, InHand, Before, Beyond
  <2> QED BY <2>1, <2>2, <2>3 DEF StepOf, Concerns
<1>9. Owns(t)'
  <2>1. frame'[t].on = c /\ at'[t] \in {"received", "conflict", "lost", "aborted"}
    BY <1>3 DEF Takes
  <2>2. /\ t = Poller => c \notin processed
        /\ t = Scheduler => c \in processed /\ "expired" \notin Said(c)
        /\ handed[c] = 0
    BY <1>1, <1>2, InHandNow DEF Owns, InHand, Before
  <2>3. "expired" \notin Said(c) => "expired" \notin Said(c)'
    BY <1>4 DEF Says
  <2> QED BY <1>5, <2>1, <2>2, <2>3 DEF Owns, Said
<1> QED BY <1>1, <1>7, <1>8, <1>9, InHandNow, OneStep

\* The control lost or was aborted: it is put down without having been started.
LEMMA LossReportedStep ==
    ASSUME OnceInv, NEW t \in Requesters, LossReported(t) PROVE OnceInv'
<1>1. at[t] \in {"lost", "aborted"} /\ at[t] \in InHand
  BY DEF LossReported, Stands, InHand, Beyond
<1>2. PICK code \in {"superseded", "aborted"} : Says(frame[t].on, code)
  BY PostSays DEF LossReported, Responses
<1>3. /\ at' \in [Tasks -> Points] /\ at'[t] = "next" /\ frame' \in [Tasks -> Frames]
      /\ processed' \subseteq Mrids /\ Others(t) /\ Marks(t) /\ Owns(t)'
      /\ t = Poller => frame[t].on \in processed'
  BY <1>1, InHandNow, Leaving DEF LossReported
<1>4. UNCHANGED <<status, byMode, left, batch, handed>>
  BY DEF LossReported, inForce, pollVars
<1>5. ClientTypes'
  BY <1>1, <1>2, <1>3, <1>4, InHandNow, TasksAre DEF ClientTypes, Says, Others
<1>6. StepOf(t)
  <2>1. \A d \in Mrids : Harmless(d)
    BY <1>2, <1>4 DEF Harmless, Says
  <2>2. Remembers
    BY <1>2 DEF Says
  <2>3. PutsDown(t)
    BY <1>1, <1>3 DEF PutsDown
  <2> QED BY <1>3, <2>1, <2>2, <2>3 DEF StepOf, Concerns
<1> QED BY <1>1, <1>3, <1>5, <1>6, InHandNow, OneStep

\* RECEIVED has been said, and the control becomes ACTIVE.
LEMMA ReceivedReportedStep ==
    ASSUME OnceInv, NEW t \in Requesters, ReceivedReported(t) PROVE OnceInv'
<1>1. at[t] = "received" /\ at[t] \in InHand
  BY DEF ReceivedReported, Stands, InHand, Before
<1>2. PICK c \in Mrids : c = frame[t].on
  BY <1>1, InHandNow
<1>3. Says(c, "received")
  BY <1>2, PostSays DEF ReceivedReported, Responses
<1>4. /\ at' = [at EXCEPT ![t] = "started"] /\ status' = [status EXCEPT ![c] = "active"]
      /\ UNCHANGED <<processed, byMode, left, batch, handed, frame>>
  BY <1>2 DEF ReceivedReported, GoOn, Become, lists, pollVars
<1>5. "started" \in Points /\ "active" \in ClientStatuses
  BY DEF Points, InHand, Before, ClientStatuses, Statuses
<1>6. at'[t] = "started" /\ Others(t)
  BY <1>1, <1>4, InHandNow DEF ClientTypes, Others
<1>7. ClientTypes'
  BY <1>1, <1>3, <1>4, <1>5, <1>6, InHandNow, TasksAre
     DEF ClientTypes, Says, InHand, Before
<1>8. /\ status'[c] = "active" /\ \A d \in Mrids \ {c} : status'[d] = status[d]
  BY <1>1, <1>4, InHandNow DEF ClientTypes
<1>9. /\ t = Poller => c \notin processed
      /\ t = Scheduler => c \in processed
      /\ handed[c] = 0 /\ "expired" \notin Said(c) /\ Accounted(c) /\ Fresh(c)
  BY <1>1, <1>2, InHandNow DEF Owns, InHand, Before
<1>10. /\ "received" \in Said(c)' /\ "expired" \notin Said(c)'
       /\ \A d \in Mrids : Said(d) \subseteq Said(d)' /\ Said(d)' \subseteq Said(d) \cup {"received"}
  BY <1>3, <1>9 DEF Says
<1>11. StepOf(t)
  <2>1. \A d \in Mrids \ {c} : Harmless(d)
    BY <1>4, <1>8, <1>10 DEF Harmless
  <2>2. Fresh(c)'
    BY <1>2, <1>4, <1>6, <1>9, TasksAre DEF Fresh, InHand, Before
  <2>3. Accounted(c)'
    <3>1. \E u \in Requesters : frame'[u].on = c /\ at'[u] \in {"started", "call", "handling"}
      BY <1>2, <1>4, <1>6
    <3>2. pending'[c] # None => pending'[c] \in owed'[c]
      BY <1>3 DEF Says, Remembers
    <3> QED BY <1>4, <1>8, <1>9, <1>10, <3>1, <3>2 DEF Accounted
  <2>4. Remembers /\ Marks(t)
    BY <1>3, <1>4 DEF Says, Marks
  <2>5. PutsDown(t)
    BY <1>1, <1>4, <1>6 DEF PutsDown, InHand, Before
  <2> QED BY <1>1, <1>2, <1>6, <2>1, <2>2, <2>3, <2>4, <2>5 DEF StepOf, Concerns
<1>12. Owns(t)'
  BY <1>2, <1>4, <1>6, <1>8, <1>9, <1>10 DEF Owns, Said
<1> QED BY <1>1, <1>7, <1>11, <1>12, InHandNow, OneStep

\* STARTED has been said, after RECEIVED.
LEMMA StartedReportedStep ==
    ASSUME OnceInv, NEW t \in Requesters, StartedReported(t) PROVE OnceInv'
<1>1. at[t] = "started" /\ at[t] \in InHand
  BY DEF StartedReported, Stands, InHand, Before
<1>2. PICK c \in Mrids : c = frame[t].on
  BY <1>1, InHandNow
<1>3. Says(c, "started")
  BY <1>2, PostSays DEF StartedReported, Responses
<1>4. /\ at' = [at EXCEPT ![t] = "call"]
      /\ UNCHANGED <<status, processed, byMode, left, batch, handed, frame>>
  BY <1>2 DEF StartedReported, GoOn, lists, pollVars, inForce
<1>5. "call" \in Points
  BY DEF Points, InHand, Before
<1>6. at'[t] = "call" /\ Others(t)
  BY <1>1, <1>4, InHandNow DEF ClientTypes, Others
<1>7. ClientTypes'
  BY <1>1, <1>3, <1>4, <1>5, <1>6, InHandNow, TasksAre
     DEF ClientTypes, Says, InHand, Before
<1>8. /\ t = Poller => c \notin processed
      /\ t = Scheduler => c \in processed
      /\ handed[c] = 0 /\ status[c] # "scheduled" /\ "received" \in Said(c)
      /\ "expired" \notin Said(c) /\ Accounted(c) /\ Fresh(c)
  BY <1>1, <1>2, InHandNow DEF Owns, InHand, Before
<1>9. /\ "started" \in Said(c)' /\ "expired" \notin Said(c)' /\ "received" \in Said(c)'
      /\ \A d \in Mrids : Said(d) \subseteq Said(d)'
      /\ \A d \in Mrids \ {c} : Said(d)' = Said(d)
  <2>1. Said(c)' = Said(c) \cup {"started"}
    BY <1>3 DEF Says
  <2>2. \A d \in Mrids \ {c} : Said(d)' = Said(d)
    BY <1>3 DEF Says
  <2> QED BY <1>8, <2>1, <2>2
<1>10. StepOf(t)
  <2>1. \A d \in Mrids \ {c} : Harmless(d)
    BY <1>4, <1>9 DEF Harmless
  <2>2. Fresh(c)'
    BY <1>2, <1>4, <1>6, <1>8, TasksAre DEF Fresh, InHand, Before
  <2>3. Accounted(c)'
    <3>1. \E u \in Requesters : frame'[u].on = c /\ at'[u] \in {"started", "call", "handling"}
      BY <1>2, <1>4, <1>6
    <3>2. pending'[c] # None => pending'[c] \in owed'[c]
      BY <1>3 DEF Says, Remembers
    <3> QED BY <1>4, <1>8, <1>9, <3>1, <3>2 DEF Accounted
  <2>4. Remembers /\ Marks(t)
    BY <1>3, <1>4 DEF Says, Marks
  <2>5. PutsDown(t)
    BY <1>1, <1>4, <1>6 DEF PutsDown, InHand, Before
  <2> QED BY <1>1, <1>2, <1>6, <2>1, <2>2, <2>3, <2>4, <2>5 DEF StepOf, Concerns
<1>11. Owns(t)'
  BY <1>2, <1>4, <1>6, <1>8, <1>9 DEF Owns, Said
<1> QED BY <1>1, <1>7, <1>10, <1>11, InHandNow, OneStep

\* What becomes of the control that the handler has answered for.
LEMMA AfterHandlingIs ==
    ASSUME OnceInv, NEW t \in Requesters, NEW c \in Mrids, c = frame[t].on,
           at[t] \in {"call", "handling"}, NEW outcome \in {"completed", "failed"},
           AfterHandling(t, outcome)
    PROVE  /\ at' \in [Tasks -> Points] /\ frame' \in [Tasks -> Frames]
           /\ at'[t] \in {"completed", "next"} /\ (at'[t] = "completed" => frame'[t].on = c)
           /\ at'[t] = "completed" => outcome = "completed"
           /\ status' \in [Mrids -> ClientStatuses] /\ status'[c] = outcome
           /\ \A d \in Mrids \ {c} : status'[d] = status[d]
           /\ byMode' \in [Modes -> Mrids \cup {None}]
           /\ processed' \subseteq Mrids /\ Others(t) /\ Marks(t)
           /\ at'[t] = "completed" => processed' = processed
           /\ t = Poller => c \in processed' \/ (at'[t] = "completed" /\ c \notin processed')
           /\ UNCHANGED <<left, batch, responses>>
<1>1. /\ status' = [status EXCEPT ![c] = outcome]
      /\ UNCHANGED <<left, batch, responses>>
  BY DEF AfterHandling, Become, pollVars
<1>2. ClientTypes /\ t \in Tasks /\ Owns(t) /\ outcome \in ClientStatuses
  BY TasksAre DEF OnceInv, ClientStatuses, Statuses
<1>3. status' \in [Mrids -> ClientStatuses] /\ status'[c] = outcome
      /\ \A d \in Mrids \ {c} : status'[d] = status[d]
  BY <1>1, <1>2 DEF ClientTypes
<1>4. CASE outcome = "completed"
  <2>1. at' = [at EXCEPT ![t] = "completed"] /\ UNCHANGED <<byMode, processed, frame>>
    BY <1>4 DEF AfterHandling, GoOn
  <2>2. "completed" \in Points
    BY DEF Points, InHand, Beyond
  <2>3. at' \in [Tasks -> Points] /\ at'[t] = "completed" /\ Others(t)
    BY <1>2, <2>1, <2>2 DEF ClientTypes, Others
  <2>4. t = Poller => c \notin processed
    BY <1>2 DEF Owns, InHand, Before, Beyond
  <2> QED BY <1>1, <1>2, <1>3, <1>4, <2>1, <2>3, <2>4 DEF ClientTypes, Marks
<1>5. CASE outcome # "completed"
  <2>1. byMode' = Holding(c) /\ Leave(t)
    BY <1>5 DEF AfterHandling
  <2>2. byMode' \in [Modes -> Mrids \cup {None}]
    BY <1>2, <2>1 DEF Holding, ClientTypes
  <2>3. /\ at' \in [Tasks -> Points] /\ at'[t] = "next" /\ frame' \in [Tasks -> Frames]
        /\ processed' \subseteq Mrids /\ Others(t) /\ Marks(t)
        /\ t = Poller => frame[t].on \in processed'
    BY <1>2, <2>1, Leaving
  <2> QED BY <1>1, <1>3, <2>2, <2>3
<1> QED BY <1>4, <1>5

\* The steps at the handler: the control is handed over, or has been, and is not handed over again.
LEMMA HandlerStep ==
    ASSUME OnceInv, NEW t \in Requesters, NEW c \in Mrids, c = frame[t].on,
           \/ /\ at[t] = "call" /\ handed' = [handed EXCEPT ![c] = @ + 1]
           \/ at[t] = "handling" /\ handed' = handed,
           \E outcome \in {"completed", "failed"} : AfterHandling(t, outcome)
    PROVE  OnceInv'
<1>1. PICK outcome \in {"completed", "failed"} : AfterHandling(t, outcome)
  OBVIOUS
<1>2. at[t] \in {"call", "handling"} /\ at[t] \in InHand
  BY DEF InHand, Before, Beyond
<1>3. /\ at' \in [Tasks -> Points] /\ frame' \in [Tasks -> Frames]
      /\ at'[t] \in {"completed", "next"} /\ (at'[t] = "completed" => frame'[t].on = c)
      /\ status' \in [Mrids -> ClientStatuses] /\ status'[c] \in {"completed", "failed"}
      /\ \A d \in Mrids \ {c} : status'[d] = status[d]
      /\ byMode' \in [Modes -> Mrids \cup {None}]
      /\ processed' \subseteq Mrids /\ Others(t) /\ Marks(t)
      /\ at'[t] = "completed" => processed' = processed
      /\ t = Poller => c \in processed' \/ (at'[t] = "completed" /\ c \notin processed')
      /\ UNCHANGED <<left, batch, responses>>
  BY <1>1, <1>2, AfterHandlingIs
<1>4. /\ Remembers /\ \A d \in Mrids : Said(d)' = Said(d)
      /\ sent' \in [Mrids -> SUBSET Responses] /\ owed' \in [Mrids -> SUBSET Responses]
      /\ pending' \in [Mrids -> Responses \cup {None}]
  BY <1>3, SaidAgain
<1>5. /\ ClientTypes /\ t \in Tasks /\ Accounted(c) /\ Fresh(c) /\ "expired" \notin Said(c)
      /\ "started" \in Said(c) /\ (t = Poller \/ c \in processed)
      /\ at[t] = "call" => handed[c] = 0
  BY <1>2, InHandNow DEF Owns, Before
<1>6. /\ handed' \in [Mrids -> Nat] /\ handed'[c] <= 1
      /\ \A d \in Mrids \ {c} : handed'[d] = handed[d]
  BY <1>5 DEF ClientTypes, Accounted
<1>7. ClientTypes'
  <2>1. /\ at'[FsaTask] = at[FsaTask]
        /\ at'[Scheduler] = at[Scheduler] \/ at'[Scheduler] \in {"completed", "next"}
    BY <1>3, TasksAre DEF Others
  <2>2. {"completed", "next"} \subseteq InHand \cup {"idle", "next"}
    BY DEF InHand, Beyond
  <2> QED BY <1>3, <1>4, <1>5, <1>6, <2>1, <2>2 DEF ClientTypes
<1>8. StepOf(t)
  <2>1. \A d \in Mrids \ {c} : Harmless(d)
    BY <1>3, <1>4, <1>6 DEF Harmless
  <2>2. Fresh(c)'
    <3>1. t = Scheduler => c \in processed'
      BY <1>3, <1>5, TasksAre DEF Marks
    <3>2. t = Poller => c \in processed' \/ (at'[Poller] \in InHand /\ frame'[Poller].on = c)
      BY <1>3 DEF InHand, Beyond
    <3> QED BY <3>1, <3>2, TasksAre DEF Fresh
  <2>3. Accounted(c)'
    BY <1>3, <1>4, <1>5, <1>6 DEF Accounted, Remembers
  <2>4. PutsDown(t)
    BY <1>3 DEF PutsDown, InHand, Beyond
  <2> QED BY <1>2, <1>3, <1>4, <2>1, <2>2, <2>3, <2>4 DEF StepOf, Concerns
<1>9. Owns(t)'
  <2>1. CASE at'[t] = "next"
    BY <2>1, OwnsNothing DEF InHand, Before, Beyond
  <2>2. CASE at'[t] = "completed"
    <3>1. frame'[t].on = c /\ processed' = processed /\ Said(c)' = Said(c)
      BY <1>3, <1>4, <2>2
    <3>2. t = Poller => c \notin processed
      BY <1>2, <1>5, InHandNow DEF Owns
    <3> QED BY <1>5, <2>2, <3>1, <3>2, TasksAre DEF Owns, Said, Before
  <2> QED BY <1>3, <2>1, <2>2
<1> QED BY <1>5, <1>7, <1>8, <1>9, OneStep

\* The control is handed to the handler, for the first time.
LEMMA CallHandlerStep ==
    ASSUME OnceInv, HandlerCore, NEW t \in Requesters, CallHandler(t) PROVE OnceInv'
<1>1. at[t] = "call" /\ at[t] \in InHand
  BY DEF CallHandler, Stands, InHand, Before
<1>2. PICK c \in Mrids : c = frame[t].on
  BY <1>1, InHandNow
<1>3. HandleControl(t, c, ControlOf[c], "open") /\ handed' = [handed EXCEPT ![c] = @ + 1]
  BY <1>2 DEF CallHandler
<1>4. CASE pc'[t] # "power"
  <2>1. events'[Len(events')].status \in {"completed", "failed"}
    BY <1>3, <1>4, HandlerHandles
  <2>2. AfterHandling(t, events'[Len(events')].status)
    BY <1>4 DEF CallHandler
  <2> QED BY <1>1, <1>2, <1>3, <2>1, <2>2, HandlerStep
<1>5. CASE pc'[t] = "power"
  <2>1. /\ at' = [at EXCEPT ![t] = "handling"]
        /\ UNCHANGED <<status, processed, byMode, frame, left, batch, responses>>
    BY <1>5 DEF CallHandler, GoOn, pollVars, lists, inForce
  <2>2. /\ ClientTypes /\ t \in Tasks /\ Accounted(c) /\ Fresh(c) /\ "expired" \notin Said(c)
        /\ "started" \in Said(c) /\ handed[c] = 0 /\ status[c] # "scheduled"
        /\ t = Poller => c \notin processed
        /\ t = Scheduler => c \in processed
    BY <1>1, <1>2, InHandNow DEF Owns, Before
  <2>3. "handling" \in Points /\ "handling" \in InHand
    BY DEF Points, InHand, Beyond
  <2>4. at'[t] = "handling" /\ Others(t) /\ at' \in [Tasks -> Points]
    BY <2>1, <2>2, <2>3 DEF ClientTypes, Others
  <2>5. handed' \in [Mrids -> Nat] /\ handed'[c] = 1 /\ \A d \in Mrids \ {c} : handed'[d] = handed[d]
    BY <1>3, <2>2 DEF ClientTypes
  <2>6. /\ Remembers /\ \A d \in Mrids : Said(d)' = Said(d)
        /\ sent' \in [Mrids -> SUBSET Responses] /\ owed' \in [Mrids -> SUBSET Responses]
        /\ pending' \in [Mrids -> Responses \cup {None}]
    BY <2>1, SaidAgain
  <2>7. ClientTypes'
    BY <2>1, <2>2, <2>3, <2>4, <2>5, <2>6, TasksAre DEF ClientTypes, Others
  <2>8. StepOf(t)
    <3>1. \A d \in Mrids \ {c} : Harmless(d)
      BY <2>1, <2>5, <2>6 DEF Harmless
    <3>2. Fresh(c)'
      BY <1>2, <2>1, <2>2, <2>3, <2>4, TasksAre DEF Fresh
    <3>3. Accounted(c)'
      <4>1. \E u \in Requesters : frame'[u].on = c /\ at'[u] \in {"started", "call", "handling"}
        BY <1>2, <2>1, <2>4
      <4> QED BY <2>1, <2>2, <2>5, <2>6, <4>1 DEF Accounted, Remembers
    <3>4. PutsDown(t) /\ Marks(t)
      BY <2>1, <2>3, <2>4 DEF PutsDown, Marks
    <3> QED BY <1>1, <1>2, <2>4, <2>6, <3>1, <3>2, <3>3, <3>4 DEF StepOf, Concerns
  <2>9. Owns(t)'
    BY <1>2, <2>1, <2>2, <2>4, <2>6 DEF Owns, Said, Before
  <2> QED BY <2>2, <2>7, <2>8, <2>9, OneStep
<1> QED BY <1>4, <1>5

\* The handler has answered after its await.
LEMMA HandlerReturnedStep ==
    ASSUME OnceInv, SuccessInv, NEW t \in Requesters, HandlerReturned(t) PROVE OnceInv'
<1>1. at[t] = "handling" /\ at[t] \in InHand /\ handed' = handed
  BY DEF HandlerReturned, Stands, InHand, Beyond
<1>2. PICK c \in Mrids : c = frame[t].on
  BY <1>1, InHandNow
<1>3. events'[job[t].event].status \in {"completed", "failed"}
  BY <1>1, HandlerAnswers DEF HandlerReturned, SuccessInv
<1>4. AfterHandling(t, events'[job[t].event].status)
  BY DEF HandlerReturned
<1> QED BY <1>1, <1>2, <1>3, <1>4, HandlerStep

Sweeping == {"sweep", "sweptMode", "sweepScheduled", "sweptControl", "sweepHandler",
             "sweepCancelling"}

GoesOn(t) ==
    /\ at' \in [Tasks -> Points] /\ at'[t] \in Sweeping \cup {"aborted"}
    /\ frame' \in [Tasks -> Frames] /\ frame'[t].on = frame[t].on /\ Others(t)
    /\ status' \in [Mrids -> ClientStatuses]
    /\ \A d \in Mrids : status'[d] = status[d] \/ status'[d] \in {"superseded", "failed"}

\* The control is kept in hand while others are swept, or its execution is given up.
LEMMA GoingOn ==
    ASSUME OnceInv, NEW t \in Requesters, at[t] \in Sweeping,
           GoesOn(t), byMode' \in [Modes -> Mrids \cup {None}],
           UNCHANGED <<processed, left, batch, handed>>,
           (\E e : Says(e, "superseded")) \/ UNCHANGED responses
    PROVE  OnceInv'
<1>1. at[t] \in InHand /\ at'[t] \in InHand
  BY DEF Sweeping, InHand, Beyond, GoesOn
<1>2. PICK c \in Mrids : c = frame[t].on
  BY <1>1, InHandNow
<1>3. /\ Remembers
      /\ \A d \in Mrids : Said(d)' = Said(d) \/ Said(d)' = Said(d) \cup {"superseded"}
      /\ sent' \in [Mrids -> SUBSET Responses] /\ owed' \in [Mrids -> SUBSET Responses]
      /\ pending' \in [Mrids -> Responses \cup {None}]
  BY SaidAgain DEF Says
<1>4. /\ ClientTypes /\ t \in Tasks /\ "expired" \notin Said(c)
      /\ t = Poller => c \notin processed
      /\ t = Scheduler => c \in processed
  BY <1>1, <1>2, InHandNow DEF Owns
<1>5. ClientTypes'
  BY <1>1, <1>3, <1>4, TasksAre DEF ClientTypes, Others, GoesOn
<1>6. StepOf(t)
  <2>1. \A d \in Mrids : Harmless(d)
    BY <1>3 DEF Harmless, GoesOn
  <2>2. PutsDown(t)
    BY <1>1 DEF PutsDown, Sweeping, GoesOn
  <2> QED BY <1>3, <2>1, <2>2 DEF StepOf, Concerns, Marks, GoesOn
<1>7. Owns(t)'
  <2>1. "expired" \notin Said(c)'
    BY <1>3, <1>4
  <2>2. /\ frame'[t].on = c
        /\ at'[t] \notin Before \cup {"handling", "completed", "retrying", "future", "expired"}
    BY <1>2 DEF Sweeping, Before, GoesOn
  <2>3. at'[t] \notin {"started", "call"}
    BY DEF Sweeping, GoesOn
  <2> QED BY <1>4, <2>1, <2>2, <2>3 DEF Owns, Said
<1> QED BY <1>4, <1>5, <1>6, <1>7, OneStep

\* The control is put down after others were swept.
LEMMA PuttingDown ==
    ASSUME OnceInv, NEW t \in Requesters, at[t] \in Sweeping, Leave(t),
           UNCHANGED <<status, byMode, left, batch, handed, responses>>
    PROVE  OnceInv'
<1>1. at[t] \in InHand /\ at[t] \notin {"started", "call", "handling"}
  BY DEF Sweeping, InHand, Beyond
<1>2. ClientTypes /\ t \in Tasks /\ frame[t].on \in Mrids
  BY <1>1, InHandNow
<1>3. /\ at' \in [Tasks -> Points] /\ at'[t] = "next" /\ frame' \in [Tasks -> Frames]
      /\ processed' \subseteq Mrids /\ Others(t) /\ Marks(t) /\ Owns(t)'
      /\ t = Poller => frame[t].on \in processed'
  BY <1>2, Leaving
<1>4. /\ Remembers /\ \A d \in Mrids : Said(d)' = Said(d)
      /\ sent' \in [Mrids -> SUBSET Responses] /\ owed' \in [Mrids -> SUBSET Responses]
      /\ pending' \in [Mrids -> Responses \cup {None}]
  BY SaidAgain
<1>5. ClientTypes'
  BY <1>2, <1>3, <1>4, TasksAre DEF ClientTypes, Others
<1>6. StepOf(t)
  <2>1. \A d \in Mrids : Harmless(d)
    BY <1>4 DEF Harmless
  <2>2. PutsDown(t)
    BY <1>1, <1>3 DEF PutsDown
  <2> QED BY <1>3, <1>4, <2>1, <2>2 DEF StepOf, Concerns
<1> QED BY <1>2, <1>3, <1>5, <1>6, OneStep

\* COMPLETED has been said, after STARTED; a disconnection goes on to the sweep.
LEMMA CompletedReportedStep ==
    ASSUME OnceInv, NEW t \in Requesters, CompletedReported(t) PROVE OnceInv'
<1>1. at[t] = "completed" /\ at[t] \in InHand
  BY DEF CompletedReported, Stands, InHand, Beyond
<1>2. PICK c \in Mrids : c = frame[t].on
  BY <1>1, InHandNow
<1>3. Says(c, "completed")
  BY <1>2, PostSays DEF CompletedReported, Responses
<1>4. byMode' = Holding(c) /\ UNCHANGED <<status, left, batch, handed>>
  BY <1>2 DEF CompletedReported, pollVars
<1>5. /\ ClientTypes /\ t \in Tasks /\ Accounted(c) /\ Fresh(c) /\ "expired" \notin Said(c)
      /\ "started" \in Said(c)
      /\ t = Poller => c \notin processed
      /\ t = Scheduler => c \in processed
  BY <1>1, <1>2, InHandNow DEF Owns
<1>6. byMode' \in [Modes -> Mrids \cup {None}]
  BY <1>4, <1>5 DEF Holding, ClientTypes
<1>7. /\ at' \in [Tasks -> Points] /\ frame' \in [Tasks -> Frames] /\ Others(t) /\ Marks(t)
      /\ processed' \subseteq Mrids
      /\ \/ at'[t] = "sweep" /\ frame'[t].on = c /\ processed' = processed
         \/ at'[t] = "next" /\ (t = Poller => c \in processed')
  <2>1. CASE Leave(t)
    BY <1>2, <1>5, <2>1, Leaving
  <2>2. CASE ~Leave(t)
    <3> DEFINE M == {m \in Modes : byMode'[m] # None}
    <3>1. /\ at' = [at EXCEPT ![t] = "sweep"] /\ frame' = [frame EXCEPT ![t].modes = M]
          /\ processed' = processed
      BY <2>2 DEF CompletedReported, GoOn
    <3>2. "sweep" \in Points
      BY DEF Points, InHand, Beyond
    <3>3. M \in SUBSET Modes
      OBVIOUS
    <3> HIDE DEF M
    <3>4. [frame[t] EXCEPT !.modes = M] \in Frames /\ [frame[t] EXCEPT !.modes = M].on = c
      <4>1. frame[t] \in Frames
        BY <1>5 DEF ClientTypes
      <4> QED BY <1>2, <3>3, <4>1 DEF Frames
    <3>5. frame' = [frame EXCEPT ![t] = [frame[t] EXCEPT !.modes = M]]
      BY <1>5, <3>1 DEF ClientTypes
    <3> QED BY <1>5, <3>1, <3>2, <3>4, <3>5 DEF ClientTypes, Others, Marks
  <2> QED BY <2>1, <2>2
<1>8. ClientTypes'
  <2>1. /\ at'[FsaTask] = at[FsaTask]
        /\ at'[Scheduler] = at[Scheduler] \/ at'[Scheduler] \in {"sweep", "next"}
    BY <1>7, TasksAre DEF Others
  <2>2. {"sweep", "next"} \subseteq InHand \cup {"idle", "next"}
    BY DEF InHand, Beyond
  <2> QED BY <1>3, <1>4, <1>5, <1>6, <1>7, <2>1, <2>2 DEF ClientTypes, Says
<1>9. /\ Said(c)' = Said(c) \cup {"completed"}
      /\ \A d \in Mrids \ {c} : Said(d)' = Said(d)
  BY <1>3 DEF Says
<1>10. StepOf(t)
  <2>1. \A d \in Mrids \ {c} : Harmless(d)
    BY <1>4, <1>9 DEF Harmless
  <2>2. Fresh(c)'
    <3>1. t = Scheduler => c \in processed'
      BY <1>5, <1>7, TasksAre DEF Marks
    <3>2. t = Poller => c \in processed' \/ (at'[Poller] \in InHand /\ frame'[Poller].on = c)
      BY <1>7 DEF InHand, Beyond
    <3> QED BY <3>1, <3>2, TasksAre DEF Fresh
  <2>3. Accounted(c)'
    <3>1. pending'[c] # None => pending'[c] \in owed'[c]
      BY <1>3 DEF Says, Remembers
    <3>2. processed \subseteq processed'
      BY <1>7 DEF Marks
    <3>3. status[c] = "active" => \E u \in Requesters : /\ u # t /\ frame[u].on = c
                                                        /\ at[u] \in {"started", "call", "handling"}
      BY <1>1, <1>5 DEF Accounted
    <3>4. status'[c] = "active" => \E u \in Requesters : /\ frame'[u].on = c
                                                         /\ at'[u] \in {"started", "call", "handling"}
      BY <1>4, <1>7, <3>3, TasksAre DEF Others
    <3> QED BY <1>4, <1>5, <1>9, <3>1, <3>2, <3>4 DEF Accounted
  <2>4. PutsDown(t)
    BY <1>1, <1>2, <1>7 DEF PutsDown, InHand, Beyond
  <2>5. Remembers
    BY <1>3 DEF Says
  <2> QED BY <1>1, <1>2, <1>7, <2>1, <2>2, <2>3, <2>4, <2>5 DEF StepOf, Concerns
<1>11. Owns(t)'
  <2>1. CASE at'[t] = "next"
    BY <2>1, OwnsNothing DEF InHand, Before, Beyond
  <2>2. CASE at'[t] = "sweep"
    <3>1. frame'[t].on = c /\ processed' = processed /\ "expired" \notin Said(c)'
      BY <1>5, <1>7, <1>9, <2>2
    <3> QED BY <1>5, <2>2, <3>1 DEF Owns, Said, Before
  <2> QED BY <1>7, <2>1, <2>2
<1> QED BY <1>5, <1>8, <1>10, <1>11, OneStep

-----------------------------------------------------------------------------
(***************************************************************************)
(* _cancel_all_active_controls.                                            *)
(***************************************************************************)
LEMMA SweepPoints == Sweeping \cup {"aborted"} \subseteq Points
BY DEF Sweeping, Points, InHand, Beyond

\* A task that sweeps has a control in hand.
LEMMA SweepNow ==
    ASSUME OnceInv, NEW t \in Requesters, at[t] \in Sweeping
    PROVE  t \in Tasks /\ ClientTypes /\ frame[t].on \in Mrids /\ frame[t] \in Frames
<1>1. at[t] \in InHand
  BY DEF Sweeping, InHand, Beyond
<1> QED BY <1>1, InHandNow DEF ClientTypes

\* The execution is given up.
LEMMA Raising ==
    ASSUME OnceInv, NEW t \in Requesters, at[t] \in Sweeping, SweepRaises(t)
    PROVE  GoesOn(t)
<1>1. PICK c \in Mrids : c = frame[t].on
  BY SweepNow
<1>2. /\ at' = [at EXCEPT ![t] = "aborted"] /\ status' = [status EXCEPT ![c] = "failed"]
      /\ frame' = [frame EXCEPT ![t] = [NoFrame EXCEPT !.on = c]]
  BY <1>1 DEF SweepRaises, GoOn, Become, Enter
<1>3. "aborted" \in Points /\ "failed" \in ClientStatuses
  BY DEF Points, InHand, Beyond, ClientStatuses, Statuses
<1> QED BY <1>1, <1>2, <1>3, SweepNow, FrameTypes DEF ClientTypes, Others, GoesOn

\* The sweep of the modes marks controls as superseded only.
LEMMA SweepModesStep == ASSUME OnceInv, NEW t \in Requesters, SweepModes(t) PROVE OnceInv'
<1>1. at[t] \in Sweeping /\ UNCHANGED <<processed, left, batch, handed, byMode, responses>>
  BY Zenon DEF SweepModes, Stands, Sweeping, lists, inForce, pollVars
<1>2. /\ t \in Tasks /\ frame \in [Tasks -> Frames] /\ at \in [Tasks -> Points]
      /\ frame[t] \in Frames /\ byMode \in [Modes -> Mrids \cup {None}]
      /\ status \in [Mrids -> ClientStatuses]
  BY <1>1, SweepNow DEF ClientTypes
<1>3. GoesOn(t)
  <2>1. CASE SweepRaises(t)
    BY <1>1, <2>1, Raising
  <2>2. CASE /\ GoOn(t, "sweepScheduled")
             /\ frame' = [frame EXCEPT ![t].modes = {}, ![t].sweep = TrackedControls,
                                       ![t].seen = Cardinality(TrackedControls)]
             /\ UNCHANGED status
    <3> DEFINE T == TrackedControls
               n == Cardinality(T)
    <3>1. T \in SUBSET Mrids /\ n \in {Cardinality(S) : S \in SUBSET Mrids}
      BY DEF TrackedControls
    <3>2. at' = [at EXCEPT ![t] = "sweepScheduled"] /\ "sweepScheduled" \in Points
      BY <2>2, SweepPoints DEF GoOn, Sweeping
    <3>3. frame' = [frame EXCEPT ![t] = [frame[t] EXCEPT !.modes = {}, !.sweep = T, !.seen = n]]
      BY <1>2, <2>2
    <3> HIDE DEF T, n
    <3>4. /\ [frame[t] EXCEPT !.modes = {}, !.sweep = T, !.seen = n] \in Frames
          /\ [frame[t] EXCEPT !.modes = {}, !.sweep = T, !.seen = n].on = frame[t].on
      BY <1>2, <3>1 DEF Frames
    <3> QED BY <1>2, <2>2, <3>2, <3>3, <3>4 DEF Others, Sweeping, GoesOn
  <2>3. ASSUME NEW m \in Modes, byMode[m] # None, Become(byMode[m], "superseded"),
               frame' = [frame EXCEPT ![t].modes = @ \ {m}, ![t].mode = m, ![t].other = byMode[m]],
               GoOn(t, "sweptMode")
        PROVE  GoesOn(t)
    <3> DEFINE e == byMode[m]
               f == [frame[t] EXCEPT !.modes = frame[t].modes \ {m}, !.mode = m, !.other = e]
    <3>1. e \in Mrids /\ e \in Ids
      BY <1>2, <2>3 DEF Mrids
    <3>2. at' = [at EXCEPT ![t] = "sweptMode"] /\ "sweptMode" \in Points
      BY <2>3, SweepPoints DEF GoOn, Sweeping
    <3>3. frame' = [frame EXCEPT ![t] = f] /\ status' = [status EXCEPT ![e] = "superseded"]
      BY <1>2, <2>3 DEF Become
    <3>4. "superseded" \in ClientStatuses
      BY DEF ClientStatuses, Statuses
    <3>5. f \in Frames /\ f.on = frame[t].on
      <4> HIDE DEF e
      <4> QED BY <1>2, <3>1 DEF Frames
    <3> HIDE DEF e, f
    <3> QED BY <1>2, <3>1, <3>2, <3>3, <3>4, <3>5 DEF Others, Sweeping, GoesOn
  <2>4. frame[t].modes \subseteq Modes
    BY <1>2 DEF Frames
  <2> QED BY <2>1, <2>2, <2>3, <2>4, Zenon DEF SweepModes
<1> QED BY <1>1, <1>2, <1>3, GoingOn

\* And reports them as such.
LEMMA SweptModeReportedStep ==
    ASSUME OnceInv, NEW t \in Requesters, SweptModeReported(t) PROVE OnceInv'
<1>1. /\ at[t] \in Sweeping /\ UNCHANGED <<processed, left, batch, handed>>
      /\ byMode' = [byMode EXCEPT ![frame[t].mode] = None]
  BY DEF SweptModeReported, Stands, Sweeping, lists, pollVars
<1>2. Says(frame[t].other, "superseded")
  BY PostSays DEF SweptModeReported, Responses
<1>3. byMode' \in [Modes -> Mrids \cup {None}]
  BY <1>1, SweepNow DEF ClientTypes
<1>4. GoesOn(t)
  <2>1. CASE SweepRaises(t)
    BY <1>1, <2>1, Raising
  <2>2. CASE ~SweepRaises(t)
    <3>1. at' = [at EXCEPT ![t] = "sweep"] /\ UNCHANGED <<status, frame>> /\ "sweep" \in Points
      BY <2>2, SweepPoints DEF SweptModeReported, GoOn, Sweeping
    <3> QED BY <1>1, <3>1, SweepNow DEF ClientTypes, Others, Sweeping, GoesOn
  <2> QED BY <2>1, <2>2
<1> QED BY <1>1, <1>2, <1>3, <1>4, GoingOn

\* The sweep of the scheduled controls takes them off the schedule.
LEMMA SweepScheduledStep ==
    ASSUME OnceInv, HandlerCore, NEW t \in Requesters, SweepScheduled(t) PROVE OnceInv'
<1>1. /\ at[t] \in Sweeping /\ UNCHANGED <<left, batch, handed, byMode, responses>>
  BY DEF SweepScheduled, Stands, Sweeping, pollVars
<1>2. /\ t \in Tasks /\ frame \in [Tasks -> Frames] /\ at \in [Tasks -> Points]
      /\ frame[t] \in Frames /\ byMode \in [Modes -> Mrids \cup {None}]
      /\ status \in [Mrids -> ClientStatuses]
  BY <1>1, SweepNow DEF ClientTypes
<1>3. CASE SweepRaises(t) /\ processed' = processed
  BY <1>1, <1>2, <1>3, Raising, GoingOn
<1>4. CASE \E c \in frame[t].sweep :
             /\ Become(c, "superseded")
             /\ frame' = [frame EXCEPT ![t].sweep = @ \ {c}, ![t].other = c]
             /\ GoOn(t, "sweptControl") /\ processed' = processed
  <2>1. PICK c \in frame[t].sweep :
             /\ Become(c, "superseded")
             /\ frame' = [frame EXCEPT ![t].sweep = @ \ {c}, ![t].other = c]
             /\ GoOn(t, "sweptControl") /\ processed' = processed
    BY <1>4
  <2> DEFINE f == [frame[t] EXCEPT !.sweep = frame[t].sweep \ {c}, !.other = c]
  <2>2. c \in Ids /\ c \in Mrids /\ f \in Frames /\ f.on = frame[t].on
    BY <1>2, <2>1 DEF Frames, Mrids
  <2>3. /\ frame' = [frame EXCEPT ![t] = f] /\ status' = [status EXCEPT ![c] = "superseded"]
        /\ at' = [at EXCEPT ![t] = "sweptControl"] /\ "sweptControl" \in Points
        /\ "superseded" \in ClientStatuses
    BY <1>2, <2>1, SweepPoints DEF Become, GoOn, Sweeping, ClientStatuses, Statuses
  <2> HIDE DEF f
  <2>4. GoesOn(t)
    BY <1>2, <2>2, <2>3 DEF GoesOn, Others, Sweeping
  <2> QED BY <1>1, <1>2, <2>1, <2>4, GoingOn
<1>5. CASE /\ active # 0 /\ processed' = processed /\ status' = status
           /\ frame' = [frame EXCEPT ![t].sweep = {}, ![t].other = events[active].id]
           /\ GoOn(t, "sweepHandler")
  <2> DEFINE i == events[active].id
             f == [frame[t] EXCEPT !.sweep = {}, !.other = i]
  <2>1. i \in Ids
    <3>1. events[active] \in Events
      BY <1>5, ElementOfSeq DEF HandlerCore
    <3> QED BY <3>1 DEF Events
  <2> HIDE DEF i
  <2>2. f \in Frames /\ f.on = frame[t].on
    BY <1>2, <2>1 DEF Frames
  <2>3. /\ frame' = [frame EXCEPT ![t] = f]
        /\ at' = [at EXCEPT ![t] = "sweepHandler"] /\ "sweepHandler" \in Points
    BY <1>2, <1>5, SweepPoints DEF GoOn, Sweeping, i
  <2> HIDE DEF f
  <2>4. GoesOn(t)
    BY <1>2, <1>5, <2>2, <2>3 DEF GoesOn, Others, Sweeping
  <2> QED BY <1>1, <1>2, <1>5, <2>4, GoingOn
<1>6. CASE Leave(t) /\ status' = status
  BY <1>1, <1>6, PuttingDown
<1> QED BY <1>3, <1>4, <1>5, <1>6 DEF SweepScheduled

\* And reports them.
LEMMA SweptControlReportedStep ==
    ASSUME OnceInv, NEW t \in Requesters, SweptControlReported(t) PROVE OnceInv'
<1>1. /\ at[t] \in Sweeping /\ UNCHANGED <<processed, left, batch, handed, byMode, status, frame>>
      /\ at' = [at EXCEPT ![t] = "sweepScheduled"] /\ "sweepScheduled" \in Points
  BY SweepPoints DEF SweptControlReported, Stands, Sweeping, lists, inForce, pollVars, GoOn
<1>2. Says(frame[t].other, "superseded")
  BY PostSays DEF SweptControlReported, Responses
<1>3. GoesOn(t)
  BY <1>1, SweepNow DEF ClientTypes, GoesOn, Others, Sweeping
<1>4. byMode' \in [Modes -> Mrids \cup {None}]
  BY <1>1, SweepNow DEF ClientTypes
<1> QED BY <1>1, <1>2, <1>3, <1>4, GoingOn

\* The sweep ends with a cancellation in the handler, and the control is put down.
LEMMA SweepHandlerStep ==
    ASSUME OnceInv, NEW t \in Requesters, SweepHandler(t) \/ SweepCancelled(t) PROVE OnceInv'
<1>1. /\ at[t] \in Sweeping /\ UNCHANGED <<left, batch, handed, byMode, status, responses>>
  BY DEF SweepHandler, SweepCancelled, Stands, Sweeping, inForce, pollVars
<1>2. CASE Leave(t)
  BY <1>1, <1>2, PuttingDown
<1>3. CASE ~Leave(t)
  <2>1. /\ at' = [at EXCEPT ![t] = "sweepCancelling"] /\ "sweepCancelling" \in Points
        /\ UNCHANGED <<frame, processed>>
    BY <1>3, SweepPoints DEF SweepHandler, SweepCancelled, GoOn, Sweeping
  <2>2. GoesOn(t)
    BY <1>1, <2>1, SweepNow DEF ClientTypes, GoesOn, Others, Sweeping
  <2>3. byMode' \in [Modes -> Mrids \cup {None}]
    BY <1>1, SweepNow DEF ClientTypes
  <2> QED BY <1>1, <2>1, <2>2, <2>3, GoingOn
<1> QED BY <1>2, <1>3

-----------------------------------------------------------------------------
(***************************************************************************)
(* The scheduler task and the poll task.                                   *)
(***************************************************************************)
\* A task that takes a scheduled or a fetched control in hand.
LEMMA TakingInHand ==
    ASSUME OnceInv, NEW t \in Requesters, NEW c \in Mrids, NEW st \in [Mrids -> ClientStatuses],
           at[t] = "next", Takes(t, c, st), handed[c] = 0,
           t = Poller => c \notin processed,
           t = Scheduler => c \in processed /\ "expired" \notin Said(c),
           \A d \in Mrids : st[d] = status[d] \/ st[d] = "pending",
           left' \in [Tasks -> SUBSET Mrids], DOMAIN batch' \subseteq Mrids,
           UNCHANGED <<processed, byMode, responses, handed>>
    PROVE  OnceInv'
<1>1. ClientTypes /\ t \in Tasks /\ at[t] \notin InHand \cup {"started", "call", "handling"}
  BY TasksAre DEF OnceInv, InHand, Before, Beyond
<1>2. /\ Remembers /\ \A d \in Mrids : Said(d)' = Said(d)
      /\ sent' \in [Mrids -> SUBSET Responses] /\ owed' \in [Mrids -> SUBSET Responses]
      /\ pending' \in [Mrids -> Responses \cup {None}]
  BY SaidAgain
<1>3. ClientTypes'
  <2>1. /\ at'[FsaTask] = at[FsaTask]
        /\ at'[Scheduler] = at[Scheduler] \/ at'[Scheduler] \in InHand
    BY TasksAre DEF Takes, Others, InHand, Before, Beyond
  <2> QED BY <1>1, <1>2, <2>1 DEF ClientTypes, Takes
<1>4. StepOf(t)
  <2>1. \A d \in Mrids : Harmless(d)
    BY <1>2 DEF Harmless, Takes
  <2>2. PutsDown(t)
    BY <1>1 DEF PutsDown, InHand
  <2> QED BY <1>2, <2>1, <2>2 DEF StepOf, Concerns, Takes, Marks
<1>5. Owns(t)'
  <2>1. frame'[t].on = c /\ at'[t] \in {"received", "conflict", "lost", "aborted"}
    BY DEF Takes
  <2>2. "expired" \notin Said(c) => "expired" \notin Said(c)'
    BY <1>2
  <2> QED BY <2>1, <2>2 DEF Owns, Said
<1> QED BY <1>1, <1>3, <1>4, <1>5, OneStep

\* The scheduler task takes a control in hand only while it is scheduled: processed, not handed.
LEMMA RunScheduledStep == ASSUME OnceInv, RunScheduled PROVE OnceInv'
<1>1. /\ at[Scheduler] = "next" /\ Scheduler \in Requesters /\ Scheduler \in Tasks
      /\ UNCHANGED <<processed, byMode, batch, responses, handed>> /\ ClientTypes
  BY TasksAre DEF RunScheduled, Stands, lists, inForce, pollVars, OnceInv
<1>2. CASE \E c \in left[Scheduler] :
             /\ status[c] = "scheduled" /\ left' = [left EXCEPT ![Scheduler] = @ \ {c}]
             /\ ExecuteControl(Scheduler, c, status)
  <2>1. PICK c \in left[Scheduler] :
             /\ status[c] = "scheduled" /\ left' = [left EXCEPT ![Scheduler] = @ \ {c}]
             /\ ExecuteControl(Scheduler, c, status)
    BY <1>2
  <2>2. c \in Mrids /\ status \in [Mrids -> ClientStatuses] /\ DOMAIN batch' \subseteq Mrids
    BY <1>1, <2>1 DEF ClientTypes
  <2>3. c \in processed /\ handed[c] = 0 /\ "expired" \notin Said(c)
    BY <2>1, <2>2 DEF OnceInv, Accounted
  <2>4. left' \in [Tasks -> SUBSET Mrids]
    BY <1>1, <2>1 DEF ClientTypes
  <2>5. Takes(Scheduler, c, status)
    BY <1>1, <2>1, <2>2, BeginningToExecute
  <2> QED BY <1>1, <2>2, <2>3, <2>4, <2>5, TakingInHand, TasksAre
<1>3. CASE /\ left' = [left EXCEPT ![Scheduler] = {}] /\ GoOn(Scheduler, "idle")
           /\ UNCHANGED <<status, frame>>
  <2>1. at' = [at EXCEPT ![Scheduler] = "idle"] /\ "idle" \in Points
    BY <1>3 DEF GoOn, Points
  <2>2. /\ Remembers /\ \A d \in Mrids : Said(d)' = Said(d)
        /\ sent' \in [Mrids -> SUBSET Responses] /\ owed' \in [Mrids -> SUBSET Responses]
        /\ pending' \in [Mrids -> Responses \cup {None}]
    BY <1>1, SaidAgain
  <2>3. ClientTypes' /\ at'[Scheduler] = "idle"
    BY <1>1, <1>3, <2>1, <2>2, TasksAre DEF ClientTypes
  <2>4. StepOf(Scheduler)
    BY <1>1, <1>3, <2>1, <2>2, TasksAre
       DEF StepOf, Others, Marks, Concerns, Harmless, PutsDown, ClientTypes
  <2>5. Owns(Scheduler)'
    BY <2>3, OwnsNothing DEF InHand, Before, Beyond
  <2> QED BY <1>1, <2>3, <2>4, <2>5, OneStep
<1> QED BY <1>2, <1>3 DEF RunScheduled

\* A step that takes nothing in hand and puts nothing down.
Quiet(t) ==
    /\ at[t] \notin InHand /\ at'[t] \notin InHand \cup {"future", "expired", "retrying"}
    /\ at' \in [Tasks -> Points] /\ frame' \in [Tasks -> Frames] /\ Others(t)
    /\ t = FsaTask => at'[t] \in {"idle", "fetch", "untrack", "untracking", "cancelled"}
    /\ t = Scheduler => at'[t] \in {"idle", "next"}
    /\ status' \in [Mrids -> ClientStatuses]
    /\ \A d \in Mrids : status'[d] = status[d] \/ status'[d] = "cancelled"
    /\ left' \in [Tasks -> SUBSET Mrids] /\ DOMAIN batch' \subseteq Mrids
    /\ UNCHANGED responses \/ \E c : Says(c, "cancelled")
    /\ UNCHANGED <<processed, byMode, handed>>

\* Such a step keeps every control accounted for.
LEMMA QuietStep == ASSUME OnceInv, NEW t \in Tasks, Quiet(t) PROVE OnceInv'
<1>1. /\ Remembers
      /\ \A d \in Mrids : Said(d)' = Said(d) \/ Said(d)' = Said(d) \cup {"cancelled"}
      /\ sent' \in [Mrids -> SUBSET Responses] /\ owed' \in [Mrids -> SUBSET Responses]
      /\ pending' \in [Mrids -> Responses \cup {None}]
  BY SaidAgain DEF Quiet, Says
<1>2. ClientTypes'
  BY <1>1, TasksAre DEF OnceInv, ClientTypes, Quiet, Others
<1>3. StepOf(t)
  <2>1. \A d \in Mrids : Harmless(d)
    BY <1>1 DEF Harmless, Quiet
  <2>2. PutsDown(t)
    BY DEF PutsDown, Quiet, InHand, Before, Beyond
  <2> QED BY <1>1, <2>1, <2>2 DEF StepOf, Concerns, Quiet, Marks
<1>4. Owns(t)'
  BY OwnsNothing DEF Quiet
<1> QED BY <1>2, <1>3, <1>4, OneStep

\* The points of the poll task and of the FSA task where nothing is in hand.
PlainPoints == {"idle", "next", "round", "get", "default", "cancel", "cancelling", "cancelled",
                "retry", "fetch", "untrack", "untracking"}

\* At a plain point nothing is in hand.
LEMMA PlainPointsArePlain ==
    /\ PlainPoints \subseteq Points
    /\ \A l \in PlainPoints \cup {"retrying"} : l \notin InHand
    /\ \A l \in PlainPoints : l \notin InHand \cup {"future", "expired", "retrying"}
BY DEF PlainPoints, Points, InHand, Before, Beyond

\* The scheduler task begins a round.
LEMMA TickStep == ASSUME OnceInv, Tick PROVE OnceInv'
<1>1. /\ at[Scheduler] = "idle" /\ at' = [at EXCEPT ![Scheduler] = "next"]
      /\ left' = [left EXCEPT ![Scheduler] = {c \in TrackedControls : Started(c)}]
      /\ UNCHANGED <<status, processed, byMode, batch, frame, responses, handed>>
  BY DEF Tick, Stands, GoOn, lists, inForce, pollVars
<1>2. {c \in TrackedControls : Started(c)} \in SUBSET Mrids
  BY DEF TrackedControls
<1>3. Quiet(Scheduler)
  BY <1>1, <1>2, TasksAre, PlainPointsArePlain
     DEF Quiet, OnceInv, ClientTypes, Others, PlainPoints
<1> QED BY <1>3, QuietStep, TasksAre

\* The poll task, on its way from one plain point to another.
LEMMA PollerWalks ==
    ASSUME OnceInv, at[Poller] \in PlainPoints, NEW l \in PlainPoints, GoOn(Poller, l),
           frame' \in [Tasks -> Frames], \A u \in Tasks \ {Poller} : frame'[u] = frame[u],
           status' \in [Mrids -> ClientStatuses],
           \A d \in Mrids : status'[d] = status[d] \/ status'[d] = "cancelled",
           left' \in [Tasks -> SUBSET Mrids], DOMAIN batch' \subseteq Mrids,
           UNCHANGED responses \/ (\E c : Says(c, "cancelled")),
           UNCHANGED <<processed, byMode, handed>>
    PROVE  OnceInv'
<1>1. at' = [at EXCEPT ![Poller] = l] /\ l \in Points /\ Poller \in Tasks
  BY TasksAre, PlainPointsArePlain DEF GoOn
<1>2. at' \in [Tasks -> Points] /\ at'[Poller] = l /\ \A u \in Tasks \ {Poller} : at'[u] = at[u]
  BY <1>1 DEF OnceInv, ClientTypes
<1>3. Quiet(Poller)
  BY <1>2, TasksAre, PlainPointsArePlain DEF Quiet, Others
<1> QED BY <1>1, <1>3, QuietStep

\* The ways in which the poll task changes its frame.
LEMMA PollerFrames ==
    ASSUME ClientTypes
    PROVE  /\ Forget(Poller) \/ UNCHANGED frame =>
                  /\ frame' \in [Tasks -> Frames]
                  /\ \A u \in Tasks \ {Poller} : frame'[u] = frame[u]
           /\ \A c \in Mrids : Enter(Poller, c) =>
                  /\ frame' \in [Tasks -> Frames] /\ frame'[Poller].on = c
                  /\ \A u \in Tasks \ {Poller} : frame'[u] = frame[u]
           /\ \A x \in Programs \cup Responses :
                  frame' = [frame EXCEPT ![Poller].other = x] =>
                  /\ frame' \in [Tasks -> Frames]
                  /\ \A u \in Tasks \ {Poller} : frame'[u] = frame[u]
<1>1. Poller \in Tasks /\ frame \in [Tasks -> Frames] /\ frame[Poller] \in Frames
  BY TasksAre DEF ClientTypes
<1>2. ASSUME NEW x \in Programs \cup Responses, frame' = [frame EXCEPT ![Poller].other = x]
      PROVE  /\ frame' \in [Tasks -> Frames]
             /\ \A u \in Tasks \ {Poller} : frame'[u] = frame[u]
  <2>1. [frame[Poller] EXCEPT !.other = x] \in Frames
    BY <1>1 DEF Frames
  <2> QED BY <1>1, <1>2, <2>1
<1>3. Forget(Poller) \/ UNCHANGED frame =>
          /\ frame' \in [Tasks -> Frames] /\ \A u \in Tasks \ {Poller} : frame'[u] = frame[u]
  BY <1>1, FrameTypes DEF Forget
<1>4. \A c \in Mrids : Enter(Poller, c) =>
          /\ frame' \in [Tasks -> Frames] /\ frame'[Poller].on = c
          /\ \A u \in Tasks \ {Poller} : frame'[u] = frame[u]
  BY <1>1, FrameTypes DEF Enter
<1> QED BY <1>2, <1>3, <1>4

\* The poll task's round over the programs.
LEMMA RoundSteps ==
    ASSUME OnceInv, programs \subseteq Programs,
           StartRound \/ EndRound \/ PollProgram \/ DefaultReturned PROVE OnceInv'
<1> USE DEF Stands, lists, inForce, pollVars, responses, PlainPoints
<1>1. ClientTypes /\ TrackedControls \in SUBSET Mrids /\ Poller \in Tasks
  BY TasksAre DEF OnceInv, TrackedControls
<1>2. /\ UNCHANGED <<status, processed, byMode, batch, responses, handed>>
      /\ at[Poller] \in PlainPoints
      /\ left' = left \/ left' = [left EXCEPT ![Poller] = TrackedControls]
      /\ \E l \in {"round", "idle", "retry", "get"} : GoOn(Poller, l)
      /\ \/ Forget(Poller) \/ UNCHANGED frame
         \/ \E p \in Programs \cup Responses : frame' = [frame EXCEPT ![Poller].other = p]
  <2>1. CASE StartRound
    BY <2>1 DEF StartRound
  <2>2. CASE EndRound
    BY <2>2 DEF EndRound
  <2>3. CASE PollProgram
    BY <2>3 DEF PollProgram
  <2>4. CASE DefaultReturned
    BY <2>4 DEF DefaultReturned
  <2> QED BY <2>1, <2>2, <2>3, <2>4
<1>3. left' \in [Tasks -> SUBSET Mrids] /\ DOMAIN batch' \subseteq Mrids
  BY <1>1, <1>2 DEF ClientTypes
<1>4. status' \in [Mrids -> ClientStatuses]
  BY <1>1, <1>2 DEF ClientTypes
<1>5. frame' \in [Tasks -> Frames] /\ \A u \in Tasks \ {Poller} : frame'[u] = frame[u]
  BY <1>1, <1>2, PollerFrames
<1> QED BY <1>2, <1>3, <1>4, <1>5, PollerWalks

\* The list of a program has been fetched, or its default control is called for.
LEMMA FetchedStep ==
    ASSUME OnceInv, programs \subseteq Programs, Fetched PROVE OnceInv'
<1> USE DEF Stands, lists, inForce, pollVars, responses, PlainPoints
<1>1. ClientTypes /\ Poller \in Tasks /\ at[Poller] \in PlainPoints
  BY TasksAre DEF OnceInv, Fetched
<1>2. UNCHANGED <<status, processed, byMode, left, responses, handed>>
  BY DEF Fetched
<1>3. /\ batch' = batch \/ DOMAIN batch' \subseteq Mrids
      /\ \E l \in {"round", "default", "next"} : GoOn(Poller, l)
      /\ \/ Forget(Poller) \/ UNCHANGED frame
         \/ \E p \in Programs \cup Responses : frame' = [frame EXCEPT ![Poller].other = p]
  <2>1. CASE Forget(Poller) /\ GoOn(Poller, "round") /\ batch' = batch
    BY <2>1
  <2>2. CASE CheckDefaultControl /\ batch' = batch
    <3>1. Highest \subseteq Programs
      BY DEF Highest
    <3> QED BY <2>2, <3>1 DEF CheckDefaultControl
  <2>3. CASE /\ batch' = [c \in Listed(frame[Poller].other) |-> server[c] = "cancelled"]
             /\ GoOn(Poller, "next") /\ Forget(Poller)
    BY <2>3 DEF Listed
  <2> QED BY <2>1, <2>2, <2>3 DEF Fetched
<1>4. left' \in [Tasks -> SUBSET Mrids] /\ DOMAIN batch' \subseteq Mrids
      /\ status' \in [Mrids -> ClientStatuses]
  BY <1>1, <1>2, <1>3 DEF ClientTypes
<1>5. frame' \in [Tasks -> Frames] /\ \A u \in Tasks \ {Poller} : frame'[u] = frame[u]
  BY <1>1, <1>3, PollerFrames
<1> QED BY <1>1, <1>2, <1>3, <1>4, <1>5, PollerWalks

\* _process_control takes a control in hand only if it is not processed.
LEMMA ProcessNextStep == ASSUME OnceInv, ProcessNext PROVE OnceInv'
<1> USE DEF Stands, lists, inForce, pollVars, responses
<1>1. /\ ClientTypes /\ Poller \in Tasks /\ Poller \in Requesters
      /\ at[Poller] = "next" /\ at[Poller] \in PlainPoints
  BY TasksAre DEF OnceInv, ProcessNext, PlainPoints
<1>2. UNCHANGED <<processed, byMode, left, responses, handed>>
      /\ left' \in [Tasks -> SUBSET Mrids]
  BY <1>1 DEF ProcessNext, ClientTypes
<1>3. CASE batch' = << >> /\ GoOn(Poller, "round") /\ UNCHANGED <<status, frame>>
  <2>1. DOMAIN batch' \subseteq Mrids /\ "round" \in PlainPoints
    BY <1>3 DEF PlainPoints
  <2>2. status' \in [Mrids -> ClientStatuses]
    BY <1>1, <1>3 DEF ClientTypes
  <2> QED BY <1>1, <1>2, <1>3, <2>1, <2>2, PollerFrames, PollerWalks
<1>4. CASE \E c \in DOMAIN batch : /\ batch' = Restrict(batch, DOMAIN batch \ {c})
                                   /\ ProcessKnown(c) \/ ProcessNew(c)
  <2>1. PICK c \in DOMAIN batch : /\ batch' = Restrict(batch, DOMAIN batch \ {c})
                                  /\ ProcessKnown(c) \/ ProcessNew(c)
    BY <1>4
  <2>2. c \in Mrids /\ DOMAIN batch' \subseteq Mrids
    BY <1>1, <2>1 DEF ClientTypes, Restrict
  <2>3. CASE ProcessKnown(c)
    <3>1. GoOn(Poller, "cancel") /\ Enter(Poller, c) /\ status' = status /\ "cancel" \in PlainPoints
      BY <2>3 DEF ProcessKnown, PlainPoints
    <3>2. status' \in [Mrids -> ClientStatuses]
      BY <1>1, <3>1 DEF ClientTypes
    <3> QED BY <1>1, <1>2, <2>2, <3>1, <3>2, PollerFrames, PollerWalks
  <2>4. CASE c \notin processed /\ ExecuteControl(Poller, c, [status EXCEPT ![c] = "pending"])
    <3> DEFINE st == [status EXCEPT ![c] = "pending"]
    <3>1. /\ st \in [Mrids -> ClientStatuses]
          /\ \A d \in Mrids : st[d] = status[d] \/ st[d] = "pending"
      BY <1>1 DEF ClientTypes, ClientStatuses, Statuses
    <3>2. Takes(Poller, c, st)
      BY <1>1, <2>2, <2>4, <3>1, BeginningToExecute
    <3>3. handed[c] = 0
      BY <1>1, <2>2, <2>4, PlainPointsArePlain DEF OnceInv, Fresh
    <3> HIDE DEF st
    <3> QED BY <1>1, <1>2, <2>2, <2>4, <3>1, <3>2, <3>3, TakingInHand, TasksAre
  <2>5. CASE \E l \in {"future", "expired"}, s \in {"pending", "cancelled"} :
               /\ c \notin processed /\ Enter(Poller, c) /\ Become(c, s) /\ GoOn(Poller, l)
    <3>1. PICK l \in {"future", "expired"}, s \in {"pending", "cancelled"} :
             /\ c \notin processed /\ Enter(Poller, c) /\ Become(c, s) /\ GoOn(Poller, l)
      BY <2>5
    <3>2. l \in Points /\ s \in ClientStatuses /\ l \notin InHand
      BY DEF Points, ClientStatuses, Statuses, InHand, Before, Beyond
    <3>3. at' = [at EXCEPT ![Poller] = l] /\ status' = [status EXCEPT ![c] = s]
      BY <3>1 DEF GoOn, Become
    <3>4. /\ at' \in [Tasks -> Points] /\ at'[Poller] = l
          /\ \A u \in Tasks \ {Poller} : at'[u] = at[u]
          /\ status' \in [Mrids -> ClientStatuses]
          /\ \A d \in Mrids : status'[d] = status[d] \/ status'[d] \in {"pending", "cancelled"}
      BY <1>1, <3>2, <3>3 DEF ClientTypes
    <3>5. frame' \in [Tasks -> Frames] /\ frame'[Poller].on = c
          /\ \A u \in Tasks \ {Poller} : frame'[u] = frame[u]
      BY <1>1, <2>2, <3>1, PollerFrames
    <3>6. /\ Remembers /\ \A d \in Mrids : Said(d)' = Said(d)
          /\ sent' \in [Mrids -> SUBSET Responses] /\ owed' \in [Mrids -> SUBSET Responses]
          /\ pending' \in [Mrids -> Responses \cup {None}]
      BY <1>2, SaidAgain
    <3>7. ClientTypes'
      BY <1>1, <1>2, <2>2, <3>4, <3>5, <3>6, TasksAre DEF ClientTypes
    <3>8. StepOf(Poller)
      <4>1. \A d \in Mrids : Harmless(d)
        BY <1>2, <3>4, <3>6 DEF Harmless
      <4>2. PutsDown(Poller)
        BY <1>1, PlainPointsArePlain DEF PutsDown
      <4> QED BY <1>2, <3>4, <3>5, <3>6, <4>1, <4>2 DEF StepOf, Concerns, Others, Marks
    <3>9. handed[c] = 0
      BY <1>1, <2>2, <3>1, PlainPointsArePlain DEF OnceInv, Fresh
    <3>10. Owns(Poller)'
      BY <1>2, <2>2, <3>1, <3>2, <3>4, <3>5, <3>9, TasksAre DEF Owns
    <3> QED BY <1>1, <3>7, <3>8, <3>10, OneStep
  <2> QED BY <2>1, <2>3, <2>4, <2>5 DEF ProcessNew
<1> QED BY <1>3, <1>4 DEF ProcessNext

\* A future or an expired control is reported and marked processed.
LEMMA ReportOfNewStep == ASSUME OnceInv, FutureReported \/ ExpiryReported PROVE OnceInv'
<1> USE DEF Stands, inForce, pollVars
<1>1. /\ at[Poller] \in {"future", "expired"} /\ Poller \in Requesters /\ Poller \in Tasks
      /\ at[Poller] \in InHand \cup {"future", "expired"}
      /\ at[Poller] \notin InHand /\ Leave(Poller)
      /\ UNCHANGED <<byMode, left, batch, handed>>
  BY TasksAre DEF FutureReported, ExpiryReported, InHand, Before, Beyond
<1>2. PICK c \in Mrids : c = frame[Poller].on
  BY <1>1, InHandNow
<1>3. /\ ClientTypes /\ Accounted(c) /\ c \notin processed /\ handed[c] = 0
      /\ "started" \notin Said(c) /\ "expired" \notin Said(c) /\ status[c] # "scheduled"
  BY <1>1, <1>2, InHandNow DEF Owns, Fresh, Accounted
<1>4. /\ at' \in [Tasks -> Points] /\ at'[Poller] = "next" /\ frame' \in [Tasks -> Frames]
      /\ processed' \subseteq Mrids /\ Others(Poller) /\ Marks(Poller) /\ Owns(Poller)'
      /\ c \in processed'
  BY <1>1, <1>2, <1>3, Leaving
<1>5. \/ Says(c, "received") /\ status' = [status EXCEPT ![c] = "scheduled"]
      \/ Says(c, "expired") /\ status' = status
  BY <1>2, PostSays DEF FutureReported, ExpiryReported, Responses, Become
<1>6. /\ Remembers
      /\ sent' \in [Mrids -> SUBSET Responses] /\ owed' \in [Mrids -> SUBSET Responses]
      /\ pending' \in [Mrids -> Responses \cup {None}]
      /\ \A d \in Mrids \ {c} : Said(d)' = Said(d)
      /\ \/ Said(c)' = Said(c) \cup {"received"}
         \/ Said(c)' = Said(c) \cup {"expired"} /\ status'[c] # "scheduled"
  BY <1>3, <1>5 DEF Says
<1>7. "scheduled" \in ClientStatuses
  BY DEF ClientStatuses, Statuses
<1>8. /\ status' \in [Mrids -> ClientStatuses]
      /\ \A d \in Mrids \ {c} : status'[d] = status[d]
      /\ status'[c] # "active" \/ status'[c] = status[c]
  BY <1>3, <1>5, <1>7 DEF ClientTypes
<1>9. ClientTypes'
  BY <1>1, <1>3, <1>4, <1>6, <1>8, TasksAre DEF ClientTypes, Others
<1>10. StepOf(Poller)
  <2>1. \A d \in Mrids \ {c} : Harmless(d)
    BY <1>1, <1>6, <1>8 DEF Harmless
  <2>2. Fresh(c)'
    BY <1>4 DEF Fresh
  <2>3. Accounted(c)'
    <3>1. status'[c] = "active" => \E u \in Requesters : /\ frame'[u].on = c
                                                         /\ at'[u] \in {"started", "call", "handling"}
      BY <1>1, <1>3, <1>4, <1>8, TasksAre DEF Accounted, Others
    <3>2. pending'[c] # None => pending'[c] \in owed'[c]
      BY <1>6 DEF Remembers
    <3> QED BY <1>1, <1>3, <1>4, <1>6, <1>8, <3>1, <3>2 DEF Accounted
  <2>4. PutsDown(Poller)
    BY <1>1 DEF PutsDown
  <2> QED BY <1>1, <1>2, <1>4, <1>6, <2>1, <2>2, <2>3, <2>4 DEF StepOf, Concerns
<1> QED BY <1>1, <1>4, <1>9, <1>10, OneStep

\* A cancellation by the server, until it has been reported.
LEMMA CancellationSteps ==
    ASSUME OnceInv, CancelCall \/ CancelCallReturned \/ CancelReported PROVE OnceInv'
<1> USE DEF Stands, lists, inForce, pollVars, PlainPoints
<1>1. ClientTypes /\ Poller \in Tasks /\ "cancelled" \in ClientStatuses
  BY TasksAre DEF OnceInv, ClientStatuses, Statuses
<1>2. /\ UNCHANGED <<processed, byMode, batch, left, handed>>
      /\ at[Poller] \in PlainPoints
      /\ \E l \in {"cancelling", "cancelled", "next"} : GoOn(Poller, l)
      /\ Forget(Poller) \/ UNCHANGED frame
      /\ status' = status \/ status' = [status EXCEPT ![frame[Poller].on] = "cancelled"]
      /\ UNCHANGED responses \/ Post(frame[Poller].on, "cancelled")
  <2>1. CASE CancelCall
    BY <2>1 DEF CancelCall, Become
  <2>2. CASE CancelCallReturned
    BY <2>2 DEF CancelCallReturned, Become
  <2>3. CASE CancelReported
    BY <2>3 DEF CancelReported
  <2> QED BY <2>1, <2>2, <2>3
<1>3. left' \in [Tasks -> SUBSET Mrids] /\ DOMAIN batch' \subseteq Mrids
  BY <1>1, <1>2 DEF ClientTypes
<1>4. /\ status' \in [Mrids -> ClientStatuses]
      /\ \A d \in Mrids : status'[d] = status[d] \/ status'[d] = "cancelled"
  BY <1>1, <1>2 DEF ClientTypes
<1>5. frame' \in [Tasks -> Frames] /\ \A u \in Tasks \ {Poller} : frame'[u] = frame[u]
  BY <1>1, <1>2, PollerFrames
<1>6. UNCHANGED responses \/ \E c : Says(c, "cancelled")
  BY <1>2, PostSays DEF Responses
<1> QED BY <1>2, <1>3, <1>4, <1>5, <1>6, PollerWalks

\* A response that is still pending is one that was owed: it says nothing new.
LEMMA RetryNextStep == ASSUME OnceInv, RetryNext PROVE OnceInv'
<1> USE DEF Stands
<1>1. /\ ClientTypes /\ Poller \in Tasks /\ Poller \in Requesters
      /\ at[Poller] = "retry" /\ at[Poller] \in PlainPoints
      /\ UNCHANGED <<status, processed, byMode, batch, responses, handed>>
  BY TasksAre DEF OnceInv, RetryNext, PlainPoints, lists, inForce, pollVars
<1>2. status' \in [Mrids -> ClientStatuses] /\ DOMAIN batch' \subseteq Mrids
  BY <1>1 DEF ClientTypes
<1>3. CASE GoOn(Poller, "idle") /\ left' = [left EXCEPT ![Poller] = {}] /\ UNCHANGED frame
  <2>1. left' \in [Tasks -> SUBSET Mrids] /\ "idle" \in PlainPoints
    BY <1>1, <1>3 DEF ClientTypes, PlainPoints
  <2> QED BY <1>1, <1>2, <1>3, <2>1, PollerFrames, PollerWalks
<1>4. CASE \E c \in left[Poller] :
             /\ pending[c] # None /\ GoOn(Poller, "retrying")
             /\ left' = [left EXCEPT ![Poller] = @ \ {c}]
             /\ frame' = [frame EXCEPT ![Poller].on = c, ![Poller].other = pending[c]]
  <2>1. PICK c \in left[Poller] :
             /\ pending[c] # None /\ GoOn(Poller, "retrying")
             /\ left' = [left EXCEPT ![Poller] = @ \ {c}]
             /\ frame' = [frame EXCEPT ![Poller].on = c, ![Poller].other = pending[c]]
    BY <1>4
  <2>2. c \in Mrids /\ pending[c] \in Responses /\ pending[c] \in owed[c]
    BY <1>1, <2>1 DEF OnceInv, ClientTypes, Accounted
  <2> DEFINE f == [frame[Poller] EXCEPT !.on = c, !.other = pending[c]]
  <2>3. f \in Frames /\ f.on = c /\ f.other = pending[c]
    <3>1. frame[Poller] \in Frames
      BY <1>1 DEF ClientTypes
    <3> QED BY <2>2, <3>1 DEF Frames
  <2>4. frame' = [frame EXCEPT ![Poller] = f]
    BY <1>1, <2>1 DEF ClientTypes
  <2> HIDE DEF f
  <2>5. /\ frame' \in [Tasks -> Frames] /\ frame'[Poller] = f
        /\ \A u \in Tasks \ {Poller} : frame'[u] = frame[u]
    BY <1>1, <2>3, <2>4 DEF ClientTypes
  <2>6. /\ at' \in [Tasks -> Points] /\ at'[Poller] = "retrying"
        /\ \A u \in Tasks \ {Poller} : at'[u] = at[u]
    BY <1>1, <2>1 DEF ClientTypes, GoOn, Points
  <2>7. left' \in [Tasks -> SUBSET Mrids]
    BY <1>1, <2>1 DEF ClientTypes
  <2>8. /\ Remembers /\ \A d \in Mrids : Said(d)' = Said(d)
        /\ sent' \in [Mrids -> SUBSET Responses] /\ owed' \in [Mrids -> SUBSET Responses]
        /\ pending' \in [Mrids -> Responses \cup {None}]
    BY <1>1, SaidAgain
  <2>9. ClientTypes'
    BY <1>1, <1>2, <2>5, <2>6, <2>7, <2>8, TasksAre DEF ClientTypes
  <2>10. StepOf(Poller)
    <3>1. \A d \in Mrids : Harmless(d)
      BY <1>1, <2>8 DEF Harmless
    <3>2. PutsDown(Poller)
      BY <1>1, PlainPointsArePlain DEF PutsDown
    <3> QED BY <1>1, <2>5, <2>6, <2>8, <3>1, <3>2 DEF StepOf, Concerns, Others, Marks
  <2>11. Owns(Poller)'
    <3>1. "retrying" \notin InHand \cup {"future", "expired"} /\ "retrying" \notin Before
      BY DEF InHand, Before, Beyond
    <3>2. frame'[Poller].on = c /\ frame'[Poller].other \in owed'[c]
      BY <1>1, <2>2, <2>3, <2>5 DEF responses
    <3> QED BY <2>2, <2>6, <3>1, <3>2 DEF Owns
  <2> QED BY <1>1, <2>9, <2>10, <2>11, OneStep
<1> QED BY <1>3, <1>4 DEF RetryNext

\* The response said again was said before.
LEMMA RetriedStep == ASSUME OnceInv, Retried PROVE OnceInv'
<1>1. /\ ClientTypes /\ Poller \in Tasks /\ Poller \in Requesters
      /\ at[Poller] = "retrying" /\ at[Poller] \notin InHand
      /\ GoOn(Poller, "retry") /\ Forget(Poller)
      /\ UNCHANGED <<status, processed, byMode, batch, left, handed>>
  BY TasksAre, PlainPointsArePlain DEF OnceInv, Retried, Stands, lists, inForce, pollVars
<1>2. PICK c \in Mrids, x \in Responses :
           c = frame[Poller].on /\ x = frame[Poller].other /\ x \in owed[c]
  BY <1>1 DEF OnceInv, Owns, ClientTypes
<1>3. x \in Responses /\ x \in Said(c)
  BY <1>1, <1>2 DEF ClientTypes, Said
<1>4. Says(c, x)
  BY <1>2, <1>3, PostSays DEF Retried
<1>5. /\ Remembers /\ \A d \in Mrids : Said(d)' = Said(d)
      /\ sent' \in [Mrids -> SUBSET Responses] /\ owed' \in [Mrids -> SUBSET Responses]
      /\ pending' \in [Mrids -> Responses \cup {None}]
  BY <1>3, <1>4 DEF Says
<1>6. frame' \in [Tasks -> Frames] /\ \A u \in Tasks \ {Poller} : frame'[u] = frame[u]
  BY <1>1, PollerFrames
<1>7. /\ at' \in [Tasks -> Points] /\ at'[Poller] = "retry"
      /\ \A u \in Tasks \ {Poller} : at'[u] = at[u]
  BY <1>1 DEF ClientTypes, GoOn, Points
<1>8. ClientTypes'
  BY <1>1, <1>5, <1>6, <1>7, TasksAre DEF ClientTypes
<1>9. StepOf(Poller)
  <2>1. \A d \in Mrids : Harmless(d)
    BY <1>1, <1>5 DEF Harmless
  <2>2. PutsDown(Poller)
    BY <1>1 DEF PutsDown
  <2> QED BY <1>1, <1>5, <1>6, <1>7, <2>1, <2>2 DEF StepOf, Concerns, Others, Marks
<1>10. Owns(Poller)'
  BY <1>7, OwnsNothing, PlainPointsArePlain DEF PlainPoints
<1> QED BY <1>1, <1>8, <1>9, <1>10, OneStep

\* The FSA task cancels controls that it does not have in hand.
LEMMA FsaStepOnce == ASSUME OnceInv, FsaStep PROVE OnceInv'
<1> USE DEF Stands
<1>1. ClientTypes /\ FsaTask \in Tasks /\ TrackedControls \in SUBSET Mrids
      /\ "cancelled" \in ClientStatuses
  BY TasksAre DEF OnceInv, TrackedControls, ClientStatuses, Statuses
<1>2. /\ UNCHANGED <<processed, byMode, batch, handed>>
      /\ at' = at \/ \E l \in {"idle", "fetch", "untrack", "untracking", "cancelled"} : GoOn(FsaTask, l)
      /\ UNCHANGED frame \/ Forget(FsaTask) \/ \E c \in Mrids : Enter(FsaTask, c)
      /\ left' = left \/ \E S \in SUBSET Mrids : left' = [left EXCEPT ![FsaTask] = S]
      /\ status' = status \/ \E c \in Mrids : status' = [status EXCEPT ![c] = "cancelled"]
      /\ UNCHANGED responses \/ Post(frame[FsaTask].on, "cancelled")
  <2> USE DEF lists, inForce, pollVars, control, fsaVars
  <2>1. CASE PollFsa
    BY <2>1 DEF PollFsa
  <2>2. CASE ProcessFsaPrograms
    BY <2>2 DEF ProcessFsaPrograms
  <2>3. CASE HandleFsaRemoved
    BY <2>3 DEF HandleFsaRemoved
  <2>4. CASE UntrackProgram
    <3>1. PICK p \in fsaJob.untrack :
             left' = [left EXCEPT ![FsaTask] = {c \in TrackedControls : ProgramOf[c] = p}]
      BY <2>4 DEF UntrackProgram
    <3>2. {c \in TrackedControls : ProgramOf[c] = p} \in SUBSET Mrids
      BY <1>1
    <3> QED BY <2>4, <3>1, <3>2 DEF UntrackProgram
  <2>5. CASE CancelNext
    <3>1. left[FsaTask] \in SUBSET Mrids
      BY <1>1 DEF ClientTypes
    <3>2. CASE left[FsaTask] = {}
      BY <2>5, <3>2 DEF CancelNext
    <3>3. CASE left[FsaTask] # {}
      <4>1. PICK c \in left[FsaTask] :
               /\ Become(c, "cancelled") /\ left' = [left EXCEPT ![FsaTask] = @ \ {c}]
               /\ Enter(FsaTask, c) /\ GoOn(FsaTask, "cancelled")
        BY <2>5, <3>3 DEF CancelNext
      <4>2. left' = [left EXCEPT ![FsaTask] = left[FsaTask] \ {c}]
        BY <4>1
      <4>3. left[FsaTask] \ {c} \in SUBSET Mrids /\ c \in Mrids
        BY <3>1
      <4>4. UNCHANGED <<processed, byMode, batch, handed, responses>>
        BY <2>5 DEF CancelNext
      <4> QED BY <4>1, <4>2, <4>3, <4>4 DEF Become
    <3> QED BY <3>2, <3>3
  <2>6. CASE UntrackReported
    BY <2>6 DEF UntrackReported
  <2>7. CASE FsaPolled
    BY <2>7 DEF FsaPolled
  <2> QED BY <2>1, <2>2, <2>3, <2>4, <2>5, <2>6, <2>7 DEF FsaStep
<1>3. /\ at' \in [Tasks -> Points] /\ \A u \in Tasks \ {FsaTask} : at'[u] = at[u]
      /\ at'[FsaTask] \in {"idle", "fetch", "untrack", "untracking", "cancelled"}
      /\ at[FsaTask] \in {"idle", "fetch", "untrack", "untracking", "cancelled"}
  <2>1. {"idle", "fetch", "untrack", "untracking", "cancelled"} \subseteq Points
    BY DEF Points
  <2> QED BY <1>1, <1>2, <2>1 DEF ClientTypes, GoOn
<1>4. frame' \in [Tasks -> Frames] /\ \A u \in Tasks \ {FsaTask} : frame'[u] = frame[u]
  <2>1. \E f \in Frames : frame' = frame \/ frame' = [frame EXCEPT ![FsaTask] = f]
    BY <1>2, FrameTypes DEF Forget, Enter
  <2> QED BY <1>1, <2>1 DEF ClientTypes
<1>5. /\ status' \in [Mrids -> ClientStatuses]
      /\ \A d \in Mrids : status'[d] = status[d] \/ status'[d] = "cancelled"
  BY <1>1, <1>2 DEF ClientTypes
<1>6. left' \in [Tasks -> SUBSET Mrids] /\ DOMAIN batch' \subseteq Mrids
  BY <1>1, <1>2 DEF ClientTypes
<1>7. UNCHANGED responses \/ \E c : Says(c, "cancelled")
  BY <1>2, PostSays DEF Responses
<1>8. Quiet(FsaTask)
  <2>1. /\ at[FsaTask] \notin InHand
        /\ at'[FsaTask] \notin InHand \cup {"future", "expired", "retrying"}
    BY <1>3, PlainPointsArePlain DEF PlainPoints
  <2> QED BY <1>2, <1>3, <1>4, <1>5, <1>6, <1>7, <2>1, TasksAre DEF Quiet, Others
<1> QED BY <1>1, <1>8, QuietStep

\* What happens around the client leaves it as it is.
LEMMA SurroundingsOnce ==
    ASSUME OnceInv, UNCHANGED <<pollVars, status, lists, inForce, control, responses, handed>>
    PROVE  OnceInv'
BY DEF OnceInv, ClientTypes, Owns, Fresh, Accounted, Said, pollVars, lists, inForce, control, responses

\* Every step of the client keeps every control accounted for.
LEMMA OnceKept ==
    ASSUME OnceInv, SuccessInv, programs \subseteq Programs, [ClientNext]_everything
    PROVE  OnceInv'
<1>1. HandlerCore
  BY DEF SuccessInv
<1>2. ASSUME NEW t \in Requesters, ExecutionStep(t) PROVE OnceInv'
  BY <1>1, <1>2, SupersededReportedStep, LossReportedStep, ReceivedReportedStep,
     StartedReportedStep, CallHandlerStep, HandlerReturnedStep, CompletedReportedStep,
     SweepModesStep, SweptModeReportedStep, SweepScheduledStep, SweptControlReportedStep,
     SweepHandlerStep DEF ExecutionStep
<1>3. ASSUME NEW t \in Requesters, ControllerStep(t) PROVE OnceInv'
  BY <1>3, SurroundingsOnce DEF ControllerStep, clientVars
<1>4. CASE SchedulerStep
  BY <1>4, TickStep, RunScheduledStep DEF SchedulerStep
<1>5. CASE PollerStep
  BY <1>5, RoundSteps, FetchedStep, ProcessNextStep, ReportOfNewStep, CancellationSteps,
     RetryNextStep, RetriedStep DEF PollerStep
<1>6. CASE FsaStep
  BY <1>6, FsaStepOnce
<1>7. CASE ServerStep \/ FsaChanges \/ AdvanceTime \/ LocalStop \/ UNCHANGED everything
  <2>1. UNCHANGED <<pollVars, status, lists, inForce, control, responses, handed>>
    BY <1>7 DEF ServerStep, FsaChanges, AdvanceTime, LocalStop, everything, clientVars
  <2> QED BY <2>1, SurroundingsOnce
<1> QED BY <1>2, <1>3, <1>4, <1>5, <1>6, <1>7 DEF ClientNext

-----------------------------------------------------------------------------
(***************************************************************************)
(* What is reported completed was executed.                                *)
(***************************************************************************)
\* Where "received" and "completed" are said, of the control in hand.
Announces(t, code) ==
    \/ code = "completed" /\ at[t] = "completed"
    \/ code = "received" /\ at[t] \in {"received", "future"}

\* What a step of a task has said: nothing of these but what was said before or, perhaps, of
\* the control it had in hand.
SaysNothingNew(t) ==
    \/ UNCHANGED responses
    \/ \E c : \E code \in Responses :
           /\ Post(c, code)
           /\ \/ code \notin {"completed", "received"} \/ (c \in Mrids /\ code \in owed[c])
              \/ t \in Requesters /\ Announces(t, code) /\ c = frame[t].on

\* A step that leaves the handler as it is, and does not begin or end a wait for it.
Aside(t) ==
    /\ UNCHANGED handlerVars
    /\ Others(t) /\ at'[t] \notin {"handling", "completed"}
    /\ SaysNothingNew(t)

\* A step aside keeps what SuccessInv says.
LEMMA AsideSucceeds ==
    ASSUME OnceInv, SuccessInv, NEW t \in Tasks, Aside(t) PROVE SuccessInv'
<1>1. UNCHANGED <<lock, events, tracked, active, pc, job>>
  BY DEF Aside, handlerVars, book
<1>2. HandlerCore'
  BY <1>1 DEF SuccessInv, HandlerCore, Stored
<1>3. \A u \in Requesters :
          (at'[u] = at[u] /\ frame'[u] = frame[u]) \/ at'[u] \notin {"handling", "completed"}
  BY TasksAre DEF Aside, Others
<1>4. ASSUME NEW u \in Requesters PROVE Awaits(u)'
  <2>1. CASE at'[u] # "handling"
    BY <2>1 DEF Awaits
  <2>2. CASE at'[u] = at[u] /\ frame'[u] = frame[u]
    <3>1. Awaits(u)
      BY DEF SuccessInv
    <3> QED BY <1>1, <2>2, <3>1 DEF Awaits
  <2> QED BY <1>3, <2>1, <2>2
<1>5. ASSUME NEW c \in Mrids, "completed" \in Said(c)', "completed" \notin Said(c)
      PROVE  t \in Requesters /\ at[t] = "completed" /\ frame[t].on = c
  <2>1. ~ UNCHANGED responses
    BY <1>5, SaidAgain
  <2>2. PICK d : \E code \in Responses :
           /\ Post(d, code)
           /\ \/ code \notin {"completed", "received"} \/ (d \in Mrids /\ code \in owed[d])
              \/ t \in Requesters /\ Announces(t, code) /\ d = frame[t].on
    BY <2>1 DEF Aside, SaysNothingNew
  <2>3. PICK code \in Responses :
           /\ Post(d, code)
           /\ \/ code \notin {"completed", "received"} \/ (d \in Mrids /\ code \in owed[d])
              \/ t \in Requesters /\ Announces(t, code) /\ d = frame[t].on
    BY <2>2
  <2>4. Said(c)' = Said(c) \cup (IF c = d THEN {code} ELSE {})
    BY <2>3, PostSays DEF Says
  <2>5. c = d /\ code = "completed"
    BY <1>5, <2>4
  <2>6. code \notin owed[d]
    BY <1>5, <2>5 DEF Said
  <2> QED BY <2>3, <2>5, <2>6 DEF Announces
<1>6. ASSUME NEW c \in Mrids,
             "completed" \in Said(c)' \/ \E u \in Requesters : at'[u] = "completed" /\ frame'[u].on = c
      PROVE  \E k \in 1..Len(events') : Succeeded(c, k)'
  <2>1. "completed" \in Said(c) \/ \E u \in Requesters : at[u] = "completed" /\ frame[u].on = c
    BY <1>3, <1>5, <1>6
  <2>2. PICK k \in 1..Len(events) : Succeeded(c, k)
    BY <2>1 DEF SuccessInv
  <2> QED BY <1>1, <2>2 DEF Succeeded
<1> QED BY <1>2, <1>4, <1>6 DEF SuccessInv

\* A step aside, from what an action says of it.
LEMMA StepsAside ==
    ASSUME ClientTypes, NEW t \in Tasks, UNCHANGED handlerVars,
           NEW l \in Points \ {"handling", "completed"}, GoOn(t, l),
           \/ UNCHANGED frame \/ Forget(t) \/ \E c : Enter(t, c)
           \/ \A u \in Tasks \ {t} : frame'[u] = frame[u],
           SaysNothingNew(t)
    PROVE  Aside(t)
<1>1. at' = [at EXCEPT ![t] = l]
  BY DEF GoOn
<1>2. at'[t] = l /\ \A u \in Tasks \ {t} : at'[u] = at[u]
  BY <1>1 DEF ClientTypes
<1>3. \A u \in Tasks \ {t} : frame'[u] = frame[u]
  BY DEF ClientTypes, Forget, Enter
<1> QED BY <1>2, <1>3 DEF Aside, Others

\* Taking a control in hand is a step aside.
LEMMA TakesAside ==
    ASSUME NEW t \in Tasks, NEW c, NEW st, Takes(t, c, st), UNCHANGED handlerVars, SaysNothingNew(t)
    PROVE  Aside(t)
BY DEF Takes, Aside

\* What is posted is neither of the two, or of the control in hand.
LEMMA PostingNothingNew ==
    ASSUME NEW t, NEW c, NEW code \in Responses, Post(c, code),
           \/ code \notin {"completed", "received"}
           \/ t \in Requesters /\ Announces(t, code) /\ c = frame[t].on
    PROVE  SaysNothingNew(t)
BY DEF SaysNothingNew

\* So are the reports of _execute_control.
LEMMA ReportsAside ==
    ASSUME OnceInv, NEW t \in Requesters,
           \/ SupersededReported(t) \/ LossReported(t) \/ ReceivedReported(t)
           \/ StartedReported(t) \/ CompletedReported(t)
    PROVE  Aside(t) /\ UNCHANGED fsaVars
<1> USE DEF Stands, allVars, Responses
<1>1. ClientTypes /\ t \in Tasks
  BY TasksAre DEF OnceInv
<1>2. {"next", "started", "call", "sweep"} \subseteq Points \ {"handling", "completed"}
  BY DEF Points, InHand, Before, Beyond
<1>3. CASE SupersededReported(t)
  <2>1. at[t] = "conflict" /\ at[t] \in InHand
    BY <1>3 DEF SupersededReported, InHand, Before
  <2>2. PICK c \in Mrids : c = frame[t].on
    BY <2>1, InHandNow
  <2>3. frame[t].modes \in SUBSET Modes /\ status \in [Mrids -> ClientStatuses]
    BY <1>1 DEF ClientTypes, Frames
  <2>4. Takes(t, c, status)
    BY <1>1, <1>3, <2>2, <2>3, Resolving DEF SupersededReported
  <2>5. SaysNothingNew(t)
    BY <1>3, PostingNothingNew DEF SupersededReported
  <2>6. UNCHANGED handlerVars /\ UNCHANGED fsaVars
    BY <1>3 DEF SupersededReported
  <2> QED BY <1>1, <2>4, <2>5, <2>6, TakesAside
<1>4. CASE LossReported(t)
  <2>1. /\ GoOn(t, "next") /\ Forget(t) /\ UNCHANGED handlerVars /\ UNCHANGED fsaVars
    BY <1>4 DEF LossReported, Leave
  <2>2. SaysNothingNew(t)
    BY <1>4, PostingNothingNew DEF LossReported
  <2> QED BY <1>1, <1>2, <2>1, <2>2, StepsAside
<1>5. CASE ReceivedReported(t)
  <2>1. /\ GoOn(t, "started") /\ UNCHANGED frame /\ UNCHANGED handlerVars /\ UNCHANGED fsaVars
    BY <1>5 DEF ReceivedReported
  <2>2. SaysNothingNew(t)
    BY <1>5, PostingNothingNew DEF ReceivedReported, Announces
  <2> QED BY <1>1, <1>2, <2>1, <2>2, StepsAside
<1>6. CASE StartedReported(t)
  <2>1. /\ GoOn(t, "call") /\ UNCHANGED frame /\ UNCHANGED handlerVars /\ UNCHANGED fsaVars
    BY <1>6 DEF StartedReported
  <2>2. SaysNothingNew(t)
    BY <1>6, PostingNothingNew DEF StartedReported
  <2> QED BY <1>1, <1>2, <2>1, <2>2, StepsAside
<1>7. CASE CompletedReported(t)
  <2>1. SaysNothingNew(t)
    BY <1>7, PostingNothingNew DEF CompletedReported, Announces
  <2>2. UNCHANGED handlerVars /\ UNCHANGED fsaVars
    BY <1>7 DEF CompletedReported
  <2>3. \/ GoOn(t, "sweep") /\ \A u \in Tasks \ {t} : frame'[u] = frame[u]
        \/ GoOn(t, "next") /\ Forget(t)
    BY <1>1, <1>7 DEF CompletedReported, Leave, ClientTypes
  <2> QED BY <1>1, <1>2, <2>1, <2>2, <2>3, StepsAside
<1> QED BY <1>3, <1>4, <1>5, <1>6, <1>7

\* So is the sweep, but for the cancellation at its end.
LEMMA SweepsAside ==
    ASSUME OnceInv, NEW t \in Requesters,
           SweepModes(t) \/ SweptModeReported(t) \/ SweepScheduled(t) \/ SweptControlReported(t)
    PROVE  Aside(t) /\ UNCHANGED fsaVars
<1> USE DEF Stands, allVars, Responses
<1>1. ClientTypes /\ t \in Tasks /\ frame \in [Tasks -> Frames]
  BY TasksAre DEF OnceInv, ClientTypes
<1>2. {"next", "aborted", "sweep", "sweptMode", "sweepScheduled", "sweptControl", "sweepHandler"}
          \subseteq Points \ {"handling", "completed"}
  BY DEF Points, InHand, Before, Beyond
<1>3. CASE SweepModes(t)
  <2>1. SaysNothingNew(t) /\ UNCHANGED handlerVars /\ UNCHANGED fsaVars
    BY <1>3, Zenon DEF SweepModes, SaysNothingNew
  <2>2. \/ GoOn(t, "aborted") /\ \E c : Enter(t, c)
        \/ /\ GoOn(t, "sweepScheduled") \/ GoOn(t, "sweptMode")
           /\ \A u \in Tasks \ {t} : frame'[u] = frame[u]
    BY <1>1, <1>3, Zenon DEF SweepModes, SweepRaises
  <2> QED BY <1>1, <1>2, <2>1, <2>2, StepsAside
<1>4. CASE SweptModeReported(t)
  <2>1. UNCHANGED handlerVars /\ UNCHANGED fsaVars
    BY <1>4 DEF SweptModeReported
  <2>2. SaysNothingNew(t)
    BY <1>4, PostingNothingNew DEF SweptModeReported
  <2>3. \/ GoOn(t, "aborted") /\ \E c : Enter(t, c)
        \/ GoOn(t, "sweep") /\ UNCHANGED frame
    BY <1>4 DEF SweptModeReported, SweepRaises
  <2> QED BY <1>1, <1>2, <2>1, <2>2, <2>3, StepsAside
<1>5. CASE SweepScheduled(t)
  <2>1. SaysNothingNew(t) /\ UNCHANGED handlerVars /\ UNCHANGED fsaVars
    BY <1>5 DEF SweepScheduled, SaysNothingNew
  <2>2. \/ GoOn(t, "aborted") /\ \E c : Enter(t, c)
        \/ GoOn(t, "next") /\ Forget(t)
        \/ /\ GoOn(t, "sweptControl") \/ GoOn(t, "sweepHandler")
           /\ \A u \in Tasks \ {t} : frame'[u] = frame[u]
    BY <1>1, <1>5 DEF SweepScheduled, SweepRaises, Leave
  <2> QED BY <1>1, <1>2, <2>1, <2>2, StepsAside
<1>6. CASE SweptControlReported(t)
  <2>1. /\ GoOn(t, "sweepScheduled") /\ UNCHANGED frame /\ UNCHANGED handlerVars
        /\ UNCHANGED fsaVars
    BY <1>6 DEF SweptControlReported
  <2>2. SaysNothingNew(t)
    BY <1>6, PostingNothingNew DEF SweptControlReported
  <2> QED BY <1>1, <1>2, <2>1, <2>2, StepsAside
<1> QED BY <1>3, <1>4, <1>5, <1>6

\* So is the scheduler's own loop.
LEMMA SchedulerAside ==
    ASSUME OnceInv, SchedulerStep PROVE Aside(Scheduler) /\ UNCHANGED fsaVars
<1> USE DEF Stands, allVars
<1>1. ClientTypes /\ Scheduler \in Requesters /\ Scheduler \in Tasks
  BY TasksAre DEF OnceInv
<1>2. {"next", "idle"} \subseteq Points \ {"handling", "completed"}
  BY DEF Points
<1>3. CASE Tick
  BY <1>1, <1>2, <1>3, StepsAside DEF Tick, SaysNothingNew
<1>4. CASE RunScheduled
  <2>1. SaysNothingNew(Scheduler) /\ UNCHANGED handlerVars /\ UNCHANGED fsaVars
    BY <1>4 DEF RunScheduled, SaysNothingNew
  <2>2. \/ GoOn(Scheduler, "idle") /\ UNCHANGED frame
        \/ \E c \in left[Scheduler] : ExecuteControl(Scheduler, c, status)
    BY <1>4 DEF RunScheduled
  <2>3. ASSUME NEW c \in left[Scheduler], ExecuteControl(Scheduler, c, status)
        PROVE  Aside(Scheduler)
    <3>1. c \in Mrids /\ status \in [Mrids -> ClientStatuses]
      BY <1>1, <2>3 DEF ClientTypes
    <3> QED BY <1>1, <2>1, <2>3, <3>1, BeginningToExecute, TakesAside
  <2> QED BY <1>1, <1>2, <2>1, <2>2, <2>3, StepsAside
<1> QED BY <1>3, <1>4 DEF SchedulerStep

\* So is the poll task's, but for the cancellations.
LEMMA PollerAside ==
    ASSUME OnceInv,
           \/ StartRound \/ EndRound \/ PollProgram \/ Fetched \/ DefaultReturned
           \/ ProcessNext \/ FutureReported \/ ExpiryReported
           \/ CancelReported \/ RetryNext \/ Retried
    PROVE  Aside(Poller) /\ UNCHANGED fsaVars
<1> USE DEF Stands, allVars, Responses
<1>1. ClientTypes /\ Poller \in Requesters /\ Poller \in Tasks /\ frame \in [Tasks -> Frames]
  BY TasksAre DEF OnceInv, ClientTypes
<1>2. {"next", "idle", "round", "retry", "retrying", "get", "default", "cancel", "future", "expired"}
          \subseteq Points \ {"handling", "completed"}
  BY DEF Points
<1>3. CASE StartRound \/ EndRound
  <2>1. /\ GoOn(Poller, "round") \/ GoOn(Poller, "idle") \/ GoOn(Poller, "retry")
        /\ UNCHANGED frame /\ SaysNothingNew(Poller)
        /\ UNCHANGED handlerVars /\ UNCHANGED fsaVars
    BY <1>3 DEF StartRound, EndRound, SaysNothingNew
  <2> QED BY <1>1, <1>2, <2>1, StepsAside
<1>4. CASE PollProgram
  <2>1. /\ GoOn(Poller, "get") /\ SaysNothingNew(Poller)
        /\ UNCHANGED handlerVars /\ UNCHANGED fsaVars
    BY <1>4 DEF PollProgram, SaysNothingNew
  <2>2. \A u \in Tasks \ {Poller} : frame'[u] = frame[u]
    BY <1>1, <1>4 DEF PollProgram
  <2> QED BY <1>1, <1>2, <2>1, <2>2, StepsAside
<1>5. CASE Fetched
  <2>1. SaysNothingNew(Poller) /\ UNCHANGED fsaVars
    BY <1>5 DEF Fetched, SaysNothingNew
  <2>2. \/ /\ GoOn(Poller, "round") \/ GoOn(Poller, "next")
           /\ Forget(Poller) /\ UNCHANGED handlerVars
        \/ CheckDefaultControl
    BY <1>5 DEF Fetched
  <2>3. CASE CheckDefaultControl
    <3>1. \/ /\ GoOn(Poller, "round") /\ Forget(Poller) /\ UNCHANGED handlerVars
          \/ /\ GoOn(Poller, "default") /\ \A u \in Tasks \ {Poller} : frame'[u] = frame[u]
             /\ UNCHANGED handlerVars
      BY <1>1, <2>3 DEF CheckDefaultControl
    <3> QED BY <1>1, <1>2, <2>1, <3>1, StepsAside
  <2> QED BY <1>1, <1>2, <2>1, <2>2, <2>3, StepsAside
<1>6. CASE DefaultReturned
  <2>1. /\ GoOn(Poller, "round") /\ Forget(Poller) /\ SaysNothingNew(Poller)
        /\ UNCHANGED handlerVars /\ UNCHANGED fsaVars
    BY <1>6 DEF DefaultReturned, SaysNothingNew
  <2> QED BY <1>1, <1>2, <2>1, StepsAside
<1>7. CASE ProcessNext
  <2>1. SaysNothingNew(Poller) /\ UNCHANGED handlerVars /\ UNCHANGED fsaVars
    BY <1>7 DEF ProcessNext, SaysNothingNew
  <2>2. \/ GoOn(Poller, "round") /\ UNCHANGED frame
        \/ \E c \in DOMAIN batch : ProcessKnown(c) \/ ProcessNew(c)
    BY <1>7 DEF ProcessNext
  <2>3. ASSUME NEW c \in DOMAIN batch, ProcessKnown(c) \/ ProcessNew(c) PROVE Aside(Poller)
    <3>1. CASE ExecuteControl(Poller, c, [status EXCEPT ![c] = "pending"])
      <4>1. c \in Mrids /\ [status EXCEPT ![c] = "pending"] \in [Mrids -> ClientStatuses]
        BY <1>1, <2>3 DEF ClientTypes, ClientStatuses, Statuses
      <4> QED BY <1>1, <2>1, <3>1, <4>1, BeginningToExecute, TakesAside
    <3>2. CASE /\ GoOn(Poller, "cancel") \/ GoOn(Poller, "future") \/ GoOn(Poller, "expired")
               /\ Enter(Poller, c)
      BY <1>1, <1>2, <2>1, <3>2, StepsAside
    <3> QED BY <2>3, <3>1, <3>2 DEF ProcessKnown, ProcessNew
  <2> QED BY <1>1, <1>2, <2>1, <2>2, <2>3, StepsAside
<1>8. CASE FutureReported \/ ExpiryReported \/ CancelReported
  <2>1. /\ GoOn(Poller, "next") /\ Forget(Poller)
        /\ UNCHANGED handlerVars /\ UNCHANGED fsaVars
    BY <1>8 DEF FutureReported, ExpiryReported, CancelReported, Leave
  <2>2. SaysNothingNew(Poller)
    BY <1>1, <1>8, PostingNothingNew DEF FutureReported, ExpiryReported, CancelReported, Announces
  <2> QED BY <1>1, <1>2, <2>1, <2>2, StepsAside
<1>9. CASE RetryNext
  <2>1. SaysNothingNew(Poller) /\ UNCHANGED handlerVars /\ UNCHANGED fsaVars
    BY <1>9 DEF RetryNext, SaysNothingNew
  <2>2. /\ GoOn(Poller, "idle") \/ GoOn(Poller, "retrying")
        /\ \A u \in Tasks \ {Poller} : frame'[u] = frame[u]
    BY <1>1, <1>9 DEF RetryNext
  <2> QED BY <1>1, <1>2, <2>1, <2>2, StepsAside
<1>10. CASE Retried
  <2>1. /\ GoOn(Poller, "retry") /\ Forget(Poller)
        /\ UNCHANGED handlerVars /\ UNCHANGED fsaVars
    BY <1>10 DEF Retried
  <2>2. SaysNothingNew(Poller)
    <3>1. PICK c, x : c = frame[Poller].on /\ x = frame[Poller].other
      OBVIOUS
    <3>2. c \in Mrids /\ x \in owed[c]
      BY <1>1, <1>10, <3>1 DEF Retried, OnceInv, Owns
    <3>3. x \in Responses
      BY <1>1, <3>2 DEF ClientTypes
    <3> QED BY <1>10, <3>1, <3>2, <3>3 DEF Retried, SaysNothingNew
  <2> QED BY <1>1, <1>2, <2>1, <2>2, StepsAside
<1> QED BY <1>3, <1>4, <1>5, <1>6, <1>7, <1>8, <1>9, <1>10

\* Only the holder of the lock waits for the handler.
LEMMA NobodyElseAwaits ==
    ASSUME SuccessInv, NEW t \in Requesters, lock \in {Free, t}
    PROVE  \A u \in Requesters \ {t} : at[u] # "handling"
<1>1. \A u \in Requesters : at[u] = "handling" => lock = u
  BY DEF SuccessInv, Awaits, HandlerCore
<1> QED BY <1>1, HandlerNamesAssumption

\* A step at the handler: the events executed with success stay so, the control in hand is
\* at "completed" only with an event of its own that was, and nothing is said.
LEMMA AtTheHandler ==
    ASSUME SuccessInv, NEW t \in Requesters, HandlerCore', Kept, Others(t), UNCHANGED responses,
           lock \in {Free, t}, Awaits(t)',
           at'[t] = "completed" =>
               \E k \in 1..Len(events') : Succeeded(frame[t].on, k)' /\ frame'[t].on = frame[t].on
    PROVE  SuccessInv'
<1>1. \A c \in Mrids, k \in 1..Len(events) : Succeeded(c, k) => Succeeded(c, k)' /\ k \in 1..Len(events')
  BY LenProperties DEF Kept, Succeeded, HandlerCore, SuccessInv
<1>2. \A u \in Requesters : Awaits(u)'
  BY NobodyElseAwaits, TasksAre DEF Others, Awaits
<1>3. ASSUME NEW c \in Mrids,
             "completed" \in Said(c)' \/ \E u \in Requesters : at'[u] = "completed" /\ frame'[u].on = c
      PROVE  \E k \in 1..Len(events') : Succeeded(c, k)'
  <2>1. CASE at'[t] = "completed" /\ frame'[t].on = c
    BY <2>1 DEF Succeeded
  <2>2. CASE ~(at'[t] = "completed" /\ frame'[t].on = c)
    <3>1. "completed" \in Said(c) \/ \E u \in Requesters : at[u] = "completed" /\ frame[u].on = c
      BY <1>3, <2>2, TasksAre DEF Said, responses, Others
    <3>2. PICK k \in 1..Len(events) : Succeeded(c, k)
      BY <3>1 DEF SuccessInv
    <3> QED BY <1>1, <3>2
  <2> QED BY <2>1, <2>2
<1> QED BY <1>2, <1>3 DEF SuccessInv

\* The control the handler has answered for.
LEMMA AnsweredFor ==
    ASSUME ClientTypes, NEW t \in Requesters, NEW outcome, AfterHandling(t, outcome)
    PROVE  /\ Others(t) /\ UNCHANGED responses /\ UNCHANGED fsaVars
           /\ at'[t] \in {"completed", "next"}
           /\ at'[t] = "completed" => outcome = "completed" /\ frame'[t] = frame[t]
<1>1. t \in Tasks /\ at \in [Tasks -> Points] /\ frame \in [Tasks -> Frames]
  BY TasksAre DEF ClientTypes
<1>2. \/ /\ at' = [at EXCEPT ![t] = "completed"] /\ frame' = frame /\ outcome = "completed"
      \/ /\ at' = [at EXCEPT ![t] = "next"] /\ frame' = [frame EXCEPT ![t] = NoFrame]
  BY DEF AfterHandling, Leave, GoOn, Forget
<1> QED BY <1>1, <1>2 DEF AfterHandling, Others

\* The hand-over: a control at "completed" has an event that completed.
LEMMA CallHandlerSucceeds ==
    ASSUME OnceInv, SuccessInv, NEW t \in Requesters, CallHandler(t)
    PROVE  SuccessInv' /\ Others(t) /\ UNCHANGED fsaVars
<1>1. at[t] = "call" /\ at[t] \in InHand
  BY DEF CallHandler, Stands, InHand, Before
<1>2. PICK c \in Mrids : c = frame[t].on
  BY <1>1, InHandNow
<1>3. ClientTypes /\ t \in Tasks /\ at \in [Tasks -> Points] /\ HandlerCore
  BY TasksAre DEF OnceInv, ClientTypes, SuccessInv
<1>4. HandleControl(t, c, ControlOf[c], "open")
  BY <1>2 DEF CallHandler
<1>5. HandlerCore' /\ Kept /\ lock = Free
  BY <1>3, <1>4, HandlerHandles
<1>6. CASE pc'[t] = "power"
  <2>1. /\ at' = [at EXCEPT ![t] = "handling"] /\ frame' = frame
        /\ UNCHANGED responses /\ UNCHANGED fsaVars
    BY <1>6 DEF CallHandler, GoOn
  <2>2. Others(t) /\ at'[t] = "handling"
    BY <1>3, <2>1 DEF Others
  <2>3. LET k == job'[t].event
        IN  /\ job'[t].op = "handle" /\ k \in 1..Len(events') /\ events'[k].id = c
            /\ events'[k].executed /\ events'[k].status = "active"
    BY <1>3, <1>4, <1>6, HandlerHandles
  <2>4. Awaits(t)'
    BY <1>2, <1>6, <2>1, <2>3 DEF Awaits
  <2> QED BY <1>5, <2>1, <2>2, <2>4, AtTheHandler
<1>7. CASE pc'[t] # "power"
  <2>1. PICK k : k = Len(events')
    OBVIOUS
  <2>2. /\ k \in 1..Len(events') /\ events'[k].id = c /\ events'[k].executed
    BY <1>3, <1>4, <1>7, <2>1, HandlerHandles
  <2>3. AfterHandling(t, events'[k].status)
    BY <1>7, <2>1 DEF CallHandler
  <2>4. /\ Others(t) /\ UNCHANGED responses /\ UNCHANGED fsaVars
        /\ at'[t] \in {"completed", "next"}
        /\ at'[t] = "completed" => events'[k].status = "completed" /\ frame'[t] = frame[t]
    BY <1>3, <2>3, AnsweredFor
  <2>5. Awaits(t)'
    BY <2>4 DEF Awaits
  <2>6. at'[t] = "completed" => Succeeded(c, k)' /\ frame'[t].on = c
    BY <1>2, <2>2, <2>4 DEF Succeeded, Good
  <2>7. at'[t] = "completed" =>
            \E j \in 1..Len(events') : Succeeded(frame[t].on, j)' /\ frame'[t].on = frame[t].on
    <3> SUFFICES ASSUME at'[t] = "completed"
                 PROVE  \E j \in 1..Len(events') : /\ Succeeded(frame[t].on, j)'
                                                   /\ frame'[t].on = frame[t].on
      OBVIOUS
    <3> QED BY <1>2, <2>2, <2>6 DEF Succeeded
  <2> QED BY <1>5, <2>4, <2>5, <2>7, AtTheHandler
<1> QED BY <1>6, <1>7

\* The handler's answer after its await: likewise, for the event awaited.
LEMMA HandlerReturnedSucceeds ==
    ASSUME OnceInv, SuccessInv, NEW t \in Requesters, HandlerReturned(t)
    PROVE  SuccessInv' /\ Others(t) /\ UNCHANGED fsaVars
<1>1. at[t] = "handling" /\ at[t] \in InHand /\ Awaits(t) /\ HandlerCore /\ ClientTypes
  BY DEF HandlerReturned, Stands, InHand, Beyond, SuccessInv, OnceInv
<1>2. PICK c \in Mrids : c = frame[t].on
  BY <1>1, InHandNow
<1>3. PICK k : k = job[t].event
  OBVIOUS
<1>4. /\ HandlerCore' /\ Kept /\ k \in 1..Len(events') /\ events'[k].id = c
      /\ events'[k].executed
  BY <1>1, <1>2, <1>3, HandlerAnswers DEF HandlerReturned
<1>5. AfterHandling(t, events'[k].status)
  BY <1>3 DEF HandlerReturned
<1>6. /\ Others(t) /\ UNCHANGED responses /\ UNCHANGED fsaVars
      /\ at'[t] \in {"completed", "next"}
      /\ at'[t] = "completed" => events'[k].status = "completed" /\ frame'[t] = frame[t]
  BY <1>1, <1>5, AnsweredFor
<1>7. Awaits(t)'
  BY <1>6 DEF Awaits
<1>8. at'[t] = "completed" =>
          \E j \in 1..Len(events') : Succeeded(frame[t].on, j)' /\ frame'[t].on = frame[t].on
  <2> SUFFICES ASSUME at'[t] = "completed"
               PROVE  \E j \in 1..Len(events') : /\ Succeeded(frame[t].on, j)'
                                                 /\ frame'[t].on = frame[t].on
    OBVIOUS
  <2> QED BY <1>2, <1>4, <1>6 DEF Succeeded, Good
<1>9. lock = t
  BY <1>1 DEF Awaits, HandlerCore
<1> QED BY <1>4, <1>6, <1>7, <1>8, <1>9, AtTheHandler

\* The cancellations, by the poll task or at the end of an execution.
LEMMA CancellingSucceeds ==
    ASSUME OnceInv, SuccessInv, NEW t \in Requesters,
           \/ SweepHandler(t) \/ SweepCancelled(t)
           \/ t = Poller /\ (CancelCall \/ CancelCallReturned)
    PROVE  SuccessInv' /\ Others(t) /\ UNCHANGED fsaVars
<1>1. /\ ClientTypes /\ t \in Tasks /\ at \in [Tasks -> Points] /\ frame \in [Tasks -> Frames]
      /\ HandlerCore
  BY TasksAre DEF OnceInv, ClientTypes, SuccessInv
<1>2. /\ UNCHANGED responses /\ UNCHANGED fsaVars
      /\ \E l \in {"sweepCancelling", "next", "cancelling", "cancelled"} : GoOn(t, l)
      /\ Forget(t) \/ UNCHANGED frame
  BY DEF SweepHandler, SweepCancelled, CancelCall, CancelCallReturned, Leave
<1>3. Others(t) /\ at'[t] \notin {"handling", "completed"}
  BY <1>1, <1>2 DEF Others, GoOn, Forget
<1>4. Awaits(t)'
  BY <1>3 DEF Awaits
<1>5. HandlerCore' /\ Kept /\ lock \in {Free, t}
  <2>1. CASE \E i : CancelControl(t, i)
    BY <1>1, <2>1, HandlerCancels
  <2>2. CASE CancelReturned(t)
    <3>1. HandlerCore' /\ events' = events /\ lock = t
      BY <1>1, <2>2, HandlerCancelled DEF HandlerCore, CancelReturned
    <3>2. Kept
      BY <1>1, <3>1, LenProperties DEF Kept, HandlerCore
    <3> QED BY <3>1, <3>2
  <2>3. CASE UNCHANGED allVars /\ lock = Free
    <3>1. UNCHANGED <<lock, events, tracked, active, pc, job>>
      BY <2>3 DEF allVars, handlerVars, book
    <3>2. HandlerCore'
      BY <1>1, <3>1 DEF HandlerCore, Stored
    <3>3. Kept
      BY <1>1, <3>1, LenProperties DEF Kept, HandlerCore
    <3> QED BY <2>3, <3>2, <3>3
  <2> QED BY <2>1, <2>2, <2>3 DEF SweepHandler, SweepCancelled, CancelCall, CancelCallReturned
<1> QED BY <1>2, <1>3, <1>4, <1>5, AtTheHandler

\* The FSA task never touches the handler.
LEMMA FsaAside == ASSUME OnceInv, FsaStep PROVE Aside(FsaTask)
<1> USE DEF Stands, allVars, Responses
<1>1. ClientTypes /\ FsaTask \in Tasks /\ at[FsaTask] \notin {"handling", "completed"}
  BY TasksAre DEF OnceInv, ClientTypes
<1>2. {"idle", "fetch", "untrack", "untracking", "cancelled"} \subseteq Points \ {"handling", "completed"}
  BY DEF Points
<1>3. CASE PollFsa
  BY <1>1, <1>2, <1>3, StepsAside DEF PollFsa, SaysNothingNew
<1>4. CASE ProcessFsaPrograms
  <2>1. UNCHANGED control /\ UNCHANGED responses /\ UNCHANGED handlerVars
    BY <1>4 DEF ProcessFsaPrograms
  <2> QED BY <1>1, <2>1 DEF Aside, Others, SaysNothingNew, control
<1>5. CASE HandleFsaRemoved
  BY <1>1, <1>2, <1>5, StepsAside DEF HandleFsaRemoved, SaysNothingNew
<1>6. CASE UntrackProgram
  BY <1>1, <1>2, <1>6, StepsAside DEF UntrackProgram, SaysNothingNew
<1>7. CASE CancelNext
  <2>1. SaysNothingNew(FsaTask) /\ UNCHANGED handlerVars
    BY <1>7 DEF CancelNext, SaysNothingNew
  <2>2. \/ GoOn(FsaTask, "untrack") /\ UNCHANGED frame
        \/ GoOn(FsaTask, "cancelled") /\ \E c : Enter(FsaTask, c)
    BY <1>7 DEF CancelNext
  <2> QED BY <1>1, <1>2, <2>1, <2>2, StepsAside
<1>8. CASE UntrackReported
  <2>1. GoOn(FsaTask, "untracking") /\ Forget(FsaTask) /\ UNCHANGED handlerVars
    BY <1>8 DEF UntrackReported
  <2>2. SaysNothingNew(FsaTask)
    BY <1>8, PostingNothingNew DEF UntrackReported
  <2> QED BY <1>1, <1>2, <2>1, <2>2, StepsAside
<1>9. CASE FsaPolled
  BY <1>1, <1>2, <1>9, StepsAside DEF FsaPolled, SaysNothingNew
<1> QED BY <1>3, <1>4, <1>5, <1>6, <1>7, <1>8, <1>9 DEF FsaStep

\* SuccessInv is about the handler, the tasks and the responses only.
LEMMA NothingAtTheHandler ==
    ASSUME SuccessInv, UNCHANGED handlerVars, UNCHANGED control, UNCHANGED responses
    PROVE  SuccessInv'
<1>1. UNCHANGED <<lock, events, tracked, active, pc, job, at, frame, sent, owed>>
  BY DEF handlerVars, book, control, responses
<1> QED BY <1>1 DEF SuccessInv, HandlerCore, Stored, Awaits, Said, Succeeded

\* What happens around the client.
Surroundings ==
    \/ \E t \in Requesters : ControllerStep(t)
    \/ ServerStep \/ FsaChanges \/ AdvanceTime \/ LocalStop \/ UNCHANGED everything

\* Nothing of that is changed around the client.
LEMMA SurroundingsLeave ==
    ASSUME Surroundings
    PROVE  UNCHANGED handlerVars /\ UNCHANGED control /\ UNCHANGED responses /\ UNCHANGED fsaVars
BY DEF Surroundings, ControllerStep, InController, ServerStep, FsaChanges, AdvanceTime, LocalStop,
       EmergencyStopTriggered, everything, allVars, clientVars

\* Every step of a task other than the FSA task keeps SuccessInv and leaves the assignments.
LEMMA RequesterSteps ==
    ASSUME OnceInv, SuccessInv,
           (\E t \in Requesters : ExecutionStep(t)) \/ SchedulerStep \/ PollerStep
    PROVE  SuccessInv' /\ UNCHANGED fsaVars /\ \E t \in Requesters : Others(t)
<1>1. ASSUME NEW t \in Requesters, Aside(t) PROVE SuccessInv' /\ Others(t)
  <2>1. t \in Tasks
    BY TasksAre
  <2> QED BY <1>1, <2>1, AsideSucceeds DEF Aside
<1>2. ASSUME NEW t \in Requesters, ExecutionStep(t)
      PROVE  SuccessInv' /\ UNCHANGED fsaVars /\ Others(t)
  <2>1. CASE \/ SupersededReported(t) \/ LossReported(t) \/ ReceivedReported(t)
             \/ StartedReported(t) \/ CompletedReported(t)
    BY <1>1, <2>1, ReportsAside
  <2>2. CASE SweepModes(t) \/ SweptModeReported(t) \/ SweepScheduled(t) \/ SweptControlReported(t)
    BY <1>1, <2>2, SweepsAside
  <2>3. CASE CallHandler(t)
    BY <2>3, CallHandlerSucceeds
  <2>4. CASE HandlerReturned(t)
    BY <2>4, HandlerReturnedSucceeds
  <2>5. CASE SweepHandler(t) \/ SweepCancelled(t)
    BY <2>5, CancellingSucceeds
  <2> QED BY <1>2, <2>1, <2>2, <2>3, <2>4, <2>5 DEF ExecutionStep
<1>3. CASE SchedulerStep
  BY <1>1, <1>3, SchedulerAside, TasksAre
<1>4. CASE PollerStep
  <2>1. CASE CancelCall \/ CancelCallReturned
    BY <2>1, CancellingSucceeds, TasksAre
  <2>2. CASE ~(CancelCall \/ CancelCallReturned)
    BY <1>1, <1>4, <2>2, PollerAside, TasksAre DEF PollerStep
  <2> QED BY <2>1, <2>2
<1> QED BY <1>2, <1>3, <1>4

\* Every step of the client keeps SuccessInv.
LEMMA SuccessKept ==
    ASSUME OnceInv, SuccessInv, [ClientNext]_everything PROVE SuccessInv'
<1>1. CASE FsaStep
  BY <1>1, FsaAside, AsideSucceeds, TasksAre
<1>2. CASE Surroundings
  BY <1>2, SurroundingsLeave, NothingAtTheHandler
<1>3. CASE (\E t \in Requesters : ExecutionStep(t)) \/ SchedulerStep \/ PollerStep
  BY <1>3, RequesterSteps
<1> QED BY <1>1, <1>2, <1>3 DEF ClientNext, Surroundings

\* Only CallHandler hands a control to the handler.
LEMMA HandedByCall ==
    ASSUME [ClientNext]_everything, ~ UNCHANGED handed
    PROVE  \E t \in Requesters : CallHandler(t)
<1>1. ASSUME NEW t \in Requesters, ExecutionStep(t) \/ ControllerStep(t), ~CallHandler(t)
      PROVE  UNCHANGED handed
  BY <1>1, Zenon DEF ExecutionStep, ControllerStep, clientVars, SupersededReported, LossReported,
         ReceivedReported, StartedReported, HandlerReturned, CompletedReported, SweepModes,
         SweptModeReported, SweepScheduled, SweptControlReported, SweepHandler, SweepCancelled
<1>2. SchedulerStep => UNCHANGED handed
  BY Zenon DEF SchedulerStep, Tick, RunScheduled
<1>3. FsaStep => UNCHANGED handed
  BY Zenon DEF FsaStep, PollFsa, ProcessFsaPrograms, HandleFsaRemoved, UntrackProgram, CancelNext,
               UntrackReported, FsaPolled
<1>4. StartRound \/ EndRound \/ PollProgram \/ Fetched \/ DefaultReturned => UNCHANGED handed
  BY Zenon DEF StartRound, EndRound, PollProgram, Fetched, DefaultReturned
<1>5. ProcessNext \/ FutureReported \/ ExpiryReported => UNCHANGED handed
  BY Zenon DEF ProcessNext, FutureReported, ExpiryReported
<1>6. \/ CancelCall \/ CancelCallReturned \/ CancelReported \/ RetryNext \/ Retried
      => UNCHANGED handed
  BY Zenon DEF CancelCall, CancelCallReturned, CancelReported, RetryNext, Retried
<1>7. ServerStep \/ FsaChanges \/ AdvanceTime => UNCHANGED handed
  BY Zenon DEF ServerStep, FsaChanges, AdvanceTime
<1>8. LocalStop \/ UNCHANGED everything => UNCHANGED handed
  BY DEF LocalStop, everything, clientVars
<1> QED BY <1>1, <1>2, <1>3, <1>4, <1>5, <1>6, <1>7, <1>8, Zenon DEF ClientNext, PollerStep

-----------------------------------------------------------------------------
(***************************************************************************)
(* What is polled belongs to an assignment.                                *)
(***************************************************************************)
LEMMA TrackedProgramsArePrograms == ASSUME AssignmentInv PROVE programs \subseteq Programs
BY ProgramsAssumption DEF AssignmentInv, ProgramsComeFromFsas

\* The programs the FSA task has still to untrack are those there were when it began.
LEMMA FsaStepAssigns ==
    ASSUME AssignmentInv, FsaTask \in Tasks, at \in [Tasks -> Points], FsaStep
    PROVE  AssignmentInv'
<1> USE DEF Stands
<1>1. programs \subseteq Programs
  BY TrackedProgramsArePrograms
<1>2. /\ programs \subseteq UNION {ProgramsOf[f] : f \in trackedFsa} /\ trackedFsa \subseteq Fsas
      /\ fsaJob \in [fetch : SUBSET Fsas, gone : SUBSET Fsas, untrack : SUBSET Programs,
                     program : Programs \cup {None}]
  BY DEF AssignmentInv, ProgramsComeFromFsas
<1>3. NoFsaJob \in [fetch : SUBSET Fsas, gone : SUBSET Fsas, untrack : SUBSET Programs,
                    program : Programs \cup {None}]
  BY DEF NoFsaJob
<1>4. CASE PollFsa
  <2> DEFINE listed == {f \in Fsas : fsas[f] = "listed"}
  <2>1. PICK changed \in SUBSET (listed \cap trackedFsa) :
           fsaJob' = [NoFsaJob EXCEPT !.fetch = (listed \ trackedFsa) \cup changed,
                                      !.gone = trackedFsa \ listed]
    BY <1>4, Zenon DEF PollFsa
  <2>2. /\ (listed \ trackedFsa) \cup changed \in SUBSET Fsas
        /\ trackedFsa \ listed \in SUBSET Fsas
    BY <1>2
  <2> HIDE DEF listed
  <2>3. fsaJob' \in [fetch : SUBSET Fsas, gone : SUBSET Fsas, untrack : SUBSET Programs,
                     program : Programs \cup {None}]
    BY <1>3, <2>1, <2>2
  <2>4. at'[FsaTask] = "fetch" /\ UNCHANGED <<trackedFsa, programs>>
    BY <1>4 DEF PollFsa, GoOn
  <2> QED BY <1>2, <2>3, <2>4 DEF AssignmentInv, ProgramsComeFromFsas
<1>5. CASE ProcessFsaPrograms
  <2>1. PICK f \in fsaJob.fetch :
           /\ fsaJob' = [fsaJob EXCEPT !.fetch = @ \ {f}]
           /\ trackedFsa' = trackedFsa \cup {f}
           /\ programs' = programs \cup ProgramsOf[f] \/ UNCHANGED programs
    BY <1>5 DEF ProcessFsaPrograms
  <2>2. at' = at /\ at[FsaTask] = "fetch"
    BY <1>5 DEF ProcessFsaPrograms, control
  <2>3. f \in Fsas
    BY <1>2, <2>1
  <2>4. fsaJob' \in [fetch : SUBSET Fsas, gone : SUBSET Fsas, untrack : SUBSET Programs,
                     program : Programs \cup {None}]
    BY <1>2, <2>1
  <2>5. programs' \subseteq UNION {ProgramsOf[g] : g \in trackedFsa'}
    BY <1>2, <2>1
  <2> QED BY <1>2, <2>1, <2>2, <2>3, <2>4, <2>5 DEF AssignmentInv, ProgramsComeFromFsas
<1>6. CASE HandleFsaRemoved
  <2>1. UNCHANGED <<trackedFsa, programs>>
    BY <1>6 DEF HandleFsaRemoved
  <2>2. \/ at'[FsaTask] = "idle" /\ fsaJob' = NoFsaJob
        \/ at'[FsaTask] = "untrack" /\ fsaJob' = [fsaJob EXCEPT !.untrack = programs]
    BY <1>6 DEF HandleFsaRemoved, GoOn
  <2> QED BY <1>1, <1>2, <1>3, <2>1, <2>2 DEF AssignmentInv, ProgramsComeFromFsas
<1>7. CASE UntrackProgram
  <2>1. PICK p \in fsaJob.untrack : fsaJob' = [fsaJob EXCEPT !.untrack = @ \ {p}, !.program = p]
    BY <1>7, Zenon DEF UntrackProgram
  <2>2. /\ at'[FsaTask] = "untracking" /\ UNCHANGED <<trackedFsa, programs>>
        /\ programs \subseteq fsaJob.untrack
    BY <1>7 DEF UntrackProgram, GoOn, AssignmentInv
  <2> QED BY <1>2, <2>1, <2>2 DEF AssignmentInv, ProgramsComeFromFsas
<1>8. CASE CancelNext
  <2>1. /\ UNCHANGED <<trackedFsa, fsaJob>> /\ programs \subseteq fsaJob.untrack \cup {fsaJob.program}
        /\ \/ at'[FsaTask] = "untrack" /\ programs' = programs \ {fsaJob.program}
           \/ at'[FsaTask] = "cancelled" /\ UNCHANGED programs
    BY <1>8 DEF CancelNext, GoOn, AssignmentInv
  <2> QED BY <1>2, <2>1 DEF AssignmentInv, ProgramsComeFromFsas
<1>9. CASE UntrackReported
  <2>1. /\ UNCHANGED <<trackedFsa, programs, fsaJob>> /\ at'[FsaTask] = "untracking"
        /\ programs \subseteq fsaJob.untrack \cup {fsaJob.program}
    BY <1>9 DEF UntrackReported, GoOn, AssignmentInv, fsaVars
  <2> QED BY <1>2, <2>1 DEF AssignmentInv, ProgramsComeFromFsas
<1>10. CASE FsaPolled
  <2>1. /\ trackedFsa' = trackedFsa \ fsaJob.gone /\ fsaJob' = NoFsaJob
        /\ at'[FsaTask] = "idle" /\ programs = {} /\ programs' = programs
    BY <1>10 DEF FsaPolled, GoOn, AssignmentInv
  <2> QED BY <1>2, <1>3, <2>1 DEF AssignmentInv, ProgramsComeFromFsas
<1> QED BY <1>4, <1>5, <1>6, <1>7, <1>8, <1>9, <1>10 DEF FsaStep

\* Every step of the client keeps AssignmentInv.
LEMMA AssignmentKept ==
    ASSUME OnceInv, SuccessInv, AssignmentInv, [ClientNext]_everything PROVE AssignmentInv'
<1>1. at \in [Tasks -> Points] /\ FsaTask \in Tasks
  BY TasksAre DEF OnceInv, ClientTypes
<1>2. CASE FsaStep
  BY <1>1, <1>2, FsaStepAssigns
<1>3. CASE UNCHANGED fsaVars /\ at'[FsaTask] = at[FsaTask]
  BY <1>3 DEF fsaVars, AssignmentInv, ProgramsComeFromFsas
<1>4. CASE Surroundings
  BY <1>3, <1>4, SurroundingsLeave DEF control
<1>5. CASE (\E t \in Requesters : ExecutionStep(t)) \/ SchedulerStep \/ PollerStep
  BY <1>3, <1>5, RequesterSteps, TasksAre DEF Others
<1> QED BY <1>2, <1>4, <1>5 DEF ClientNext, Surroundings

-----------------------------------------------------------------------------
(***************************************************************************)
(* What the handler and the controls are when nobody looks.                *)
(***************************************************************************)
\* The programs that have a default control.
WithDefault == {p \in Programs : DefaultPower[p] # NoPower}

\* What the client does with the handler, and with the power controller past the handler: only
\* the default control of a program goes there directly.
AtThePath ==
    \/ UNCHANGED allVars \/ EmergencyStopTriggered
    \/ \E t \in Requesters :
           \/ \E c \in Mrids : HandleControl(t, c, ControlOf[c], "open") /\ UNCHANGED todo
           \/ \E i : CancelControl(t, i)
           \/ PowerReturned(t) \/ CancelReturned(t) \/ InController(t)
           \/ \E p \in WithDefault : /\ Begin(t, [op |-> "set", value |-> DefaultPower[p]])
                                     /\ UNCHANGED <<stopped, pset, handlerVars>>
           \/ at[Poller] = "default" /\ Take(t) /\ UNCHANGED <<stopped, pset, handlerVars>>

\* The handler's lock is held by whoever is inside of an operation, and it has no default control:
\* that is set by nobody.
PathInv ==
    /\ PowerTypeOK
    /\ lock \in Requesters \cup {Free} /\ \A t \in Requesters : lock = t => pc[t] # "idle"
    /\ default = NoControl

\* A control that is begun is one that the power controller has a command for.
LEMMA PathExecutes ==
    ASSUME PathInv, HandlerCore, HandlerCore', NEW t \in Requesters, NEW c \in Mrids,
           HandleControl(t, c, ControlOf[c], "open")
    PROVE  PathInv'
<1> DEFINE k   == Len(events) + 1
           new == Append(events, NewEvent(c, ControlOf[c], "open"))
           b   == Branch(ControlOf[c])
<1>1. Execute(t, "handle", k, new, active) /\ UNCHANGED default
  BY DEF HandleControl
<1>2. new[k].control = ControlOf[c]
  BY NewlyBegun DEF HandlerCore
<1>3. ControlOf[c] \in Fields
  BY ClientControlsAssumption, ControlsAssumption
<1>4. stopped' \in BOOLEAN /\ pset' = pset
  BY <1>1 DEF Execute, PathInv, PowerTypeOK
<1>5. CASE b \in {"reconnect", "disconnect", "deenergize", "set"}
  <2>1. /\ Begin(t, CommandFor(ControlOf[c])) /\ pc' = [pc EXCEPT ![t] = "power"] /\ lock' = t
    BY <1>1, <1>2, <1>5 DEF Execute
  <2>2. CommandFor(ControlOf[c]) \in Commands
    BY <1>3, <1>5, BranchesOfControls
  <2>3. PowerTypeOK'
    BY <1>4, <2>1, <2>2 DEF Begin, To, PowerTypeOK, PathInv
  <2> QED BY <1>1, <2>1, <2>3 DEF PathInv, HandlerCore
<1>6. CASE b \notin {"reconnect", "disconnect", "deenergize", "set"}
  <2>1. UNCHANGED powerCall /\ lock' = Free
    BY <1>1, <1>2, <1>6 DEF Execute, Conclude
  <2>2. PowerTypeOK'
    BY <1>4, <2>1 DEF powerCall, PowerTypeOK, PathInv
  <2> QED BY <1>1, <2>1, <2>2, HandlerNamesAssumption DEF PathInv
<1> QED BY <1>5, <1>6

\* Whatever the client does there, the path keeps its types and the lock its holder.
LEMMA PathKept ==
    ASSUME PathInv, HandlerCore, HandlerCore', AtThePath
    PROVE  PathInv'
<1> USE DEF PathInv, PowerTypeOK
<1>1. CASE UNCHANGED allVars
  BY <1>1 DEF allVars, powerVars, powerCall, handlerVars, book
<1>2. CASE EmergencyStopTriggered
  BY <1>2 DEF EmergencyStopTriggered, Trigger, powerCall, handlerVars, book
<1>3. ASSUME NEW t \in Requesters, NEW c \in Mrids, HandleControl(t, c, ControlOf[c], "open")
      PROVE  PathInv'
  BY <1>3, PathExecutes
<1>4. ASSUME NEW t \in Requesters, NEW i, CancelControl(t, i) PROVE PathInv'
  <2>1. \/ /\ \E cuts \in BOOLEAN :
                 /\ Begin(t, [op |-> IF cuts THEN "reconnect" ELSE "set", value |-> Zero])
                 /\ stopped' = IF cuts THEN FALSE ELSE stopped
           /\ lock' = t /\ pc' = [pc EXCEPT ![t] = "power"] /\ UNCHANGED pset
        \/ UNCHANGED <<powerVars, lock, pc, job>>
    BY <1>4 DEF CancelControl, CutsPower
  <2>2. default' = default
    BY <1>4 DEF CancelControl
  <2>3. \A cuts \in BOOLEAN :
            [op |-> IF cuts THEN "reconnect" ELSE "set", value |-> Zero] \in Commands
    BY ValuesAssumption DEF Commands
  <2>4. CASE UNCHANGED <<powerVars, lock, pc, job>>
    BY <2>2, <2>4 DEF powerVars, powerCall
  <2>5. ASSUME NEW cuts \in BOOLEAN,
               Begin(t, [op |-> IF cuts THEN "reconnect" ELSE "set", value |-> Zero]),
               stopped' = IF cuts THEN FALSE ELSE stopped,
               lock' = t, pc' = [pc EXCEPT ![t] = "power"], UNCHANGED pset
        PROVE  PathInv'
    <3> DEFINE command1 == [op |-> IF cuts THEN "reconnect" ELSE "set", value |-> Zero]
    <3>1. command1 \in Commands
      BY <2>3
    <3> HIDE DEF command1
    <3> QED BY <2>2, <2>5, <3>1 DEF Begin, To, HandlerCore, command1
  <2> QED BY <2>1, <2>4, <2>5
<1>5. ASSUME NEW t \in Requesters, Take(t), UNCHANGED <<stopped, pset>> PROVE PowerTypeOK'
  BY <1>5 DEF Take, To
<1>6. ASSUME NEW t \in Requesters, PowerReturned(t) PROVE PathInv'
  <2>1. PowerTypeOK'
    BY <1>5, <1>6 DEF PowerReturned
  <2>2. job[t].op # "tick"
    BY <1>6 DEF PowerReturned, Conclude, HandlerCore
  <2>3. lock' = Free /\ default' = default
    BY <1>6, <2>2 DEF PowerReturned, Conclude
  <2> QED BY <2>1, <2>3, HandlerNamesAssumption
<1>7. ASSUME NEW t \in Requesters, CancelReturned(t) PROVE PathInv'
  BY <1>5, <1>7, HandlerNamesAssumption DEF CancelReturned
<1>8. ASSUME NEW t \in Requesters, InController(t) PROVE PathInv'
  <2>1. command[t].op # "reconnect" /\ command[t] \in Commands \cup {NoCommand} => command[t].value \in Values
    BY ValuesAssumption DEF Commands, NoCommand
  <2> QED BY <1>8, <2>1 DEF InController, PowerStep, Pass, Write, Fail, Refuse, Succeed, Deliver, To,
                      MovesPset, handlerVars, book
<1>9. ASSUME NEW t \in Requesters, NEW p \in WithDefault,
             Begin(t, [op |-> "set", value |-> DefaultPower[p]]),
             UNCHANGED <<stopped, pset, handlerVars>>
      PROVE  PathInv'
  <2> DEFINE order == [op |-> "set", value |-> DefaultPower[p]]
  <2>1. DefaultPower[p] \in Values
    BY ProgramsAssumption DEF WithDefault
  <2>2. order \in Commands
    BY <2>1 DEF Commands
  <2> HIDE DEF order
  <2> QED BY <1>9, <2>2 DEF Begin, To, handlerVars, book, order
<1>10. ASSUME NEW t \in Requesters, Take(t), UNCHANGED <<stopped, pset, handlerVars>> PROVE PathInv'
  BY <1>5, <1>10 DEF handlerVars, book
<1> QED BY <1>1, <1>2, <1>3, <1>4, <1>6, <1>7, <1>8, <1>9, <1>10 DEF AtThePath

\* What each step of the client does there.
LEMMA StepsAtThePath ==
    ASSUME OnceInv, AssignmentInv, [ClientNext]_everything
    PROVE  AtThePath
<1>1. ASSUME NEW t \in Requesters, ExecutionStep(t) PROVE AtThePath
  <2>1. CASE CallHandler(t)
    <3>1. /\ at[t] = "call" /\ UNCHANGED todo
          /\ HandleControl(t, frame[t].on, ControlOf[frame[t].on], "open")
      BY <2>1 DEF CallHandler, Stands
    <3>2. frame[t].on \in Mrids
      BY <3>1, InHandNow DEF InHand, Before
    <3> QED BY <3>1, <3>2, Zenon DEF AtThePath
  <2>2. CASE HandlerReturned(t)
    BY <2>2 DEF HandlerReturned, AtThePath
  <2>3. CASE SweepHandler(t)
    BY <2>3 DEF SweepHandler, AtThePath
  <2>4. CASE SweepCancelled(t)
    BY <2>4 DEF SweepCancelled, AtThePath
  <2>5. CASE \/ SupersededReported(t) \/ LossReported(t) \/ ReceivedReported(t)
             \/ StartedReported(t) \/ CompletedReported(t)
             \/ SweepModes(t) \/ SweptModeReported(t) \/ SweepScheduled(t)
             \/ SweptControlReported(t)
    <3>1. UNCHANGED allVars
      BY <2>5 DEF SupersededReported, LossReported, ReceivedReported, StartedReported,
                  CompletedReported, SweepModes, SweptModeReported, SweepScheduled,
                  SweptControlReported
    <3> QED BY <3>1 DEF AtThePath
  <2> QED BY <1>1, <2>1, <2>2, <2>3, <2>4, <2>5 DEF ExecutionStep
<1>2. CASE SchedulerStep
  <2>1. UNCHANGED allVars
    BY <1>2 DEF SchedulerStep, Tick, RunScheduled
  <2> QED BY <2>1 DEF AtThePath
<1>3. CASE PollerStep
  <2>1. CASE Fetched
    <3>1. UNCHANGED allVars \/ CheckDefaultControl
      BY <2>1 DEF Fetched
    <3>2. ASSUME NEW p \in Highest, DefaultWanted(p),
                 Begin(Poller, [op |-> "set", value |-> DefaultPower[p]]),
                 UNCHANGED <<stopped, pset, handlerVars>>
          PROVE  AtThePath
      <4>1. p \in Programs
        BY <3>2, TrackedProgramsArePrograms DEF Highest
      <4>2. p \in WithDefault
        BY <3>2, <4>1 DEF DefaultWanted, WithDefault
      <4> QED BY <3>2, <4>2, TasksAre DEF AtThePath
    <3>3. CheckDefaultControl => AtThePath
      BY <3>2 DEF CheckDefaultControl, AtThePath
    <3> QED BY <3>1, <3>3, Zenon DEF AtThePath
  <2>2. CASE DefaultReturned
    BY <2>2, TasksAre DEF DefaultReturned, Stands, AtThePath
  <2>3. CASE CancelCall
    BY <2>3, TasksAre DEF CancelCall, AtThePath
  <2>4. CASE CancelCallReturned
    BY <2>4, TasksAre DEF CancelCallReturned, AtThePath
  <2>5. CASE \/ StartRound \/ EndRound \/ PollProgram \/ ProcessNext \/ FutureReported
             \/ ExpiryReported \/ CancelReported \/ RetryNext \/ Retried
    <3>1. UNCHANGED allVars
      BY <2>5 DEF StartRound, EndRound, PollProgram, ProcessNext, FutureReported, ExpiryReported,
                  CancelReported, RetryNext, Retried
    <3> QED BY <3>1 DEF AtThePath
  <2> QED BY <1>3, <2>1, <2>2, <2>3, <2>4, <2>5 DEF PollerStep
<1>4. CASE FsaStep
  <2>1. CASE PollFsa \/ ProcessFsaPrograms \/ HandleFsaRemoved \/ FsaPolled
    BY <2>1, Zenon DEF PollFsa, ProcessFsaPrograms, HandleFsaRemoved, FsaPolled, AtThePath
  <2>2. CASE UntrackProgram \/ CancelNext \/ UntrackReported
    BY <2>2, Zenon DEF UntrackProgram, CancelNext, UntrackReported, AtThePath
  <2> QED BY <1>4, <2>1, <2>2 DEF FsaStep
<1>5. CASE Surroundings
  BY <1>5 DEF Surroundings, ControllerStep, ServerStep, FsaChanges, AdvanceTime, LocalStop,
              everything, AtThePath
<1> QED BY <1>1, <1>2, <1>3, <1>4, <1>5 DEF ClientNext, Surroundings

-----------------------------------------------------------------------------
(***************************************************************************)
(* What has been processed is tracked, and what a default control is of.   *)
(***************************************************************************)
\* The awaits of a task that is at work on a control of its own.
Engaged == InHand \cup {"future", "expired"}

\* A control that is marked processed, or at work on, has an entry in _tracked_controls; one
\* whose cancellation was seen was processed before.
SeenInv ==
    /\ \A c \in processed : status[c] # "untracked"
    /\ \A t \in Requesters : at[t] \in Engaged => status[frame[t].on] # "untracked"
    /\ cancelledSeen \subseteq processed
    /\ activeDefault \in Programs \cup {None}
    /\ at[Poller] = "default" => frame[Poller].other \in WithDefault

\* An entry of _tracked_controls is never removed.
StaysTracked == \A c \in Mrids : status[c] # "untracked" => status'[c] # "untracked"

\* What one step of a task may do to that.
SeenStep(t) ==
    /\ Others(t) /\ StaysTracked
    /\ \/ processed' = processed
       \/ t \in Requesters /\ at[t] \in Engaged /\ processed' = processed \cup {frame[t].on}
    /\ t \in Requesters /\ at'[t] \in Engaged => status'[frame'[t].on] # "untracked"
    /\ cancelledSeen' \subseteq cancelledSeen \cup processed
    /\ \/ activeDefault' \in {activeDefault, None}
       \/ t = Poller /\ at[t] = "default" /\ activeDefault' = frame[t].other
    /\ t = Poller /\ at'[t] = "default" => frame'[t].other \in WithDefault

\* Such a step preserves the invariant.
LEMMA SeenKept ==
    ASSUME OnceInv, SeenInv, NEW t \in Tasks, SeenStep(t)
    PROVE  SeenInv'
<1>1. \A u \in Requesters : at[u] \in Engaged => frame[u].on \in Mrids /\ status[frame[u].on] # "untracked"
  BY DEF SeenInv, OnceInv, Owns, Engaged
<1>2. \A c \in processed' : status'[c] # "untracked"
  <2>1. processed \subseteq Mrids
    BY DEF OnceInv, ClientTypes
  <2> QED BY <1>1, <2>1 DEF SeenStep, StaysTracked, SeenInv
<1>3. ASSUME NEW u \in Requesters, at'[u] \in Engaged PROVE status'[frame'[u].on] # "untracked"
  BY <1>1, <1>3, TasksAre DEF SeenStep, Others, StaysTracked
<1>4. cancelledSeen' \subseteq processed'
  BY DEF SeenStep, SeenInv
<1>5. activeDefault' \in Programs \cup {None}
  BY DEF SeenStep, SeenInv, WithDefault
<1>6. at'[Poller] = "default" => frame'[Poller].other \in WithDefault
  BY TasksAre DEF SeenStep, SeenInv, Others
<1> QED BY <1>2, <1>3, <1>4, <1>5, <1>6 DEF SeenInv

\* A status that is set is not taken away.
LEMMA Becoming ==
    ASSUME ClientTypes, NEW c, NEW s, s # "untracked", Become(c, s)
    PROVE  StaysTracked /\ (c \in Mrids => status'[c] # "untracked")
BY DEF ClientTypes, Become, StaysTracked

\* A task goes on with the control it is at work on.
LEMMA GoesOnTracked ==
    ASSUME OnceInv, SeenInv, NEW t \in Requesters, at[t] \in Engaged, Others(t), StaysTracked,
           frame'[t].on = frame[t].on, at'[t] # "default",
           UNCHANGED <<processed, cancelledSeen>>, activeDefault' \in {activeDefault, None}
    PROVE  SeenStep(t)
<1>1. frame[t].on \in Mrids /\ status[frame[t].on] # "untracked"
  BY DEF OnceInv, Owns, SeenInv, Engaged
<1> QED BY <1>1 DEF SeenStep, StaysTracked

\* A task leaves the control it is at work on, which the poll task then marks processed.
LEMMA LeavesTracked ==
    ASSUME OnceInv, NEW t \in Requesters, at[t] \in Engaged, Leave(t), StaysTracked,
           UNCHANGED cancelledSeen, activeDefault' \in {activeDefault, None}
    PROVE  SeenStep(t)
<1>1. frame[t].on \in Mrids /\ ClientTypes
  BY DEF OnceInv, Owns, Engaged
<1>2. at'[t] = "next" /\ Others(t)
  BY <1>1, Leaving
<1>3. processed' = processed \/ processed' = processed \cup {frame[t].on}
  BY DEF Leave
<1> QED BY <1>2, <1>3 DEF SeenStep, Engaged, InHand, Before, Beyond

\* A task has no control that it is at work on.
LEMMA ElsewhereTracked ==
    ASSUME NEW t \in Tasks, Others(t), at'[t] \notin Engaged \cup {"default"}, StaysTracked,
           UNCHANGED processed, cancelledSeen' \subseteq cancelledSeen \cup processed,
           activeDefault' \in {activeDefault, None}
    PROVE  SeenStep(t)
BY DEF SeenStep

\* A task takes a control in hand that has, or is given, an entry.
LEMMA TakesTracked ==
    ASSUME NEW t \in Requesters, NEW c \in Mrids, NEW st, Takes(t, c, st),
           st[c] # "untracked", \A d \in Mrids : st[d] = status[d] \/ st[d] # "untracked",
           UNCHANGED <<processed, cancelledSeen, activeDefault>>
    PROVE  SeenStep(t)
<1>1. StaysTracked /\ status'[c] # "untracked"
  BY DEF Takes, StaysTracked
<1> QED BY <1>1 DEF SeenStep, Takes

\* A task that stands elsewhere, or goes on with its control: what the label says of the others.
LEMMA GoingOnly ==
    ASSUME ClientTypes, NEW t \in Tasks, NEW l, GoOn(t, l),
           UNCHANGED frame \/ Forget(t) \/ (\E c : Enter(t, c))
               \/ \A u \in Tasks \ {t} : frame'[u] = frame[u]
    PROVE  at'[t] = l /\ Others(t)
<1>1. at' = [at EXCEPT ![t] = l]
  BY DEF GoOn
<1>2. at'[t] = l /\ \A u \in Tasks \ {t} : at'[u] = at[u]
  BY <1>1 DEF ClientTypes
<1>3. \A u \in Tasks \ {t} : frame'[u] = frame[u]
  BY DEF ClientTypes, Forget, Enter
<1> QED BY <1>2, <1>3 DEF Others

\* Each step of _execute_control.
LEMMA ExecutionsKeepTrack ==
    ASSUME OnceInv, SuccessInv, SeenInv, NEW t \in Requesters, ExecutionStep(t)
    PROVE  SeenStep(t)
<1> USE DEF Stands
<1>1. t \in Tasks /\ ClientTypes
  BY TasksAre DEF OnceInv
<1>2. InHand \subseteq Engaged /\ "default" \notin InHand
  BY DEF Engaged, InHand, Before, Beyond
<1>3. ASSUME at[t] \in InHand PROVE frame[t].on \in Mrids /\ status[frame[t].on] # "untracked"
  BY <1>2, <1>3, InHandNow DEF SeenInv, Engaged
<1>4. UNCHANGED status => StaysTracked
  BY DEF StaysTracked
<1>5. CASE SupersededReported(t)
  <2>1. at[t] \in InHand /\ UNCHANGED <<processed, cancelledSeen, activeDefault>>
    BY <1>5 DEF SupersededReported, InHand, Before, lists, inForce
  <2>2. PICK c \in Mrids : c = frame[t].on /\ status[c] # "untracked"
    BY <1>3, <2>1
  <2>3. frame[t].modes \in SUBSET Modes /\ status \in [Mrids -> ClientStatuses]
    BY <1>1 DEF ClientTypes, Frames
  <2>4. Takes(t, c, status)
    BY <1>1, <1>5, <2>2, <2>3, Resolving DEF SupersededReported
  <2> QED BY <2>1, <2>2, <2>4, TakesTracked
<1>6. CASE LossReported(t)
  <2>1. at[t] \in InHand /\ Leave(t) /\ UNCHANGED <<cancelledSeen, activeDefault, status>>
    BY <1>6 DEF LossReported, InHand, Beyond, inForce
  <2> QED BY <1>2, <1>4, <2>1, LeavesTracked
<1>7. CASE ReceivedReported(t)
  <2>1. /\ at[t] \in InHand /\ UNCHANGED <<processed, cancelledSeen, frame>>
        /\ activeDefault' = None
        /\ Become(frame[t].on, "active") /\ GoOn(t, "started")
    BY <1>7 DEF ReceivedReported, InHand, Before, lists
  <2>2. Others(t) /\ at'[t] = "started" /\ StaysTracked
    BY <1>1, <2>1, GoingOnly, Becoming
  <2> QED BY <1>2, <2>1, <2>2, GoesOnTracked
<1>8. CASE StartedReported(t)
  <2>1. /\ at[t] \in InHand /\ UNCHANGED <<processed, cancelledSeen, frame, activeDefault, status>>
        /\ GoOn(t, "call")
    BY <1>8 DEF StartedReported, InHand, Before, lists, inForce
  <2>2. Others(t) /\ at'[t] = "call"
    BY <1>1, <2>1, GoingOnly
  <2> QED BY <1>2, <1>4, <2>1, <2>2, GoesOnTracked
<1>9. ASSUME at[t] \in {"call", "handling"}, NEW outcome \in {"completed", "failed"},
             AfterHandling(t, outcome)
      PROVE  SeenStep(t)
  <2>1. at[t] \in InHand /\ UNCHANGED <<cancelledSeen, activeDefault>>
    BY <1>9 DEF AfterHandling, InHand, Before, Beyond
  <2>2. StaysTracked
    BY <1>1, <1>9, Becoming DEF AfterHandling
  <2>3. CASE outcome = "completed"
    <3>1. GoOn(t, "completed") /\ UNCHANGED <<processed, frame>>
      BY <1>9, <2>3 DEF AfterHandling
    <3>2. Others(t) /\ at'[t] = "completed"
      BY <1>1, <3>1, GoingOnly
    <3> QED BY <1>2, <2>1, <2>2, <3>1, <3>2, GoesOnTracked
  <2>4. CASE outcome # "completed"
    <3>1. Leave(t)
      BY <1>9, <2>4 DEF AfterHandling
    <3> QED BY <1>2, <2>1, <2>2, <3>1, LeavesTracked
  <2> QED BY <2>3, <2>4
<1>10. CASE CallHandler(t)
  <2>1. at[t] = "call" /\ HandleControl(t, frame[t].on, ControlOf[frame[t].on], "open")
    BY <1>10 DEF CallHandler
  <2>2. frame[t].on \in Mrids /\ at[t] \in InHand
    BY <1>3, <2>1 DEF InHand, Before
  <2>3. CASE pc'[t] = "power"
    <3>1. GoOn(t, "handling") /\ UNCHANGED <<processed, cancelledSeen, frame, activeDefault, status>>
      BY <1>10, <2>3 DEF CallHandler, lists, inForce
    <3>2. Others(t) /\ at'[t] = "handling"
      BY <1>1, <3>1, GoingOnly
    <3> QED BY <1>2, <1>4, <2>2, <3>1, <3>2, GoesOnTracked
  <2>4. CASE pc'[t] # "power"
    <3>1. events'[Len(events')].status \in {"completed", "failed"}
      BY <2>1, <2>2, <2>4, HandlerHandles DEF SuccessInv
    <3> QED BY <1>9, <1>10, <2>1, <2>4, <3>1 DEF CallHandler
  <2> QED BY <2>3, <2>4
<1>11. CASE HandlerReturned(t)
  <2>1. at[t] = "handling" /\ PowerReturned(t) /\ AfterHandling(t, events'[job[t].event].status)
    BY <1>11 DEF HandlerReturned
  <2>2. events'[job[t].event].status \in {"completed", "failed"}
    BY <2>1, HandlerAnswers DEF SuccessInv
  <2> QED BY <1>9, <2>1, <2>2
<1>12. CASE CompletedReported(t)
  <2>1. /\ at[t] \in InHand /\ UNCHANGED <<cancelledSeen, activeDefault, status>>
        /\ \/ /\ GoOn(t, "sweep") /\ UNCHANGED processed
              /\ frame' = [frame EXCEPT ![t].modes = {m \in Modes : byMode'[m] # None}]
           \/ Leave(t)
    BY <1>12, Zenon DEF CompletedReported, InHand, Beyond
  <2>2. CASE Leave(t)
    BY <1>2, <1>4, <2>1, <2>2, LeavesTracked
  <2>3. CASE ~Leave(t)
    <3>1. frame'[t].on = frame[t].on /\ \A u \in Tasks \ {t} : frame'[u] = frame[u]
      BY <1>1, <2>1, <2>3 DEF ClientTypes, Frames
    <3>2. Others(t) /\ at'[t] = "sweep"
      BY <1>1, <2>1, <2>3, <3>1, GoingOnly
    <3> QED BY <1>2, <1>4, <2>1, <2>3, <3>1, <3>2, GoesOnTracked
  <2> QED BY <2>2, <2>3
<1>13. ASSUME at[t] \in InHand, SweepRaises(t),
              UNCHANGED <<processed, cancelledSeen, activeDefault>>
       PROVE  SeenStep(t)
  <2>1. Become(frame[t].on, "failed") /\ Enter(t, frame[t].on) /\ GoOn(t, "aborted")
    BY <1>13 DEF SweepRaises
  <2>2. Others(t) /\ at'[t] = "aborted" /\ StaysTracked
    BY <1>1, <2>1, GoingOnly, Becoming
  <2>3. frame'[t].on = frame[t].on
    BY <1>1, <2>1 DEF Enter, NoFrame, ClientTypes
  <2> QED BY <1>2, <1>13, <2>2, <2>3, GoesOnTracked
<1>14. CASE SweepModes(t)
  <2>1. at[t] \in InHand /\ UNCHANGED <<processed, cancelledSeen, activeDefault>>
    <3>1. at[t] = "sweep" /\ UNCHANGED lists /\ UNCHANGED inForce
      BY <1>14, Zenon DEF SweepModes
    <3> QED BY <3>1 DEF InHand, Beyond, lists, inForce
  <2>2. \/ SweepRaises(t)
        \/ /\ GoOn(t, "sweepScheduled") /\ UNCHANGED status
           /\ frame' = [frame EXCEPT ![t].modes = {}, ![t].sweep = TrackedControls,
                                     ![t].seen = Cardinality(TrackedControls)]
        \/ \E m \in frame[t].modes :
              /\ Become(byMode[m], "superseded") /\ GoOn(t, "sweptMode")
              /\ frame' = [frame EXCEPT ![t].modes = @ \ {m}, ![t].mode = m, ![t].other = byMode[m]]
    BY <1>14, Zenon DEF SweepModes
  <2>3. CASE /\ GoOn(t, "sweepScheduled") /\ UNCHANGED status
             /\ frame' = [frame EXCEPT ![t].modes = {}, ![t].sweep = TrackedControls,
                                       ![t].seen = Cardinality(TrackedControls)]
    <3>1. frame'[t].on = frame[t].on /\ \A u \in Tasks \ {t} : frame'[u] = frame[u]
      BY <1>1, <2>3 DEF ClientTypes, Frames
    <3>2. Others(t) /\ at'[t] = "sweepScheduled"
      BY <1>1, <2>3, <3>1, GoingOnly
    <3> QED BY <1>2, <1>4, <2>1, <2>3, <3>1, <3>2, GoesOnTracked
  <2>4. ASSUME NEW m \in frame[t].modes,
               Become(byMode[m], "superseded"), GoOn(t, "sweptMode"),
               frame' = [frame EXCEPT ![t].modes = @ \ {m}, ![t].mode = m, ![t].other = byMode[m]]
        PROVE  SeenStep(t)
    <3>1. frame'[t].on = frame[t].on /\ \A u \in Tasks \ {t} : frame'[u] = frame[u]
      BY <1>1, <2>4 DEF ClientTypes, Frames
    <3>2. Others(t) /\ at'[t] = "sweptMode" /\ StaysTracked
      BY <1>1, <2>4, <3>1, GoingOnly, Becoming
    <3> QED BY <1>2, <2>1, <3>1, <3>2, GoesOnTracked
  <2>5. SweepRaises(t) => SeenStep(t)
    BY <1>13, <2>1
  <2> QED BY <2>2, <2>3, <2>4, <2>5, Zenon
<1>15. CASE SweptModeReported(t)
  <2>1. /\ at[t] \in InHand /\ UNCHANGED <<processed, cancelledSeen, activeDefault>>
        /\ SweepRaises(t) \/ (GoOn(t, "sweep") /\ UNCHANGED <<status, frame>>)
    BY <1>15 DEF SweptModeReported, InHand, Beyond, lists
  <2>2. CASE GoOn(t, "sweep") /\ UNCHANGED <<status, frame>>
    <3>1. Others(t) /\ at'[t] = "sweep"
      BY <1>1, <2>2, GoingOnly
    <3> QED BY <1>2, <1>4, <2>1, <2>2, <3>1, GoesOnTracked
  <2> QED BY <1>13, <2>1, <2>2
<1>16. CASE SweepScheduled(t)
  <2>1. at[t] \in InHand /\ UNCHANGED cancelledSeen
    BY <1>16 DEF SweepScheduled, InHand, Beyond
  <2>2. \/ SweepRaises(t) /\ UNCHANGED <<activeDefault, processed>>
        \/ /\ GoOn(t, "sweptControl") /\ UNCHANGED <<activeDefault, processed>>
           /\ \E c \in frame[t].sweep :
                 /\ Become(c, "superseded")
                 /\ frame' = [frame EXCEPT ![t].sweep = @ \ {c}, ![t].other = c]
        \/ /\ activeDefault' = None /\ UNCHANGED <<processed, status>> /\ GoOn(t, "sweepHandler")
           /\ frame' = [frame EXCEPT ![t].sweep = {}, ![t].other = events[active].id]
        \/ activeDefault' = None /\ UNCHANGED status /\ Leave(t)
    BY <1>16, Zenon DEF SweepScheduled
  <2>3. CASE SweepRaises(t) /\ UNCHANGED <<activeDefault, processed>>
    BY <1>13, <2>1, <2>3
  <2>4. CASE /\ GoOn(t, "sweptControl") /\ UNCHANGED <<activeDefault, processed>>
             /\ \E c \in frame[t].sweep :
                   /\ Become(c, "superseded")
                   /\ frame' = [frame EXCEPT ![t].sweep = @ \ {c}, ![t].other = c]
    <3>1. PICK c \in frame[t].sweep :
                   /\ Become(c, "superseded")
                   /\ frame' = [frame EXCEPT ![t].sweep = @ \ {c}, ![t].other = c]
      BY <2>4
    <3>2. frame'[t].on = frame[t].on /\ \A u \in Tasks \ {t} : frame'[u] = frame[u]
      BY <1>1, <3>1 DEF ClientTypes, Frames
    <3>3. Others(t) /\ at'[t] = "sweptControl" /\ StaysTracked
      BY <1>1, <2>4, <3>1, <3>2, GoingOnly, Becoming
    <3> QED BY <1>2, <2>1, <2>4, <3>2, <3>3, GoesOnTracked
  <2>5. CASE /\ activeDefault' = None /\ UNCHANGED <<processed, status>> /\ GoOn(t, "sweepHandler")
             /\ frame' = [frame EXCEPT ![t].sweep = {}, ![t].other = events[active].id]
    <3>1. frame'[t].on = frame[t].on /\ \A u \in Tasks \ {t} : frame'[u] = frame[u]
      BY <1>1, <2>5 DEF ClientTypes, Frames
    <3>2. Others(t) /\ at'[t] = "sweepHandler"
      BY <1>1, <2>5, <3>1, GoingOnly
    <3> QED BY <1>2, <1>4, <2>1, <2>5, <3>1, <3>2, GoesOnTracked
  <2>6. CASE activeDefault' = None /\ UNCHANGED status /\ Leave(t)
    BY <1>2, <1>4, <2>1, <2>6, LeavesTracked
  <2> QED BY <2>2, <2>3, <2>4, <2>5, <2>6
<1>17. CASE SweptControlReported(t)
  <2>1. /\ at[t] \in InHand /\ GoOn(t, "sweepScheduled")
        /\ UNCHANGED <<processed, cancelledSeen, activeDefault, status, frame>>
    BY <1>17 DEF SweptControlReported, InHand, Beyond, lists, inForce
  <2>2. Others(t) /\ at'[t] = "sweepScheduled"
    BY <1>1, <2>1, GoingOnly
  <2> QED BY <1>2, <1>4, <2>1, <2>2, GoesOnTracked
<1>18. CASE SweepHandler(t) \/ SweepCancelled(t)
  <2>1. /\ at[t] \in InHand /\ UNCHANGED <<cancelledSeen, activeDefault, status>>
        /\ Leave(t) \/ (GoOn(t, "sweepCancelling") /\ UNCHANGED <<frame, processed>>)
    BY <1>18 DEF SweepHandler, SweepCancelled, InHand, Beyond, inForce
  <2>2. CASE Leave(t)
    BY <1>2, <1>4, <2>1, <2>2, LeavesTracked
  <2>3. CASE GoOn(t, "sweepCancelling") /\ UNCHANGED <<frame, processed>>
    <3>1. Others(t) /\ at'[t] = "sweepCancelling"
      BY <1>1, <2>3, GoingOnly
    <3> QED BY <1>2, <1>4, <2>1, <2>3, <3>1, GoesOnTracked
  <2> QED BY <2>1, <2>2, <2>3
<1>19. {"started", "call", "handling", "completed", "sweep", "sweptMode", "sweepScheduled",
        "sweptControl", "sweepHandler", "sweepCancelling", "aborted"} \subseteq InHand
  BY DEF InHand, Before, Beyond
<1> QED BY <1>5, <1>6, <1>7, <1>8, <1>10, <1>11, <1>12, <1>14, <1>15, <1>16, <1>17, <1>18
        DEF ExecutionStep

\* Each step of the scheduler task and of the poll task by themselves.
LEMMA SchedulerKeepsTrack ==
    ASSUME OnceInv, SeenInv, SchedulerStep
    PROVE  SeenStep(Scheduler)
<1> USE DEF Stands
<1>1. Scheduler \in Tasks /\ Scheduler \in Requesters /\ ClientTypes
  BY TasksAre DEF OnceInv
<1>2. UNCHANGED status => StaysTracked
  BY DEF StaysTracked
<1>3. ASSUME NEW l \in {"next", "idle"}, GoOn(Scheduler, l),
             UNCHANGED <<status, frame, processed, cancelledSeen, activeDefault>>
      PROVE  SeenStep(Scheduler)
  <2>1. Others(Scheduler) /\ at'[Scheduler] = l
    BY <1>1, <1>3, GoingOnly
  <2> QED BY <1>1, <1>2, <1>3, <2>1, ElsewhereTracked DEF Engaged, InHand, Before, Beyond
<1>4. CASE Tick
  BY <1>3, <1>4 DEF Tick, lists, inForce
<1>5. CASE RunScheduled
  <2>1. UNCHANGED <<processed, cancelledSeen, activeDefault>>
    <3>1. UNCHANGED lists /\ UNCHANGED inForce
      BY <1>5, Zenon DEF RunScheduled
    <3> QED BY <3>1 DEF lists, inForce
  <2>2. \/ GoOn(Scheduler, "idle") /\ UNCHANGED <<status, frame>>
        \/ \E c \in left[Scheduler] : status[c] = "scheduled" /\ ExecuteControl(Scheduler, c, status)
    BY <1>5, Zenon DEF RunScheduled
  <2>3. ASSUME NEW c \in left[Scheduler], status[c] = "scheduled",
               ExecuteControl(Scheduler, c, status)
        PROVE  SeenStep(Scheduler)
    <3>1. c \in Mrids /\ status \in [Mrids -> ClientStatuses]
      BY <1>1 DEF ClientTypes
    <3>2. Takes(Scheduler, c, status)
      BY <1>1, <2>3, <3>1, BeginningToExecute
    <3> QED BY <1>1, <2>1, <2>3, <3>1, <3>2, TakesTracked
  <2> QED BY <1>3, <2>1, <2>2, <2>3
<1> QED BY <1>4, <1>5 DEF SchedulerStep

LEMMA PollerKeepsTrack ==
    ASSUME OnceInv, AssignmentInv, SeenInv, PollerStep
    PROVE  SeenStep(Poller)
<1> USE DEF Stands
<1>1. Poller \in Tasks /\ Poller \in Requesters /\ ClientTypes
  BY TasksAre DEF OnceInv
<1>2. UNCHANGED status => StaysTracked
  BY DEF StaysTracked
<1>3. ASSUME NEW l \in PlainPoints \cup {"retrying"}, l # "default", GoOn(Poller, l), StaysTracked,
             UNCHANGED frame \/ Forget(Poller) \/ (\E c : Enter(Poller, c))
                 \/ \A u \in Tasks \ {Poller} : frame'[u] = frame[u],
             UNCHANGED processed, cancelledSeen' \subseteq cancelledSeen \cup processed,
             activeDefault' \in {activeDefault, None}
      PROVE  SeenStep(Poller)
  <2>1. Others(Poller) /\ at'[Poller] = l
    BY <1>1, <1>3, GoingOnly
  <2>2. l \notin Engaged \cup {"default"}
    BY <1>3 DEF Engaged, InHand, Before, Beyond, PlainPoints
  <2> QED BY <1>1, <1>3, <2>1, <2>2, ElsewhereTracked
<1>4. CASE StartRound \/ EndRound
  <2>1. /\ UNCHANGED <<processed, cancelledSeen, activeDefault, status, frame>>
        /\ GoOn(Poller, "round") \/ GoOn(Poller, "idle") \/ GoOn(Poller, "retry")
    BY <1>4 DEF StartRound, EndRound, lists, inForce
  <2> QED BY <1>2, <1>3, <2>1 DEF PlainPoints
<1>5. CASE PollProgram
  <2>1. /\ UNCHANGED <<processed, cancelledSeen, activeDefault, status>>
        /\ GoOn(Poller, "get") /\ \E p \in programs : frame' = [frame EXCEPT ![Poller].other = p]
    BY <1>5 DEF PollProgram, lists, inForce
  <2>2. \A u \in Tasks \ {Poller} : frame'[u] = frame[u]
    BY <1>1, <2>1 DEF ClientTypes
  <2> QED BY <1>2, <1>3, <2>1, <2>2 DEF PlainPoints
<1>6. CASE Fetched
  <2>1. UNCHANGED <<processed, cancelledSeen, activeDefault, status>>
    BY <1>6 DEF Fetched, lists, inForce
  <2>2. \/ (GoOn(Poller, "round") \/ GoOn(Poller, "next")) /\ Forget(Poller)
        \/ CheckDefaultControl
    BY <1>6, Zenon DEF Fetched
  <2>3. ASSUME NEW p \in Highest, DefaultWanted(p),
               frame' = [frame EXCEPT ![Poller].other = p], GoOn(Poller, "default")
        PROVE  SeenStep(Poller)
    <3>1. p \in WithDefault
      BY <2>3, TrackedProgramsArePrograms DEF Highest, DefaultWanted, WithDefault
    <3>2. frame'[Poller].other = p /\ \A u \in Tasks \ {Poller} : frame'[u] = frame[u]
      BY <1>1, <2>3 DEF ClientTypes, Frames
    <3>3. Others(Poller) /\ at'[Poller] = "default"
      BY <1>1, <2>3, <3>2, GoingOnly
    <3> QED BY <1>1, <1>2, <2>1, <3>1, <3>2, <3>3 DEF SeenStep, Engaged, InHand, Before, Beyond
  <2>4. \/ GoOn(Poller, "round") /\ Forget(Poller)
        \/ \E p \in Highest : /\ DefaultWanted(p) /\ GoOn(Poller, "default")
                             /\ frame' = [frame EXCEPT ![Poller].other = p]
        \/ GoOn(Poller, "next") /\ Forget(Poller)
    BY <2>2, Zenon DEF CheckDefaultControl
  <2> QED BY <1>2, <1>3, <2>1, <2>3, <2>4 DEF PlainPoints
<1>7. CASE DefaultReturned
  <2>1. /\ UNCHANGED <<processed, cancelledSeen, status>> /\ at[Poller] = "default"
        /\ activeDefault' \in {activeDefault, frame[Poller].other}
        /\ GoOn(Poller, "round") /\ Forget(Poller)
    BY <1>7 DEF DefaultReturned, lists
  <2>2. Others(Poller) /\ at'[Poller] = "round"
    BY <1>1, <2>1, GoingOnly
  <2> QED BY <1>1, <1>2, <2>1, <2>2 DEF SeenStep, Engaged, InHand, Before, Beyond
<1>8. CASE ProcessNext
  <2>1. UNCHANGED <<processed, activeDefault>>
    BY <1>8, Zenon DEF ProcessNext, inForce
  <2>2. \/ GoOn(Poller, "round") /\ UNCHANGED <<status, cancelledSeen, frame>>
        \/ \E c \in DOMAIN batch : ProcessKnown(c) \/ ProcessNew(c)
    BY <1>8, Zenon DEF ProcessNext
  <2>3. ASSUME NEW c \in DOMAIN batch, ProcessKnown(c) PROVE SeenStep(Poller)
    <3>1. /\ cancelledSeen' \subseteq cancelledSeen \cup processed
          /\ Enter(Poller, c) /\ GoOn(Poller, "cancel") /\ UNCHANGED status
      BY <2>3 DEF ProcessKnown
    <3> QED BY <1>2, <1>3, <2>1, <3>1 DEF PlainPoints
  <2>4. ASSUME NEW c \in DOMAIN batch, ProcessNew(c) PROVE SeenStep(Poller)
    <3>1. c \in Mrids /\ UNCHANGED cancelledSeen
      BY <1>1, <2>4 DEF ProcessNew, ClientTypes
    <3>2. CASE ExecuteControl(Poller, c, [status EXCEPT ![c] = "pending"])
      <4> DEFINE st == [status EXCEPT ![c] = "pending"]
      <4>1. /\ st \in [Mrids -> ClientStatuses] /\ st[c] # "untracked"
            /\ \A d \in Mrids : st[d] = status[d] \/ st[d] # "untracked"
        BY <1>1, <3>1 DEF ClientTypes, ClientStatuses, Statuses
      <4>2. ExecuteControl(Poller, c, st)
        BY <3>2
      <4> HIDE DEF st
      <4>3. Takes(Poller, c, st)
        BY <1>1, <3>1, <4>1, <4>2, BeginningToExecute
      <4> QED BY <1>1, <2>1, <3>1, <4>1, <4>3, TakesTracked
    <3>3. ASSUME NEW l \in {"expired", "future"}, NEW s \in {"cancelled", "pending"},
                 Enter(Poller, c), Become(c, s), GoOn(Poller, l)
          PROVE  SeenStep(Poller)
      <4>1. Others(Poller) /\ at'[Poller] = l /\ StaysTracked /\ status'[c] # "untracked"
        BY <1>1, <3>1, <3>3, GoingOnly, Becoming
      <4>2. frame'[Poller].on = c
        BY <1>1, <3>3 DEF Enter, NoFrame, ClientTypes
      <4> QED BY <2>1, <3>1, <3>3, <4>1, <4>2 DEF SeenStep
    <3> QED BY <2>4, <3>2, <3>3 DEF ProcessNew
  <2> QED BY <1>2, <1>3, <2>1, <2>2, <2>3, <2>4 DEF PlainPoints
<1>9. CASE FutureReported \/ ExpiryReported
  <2>1. /\ at[Poller] \in Engaged /\ Leave(Poller) /\ UNCHANGED <<cancelledSeen, activeDefault>>
        /\ UNCHANGED status \/ Become(frame[Poller].on, "scheduled")
    BY <1>9 DEF FutureReported, ExpiryReported, Engaged, inForce
  <2>2. StaysTracked
    BY <1>1, <1>2, <2>1, Becoming
  <2> QED BY <1>1, <2>1, <2>2, LeavesTracked
<1>10. CASE CancelCall \/ CancelCallReturned
  <2>1. /\ UNCHANGED <<processed, cancelledSeen, activeDefault, frame>>
        /\ UNCHANGED status \/ Become(frame[Poller].on, "cancelled")
        /\ GoOn(Poller, "cancelling") \/ GoOn(Poller, "cancelled")
    BY <1>10 DEF CancelCall, CancelCallReturned, lists, inForce
  <2>2. StaysTracked
    BY <1>1, <1>2, <2>1, Becoming
  <2> QED BY <1>3, <2>1, <2>2 DEF PlainPoints
<1>11. CASE CancelReported \/ Retried
  <2>1. /\ UNCHANGED <<processed, cancelledSeen, activeDefault, status>> /\ Forget(Poller)
        /\ GoOn(Poller, "next") \/ GoOn(Poller, "retry")
    BY <1>11 DEF CancelReported, Retried, lists, inForce
  <2> QED BY <1>2, <1>3, <2>1 DEF PlainPoints
<1>12. CASE RetryNext
  <2>1. UNCHANGED <<processed, cancelledSeen, activeDefault, status>>
    BY <1>12, Zenon DEF RetryNext, lists, inForce
  <2>2. \/ GoOn(Poller, "idle") /\ UNCHANGED frame
        \/ /\ GoOn(Poller, "retrying")
           /\ \E c : frame' = [frame EXCEPT ![Poller].on = c, ![Poller].other = pending[c]]
    BY <1>12, Zenon DEF RetryNext
  <2>3. UNCHANGED frame \/ \A u \in Tasks \ {Poller} : frame'[u] = frame[u]
    BY <1>1, <2>2 DEF ClientTypes
  <2> QED BY <1>2, <1>3, <2>1, <2>2, <2>3 DEF PlainPoints
<1> QED BY <1>4, <1>5, <1>6, <1>7, <1>8, <1>9, <1>10, <1>11, <1>12 DEF PollerStep

\* The FSA task cancels controls, and does nothing else to them.
LEMMA FsaKeepsTrack ==
    ASSUME OnceInv, FsaStep
    PROVE  SeenStep(FsaTask)
<1>1. FsaTask \in Tasks /\ FsaTask \notin Requesters /\ ClientTypes
  BY TasksAre DEF OnceInv
<1>2. Others(FsaTask)
  BY FsaAside DEF Aside
<1>3. UNCHANGED <<processed, cancelledSeen, activeDefault>>
  <2>1. UNCHANGED lists /\ UNCHANGED inForce
    BY Zenon DEF FsaStep, PollFsa, ProcessFsaPrograms, HandleFsaRemoved, UntrackProgram, CancelNext,
                 UntrackReported, FsaPolled
  <2> QED BY <2>1 DEF lists, inForce
<1>4. UNCHANGED status \/ \E c : Become(c, "cancelled")
  BY Zenon DEF FsaStep, PollFsa, ProcessFsaPrograms, HandleFsaRemoved, UntrackProgram, CancelNext,
               UntrackReported, FsaPolled
<1>5. StaysTracked
  <2>1. ASSUME NEW c, Become(c, "cancelled") PROVE StaysTracked
    BY <1>1, <2>1, Becoming
  <2> QED BY <1>4, <2>1 DEF StaysTracked
<1> QED BY <1>1, <1>2, <1>3, <1>5, TasksAre DEF SeenStep

\* What the server lists and what the intervals have come to, and all that is seen of it.
WorldTypes ==
    /\ server \in [Mrids -> {"unlisted", "listed", "cancelled", "removed"}]
    /\ interval \in [Mrids -> Intervals]

TrackedInv == WorldTypes /\ SeenInv /\ PathInv

\* Only the server and the clock change what they have.
Moves ==
    /\ \/ server' = server
       \/ \E c \in Mrids : \E s \in {"listed", "cancelled", "removed"} :
              server' = [server EXCEPT ![c] = s]
    /\ \/ interval' = interval
       \/ \E c \in Mrids : \E s \in {"open", "past"} : interval' = [interval EXCEPT ![c] = s]

LEMMA WorldMoves == ASSUME [ClientNext]_everything PROVE Moves
<1>1. CASE UNCHANGED world
  BY <1>1 DEF Moves, world
<1>2. CASE ServerStep
  BY <1>2 DEF ServerStep, Moves
<1>3. CASE AdvanceTime
  BY <1>3 DEF AdvanceTime, Moves
<1>4. ASSUME NEW t \in Requesters, ExecutionStep(t) \/ ControllerStep(t)
      PROVE  UNCHANGED world
  BY <1>4, Zenon DEF ExecutionStep, ControllerStep, clientVars, SupersededReported, LossReported,
         ReceivedReported, StartedReported, CallHandler, HandlerReturned, AfterHandling,
         CompletedReported, SweepModes, SweptModeReported, SweepScheduled,
         SweptControlReported, SweepHandler, SweepCancelled
<1>5. CASE SchedulerStep \/ FsaStep
  <2>1. SchedulerStep => UNCHANGED world
    BY Zenon DEF SchedulerStep, Tick, RunScheduled
  <2>2. FsaStep => UNCHANGED world
    BY Zenon DEF FsaStep, PollFsa, ProcessFsaPrograms, HandleFsaRemoved, UntrackProgram, CancelNext,
                 UntrackReported, FsaPolled
  <2> QED BY <1>1, <1>5, <2>1, <2>2, Zenon
<1>6. CASE PollerStep
  <2>1. StartRound \/ EndRound \/ PollProgram \/ Fetched \/ DefaultReturned => UNCHANGED world
    BY Zenon DEF StartRound, EndRound, PollProgram, Fetched, DefaultReturned
  <2>2. ProcessNext \/ FutureReported \/ ExpiryReported => UNCHANGED world
    BY Zenon DEF ProcessNext, FutureReported, ExpiryReported
  <2>3. \/ CancelCall \/ CancelCallReturned \/ CancelReported \/ RetryNext \/ Retried
        => UNCHANGED world
    BY Zenon DEF CancelCall, CancelCallReturned, CancelReported, RetryNext, Retried
  <2> QED BY <1>1, <1>6, <2>1, <2>2, <2>3, Zenon DEF PollerStep
<1>7. CASE FsaChanges
  BY <1>7 DEF FsaChanges, Moves
<1>8. CASE LocalStop \/ UNCHANGED everything
  BY <1>1, <1>8, Zenon DEF LocalStop, everything, clientVars
<1> QED BY <1>1, <1>2, <1>3, <1>4, <1>5, <1>6, <1>7, <1>8 DEF ClientNext

LEMMA WorldKept ==
    ASSUME WorldTypes, [ClientNext]_everything
    PROVE  WorldTypes'
<1>1. Moves
  BY WorldMoves
<1>2. {"open", "past"} \subseteq Intervals
  BY DEF Intervals
<1> QED BY <1>1, <1>2 DEF Moves, WorldTypes

\* Every step of the client keeps what was seen.
LEMMA TrackedKept ==
    ASSUME OnceInv, SuccessInv, SuccessInv', AssignmentInv, TrackedInv, [ClientNext]_everything
    PROVE  TrackedInv'
<1>1. WorldTypes'
  BY WorldKept DEF TrackedInv
<1>2. PathInv'
  BY StepsAtThePath, PathKept DEF TrackedInv, SuccessInv
<1>3. ASSUME NEW t \in Requesters, ExecutionStep(t) PROVE SeenInv'
  BY <1>3, ExecutionsKeepTrack, SeenKept, TasksAre DEF TrackedInv
<1>4. ASSUME SchedulerStep \/ PollerStep \/ FsaStep PROVE SeenInv'
  <2>1. SeenInv /\ \E t \in Tasks : SeenStep(t)
    BY <1>4, SchedulerKeepsTrack, PollerKeepsTrack, FsaKeepsTrack, TasksAre DEF TrackedInv
  <2> QED BY <2>1, SeenKept
<1>5. ASSUME Surroundings PROVE SeenInv'
  <2>1. UNCHANGED status /\ UNCHANGED lists /\ UNCHANGED inForce /\ UNCHANGED control
    BY <1>5 DEF Surroundings, ControllerStep, ServerStep, FsaChanges, AdvanceTime, LocalStop,
                everything, clientVars
  <2>2. UNCHANGED <<status, processed, cancelledSeen, activeDefault, at, frame>>
    BY <2>1 DEF lists, inForce, control
  <2> QED BY <2>2 DEF TrackedInv, SeenInv
<1> QED BY <1>1, <1>2, <1>3, <1>4, <1>5 DEF TrackedInv, ClientNext, Surroundings

-----------------------------------------------------------------------------
(***************************************************************************)
(* The theorems.                                                           *)
(***************************************************************************)
ClientInv == OnceInv /\ SuccessInv /\ AssignmentInv

\* The invariant holds when the client starts.
LEMMA InitIsAccounted == ClientInit => ClientInv
<1> SUFFICES ASSUME ClientInit PROVE ClientInv
  OBVIOUS
<1>1. /\ at = [t \in Tasks |-> "idle"] /\ frame = [t \in Tasks |-> NoFrame]
      /\ left = [t \in Tasks |-> {}] /\ batch = << >>
      /\ status = [c \in Mrids |-> "untracked"] /\ processed = {}
      /\ byMode = [m \in Modes |-> None]
      /\ sent = [c \in Mrids |-> {}] /\ owed = [c \in Mrids |-> {}]
      /\ pending = [c \in Mrids |-> None] /\ handed = [c \in Mrids |-> 0]
      /\ trackedFsa = {} /\ programs = {} /\ fsaJob = NoFsaJob
  BY DEF ClientInit
<1>2. \A t \in Tasks : at[t] = "idle"
  BY <1>1
<1>3. "idle" \notin InHand \cup {"future", "expired", "retrying"} /\ "idle" \in Points
  BY PlainPointsArePlain DEF PlainPoints
<1>4. ClientTypes
  <2>1. "untracked" \in ClientStatuses
    BY DEF ClientStatuses
  <2>2. DOMAIN batch = {}
    BY <1>1
  <2> QED BY <1>1, <1>2, <1>3, <2>1, <2>2, FrameTypes, TasksAre DEF ClientTypes
<1>5. \A t \in Requesters : Owns(t)
  BY <1>2, <1>3, TasksAre DEF Owns, InHand, Before, Beyond
<1>6. \A c \in Mrids : Fresh(c) /\ Accounted(c)
  BY <1>1 DEF Fresh, Accounted, Said
<1>7. HandlerCore
  <2>1. HandlerInit
    BY DEF ClientInit
  <2>2. /\ lock = Free /\ events = << >> /\ active = 0 /\ tracked = << >>
        /\ pc = [t \in Requesters |-> "idle"] /\ job = [t \in Requesters |-> NoJob]
    BY <2>1 DEF HandlerInit
  <2>3. Stored(events, tracked)
    BY <2>2 DEF Stored
  <2>4. NoJob \in [op : Ops \cup {"cancel", "none"}, event : Int]
    BY DEF NoJob
  <2> QED BY <2>2, <2>3, <2>4 DEF HandlerCore
<1>8. \A t \in Requesters : Awaits(t)
  BY <1>2, TasksAre DEF Awaits
<1>9. \A c \in Mrids : "completed" \notin Said(c)
  BY <1>1 DEF Said
<1>10. SuccessInv
  BY <1>2, <1>7, <1>8, <1>9, TasksAre DEF SuccessInv
<1>11. AssignmentInv
  BY <1>1, <1>2, TasksAre DEF AssignmentInv, ProgramsComeFromFsas, NoFsaJob
<1> QED BY <1>4, <1>5, <1>6, <1>10, <1>11 DEF ClientInv, OnceInv

\* The three parts of the invariant together are inductive.
LEMMA ClientInvKept == ClientInv /\ [ClientNext]_everything => ClientInv'
BY TrackedProgramsArePrograms, OnceKept, SuccessKept, AssignmentKept DEF ClientInv

\* The poll task, the scheduler task and the FSA task, whatever the server, the network and the
\* clock do, keep every control accounted for.
THEOREM EveryControlIsAccountedFor == ClientSpec => []ClientInv
<1>1. ClientInit => ClientInv
  BY InitIsAccounted
<1>2. ClientInv /\ [ClientNext]_everything => ClientInv'
  BY ClientInvKept
<1> QED BY <1>1, <1>2, PTL DEF ClientSpec

\* However often the server lists a control, the poll task and the scheduler task together hand
\* it to the handler at most once, though they look at _processed_mRIDs before awaits and add to
\* it after them; while it is remembered there, for the model has no limit of 1000.
THEOREM ControlsAreHandedOnce == ClientSpec => []HandedOnce
<1>1. ClientInv => HandedOnce
  BY DEF ClientInv, OnceInv, Accounted, HandedOnce
<1> QED BY <1>1, EveryControlIsAccountedFor, PTL

\* Over both tasks, and with every response that fails and is retried, the responses of a control
\* are those the protocol allows after each other.
THEOREM ResponsesAreInOrder == ClientSpec => []ResponsesInOrder
<1>1. ClientInv => ResponsesInOrder
  BY DEF ClientInv, OnceInv, Accounted, ResponsesInOrder, Said
<1> QED BY <1>1, EveryControlIsAccountedFor, PTL

\* No control is left ACTIVE when no task executes it: the branch of _scheduler_loop that would
\* complete such controls at the end of their interval is dead code.
THEOREM NoneStaysActive == ClientSpec => []NeverActiveWhenIdle
<1>1. ClientInv => NeverActiveWhenIdle
  BY DEF ClientInv, OnceInv, Accounted, NeverActiveWhenIdle
<1> QED BY <1>1, EveryControlIsAccountedFor, PTL

\* A control is reported completed only if the handler executed it and the power controller did
\* what it was asked to (_execute_control, after handle_control).
THEOREM CompletionsAreTrue == ClientSpec => []CompletedIsTrue
<1>1. ClientInv => CompletedIsTrue
  <2> SUFFICES ASSUME ClientInv, NEW c \in Mrids, "completed" \in sent[c] \cup owed[c]
               PROVE  \E k \in DOMAIN events :
                         /\ events[k].id = c /\ events[k].executed
                         /\ events[k].status \in {"completed", "superseded", "cancelled"}
    BY DEF CompletedIsTrue
  <2>1. PICK k \in 1..Len(events) : Succeeded(c, k)
    BY DEF ClientInv, SuccessInv, Said
  <2>2. DOMAIN events = 1..Len(events)
    BY LenProperties DEF ClientInv, SuccessInv, HandlerCore
  <2> QED BY <2>1, <2>2 DEF Succeeded, Good
<1> QED BY <1>1, EveryControlIsAccountedFor, PTL

\* No program is polled whose assignments the client no longer has: the programs of an assignment
\* are untracked before the assignment is forgotten (_handle_fsa_removed).
THEOREM PolledProgramsAreAssigned == ClientSpec => []ProgramsComeFromFsas
<1>1. ClientInv => ProgramsComeFromFsas
  BY DEF ClientInv, AssignmentInv
<1> QED BY <1>1, EveryControlIsAccountedFor, PTL

\* It holds when the client starts.
LEMMA InitIsTracked == ClientInit => TrackedInv
<1> SUFFICES ASSUME ClientInit PROVE TrackedInv
  OBVIOUS
<1>1. /\ server = [c \in Mrids |-> "unlisted"] /\ interval \in Starts
      /\ processed = {} /\ cancelledSeen = {} /\ activeDefault = None
      /\ at = [t \in Tasks |-> "idle"] /\ HandlerInit
  BY DEF ClientInit
<1>2. WorldTypes
  BY <1>1, SurroundingsAssumption DEF WorldTypes
<1>3. \A t \in Requesters : at[t] = "idle"
  BY <1>1, TasksAre
<1>4. SeenInv
  BY <1>1, <1>3, TasksAre DEF SeenInv, Engaged, InHand, Before, Beyond
<1>5. PathInv
  <2>1. lock = Free /\ default = NoControl /\ PowerInit
    BY <1>1 DEF HandlerInit
  <2>2. PowerTypeOK
    BY <2>1 DEF PowerInit, PowerTypeOK
  <2> QED BY <2>1, <2>2, HandlerNamesAssumption DEF PathInv
<1> QED BY <1>2, <1>4, <1>5 DEF TrackedInv

\* Every step keeps both invariants.
LEMMA EveryControlIsTracked == ClientSpec => [](ClientInv /\ TrackedInv)
<1>1. ClientInit => ClientInv /\ TrackedInv
  BY InitIsAccounted, InitIsTracked
<1>2. (ClientInv /\ TrackedInv) /\ [ClientNext]_everything => (ClientInv /\ TrackedInv)'
  <2> SUFFICES ASSUME ClientInv, TrackedInv, [ClientNext]_everything
               PROVE  ClientInv' /\ TrackedInv'
    OBVIOUS
  <2>1. ClientInv'
    BY ClientInvKept
  <2>2. TrackedInv'
    BY <2>1, TrackedKept DEF ClientInv
  <2> QED BY <2>1, <2>2
<1> QED BY <1>1, <1>2, PTL DEF ClientSpec

\* The tasks of the client with the handler and the power controller have the types they declare;
\* every control in _processed_mRIDs has its entry in _tracked_controls, which its status is read
\* from without a check, and every control whose cancellation was seen was processed before.
THEOREM ClientTypeCorrect == ClientSpec => []ClientTypeOK
<1>1. ClientInv /\ TrackedInv => ClientTypeOK
  <2> SUFFICES ASSUME ClientInv, TrackedInv PROVE ClientTypeOK
    OBVIOUS
  <2>1. HandlerTypeOK
    <3>1. HandlerCore /\ PathInv
      BY DEF ClientInv, SuccessInv, TrackedInv
    <3>2. DOMAIN events = 1..Len(events) /\ events \in Seq(Events)
      BY <3>1, LenProperties DEF HandlerCore
    <3>3. /\ DOMAIN tracked \subseteq Ids
          /\ \A i \in DOMAIN tracked : tracked[i] \in DOMAIN events /\ events[tracked[i]].id = i
      BY <3>1, <3>2 DEF HandlerCore, Stored
    <3>4. ASSUME NEW t \in Requesters PROVE pc[t] # "idle" <=> lock = t
      <4>1. pc[t] \in {"idle", "power"} /\ (pc[t] = "power" => lock = t)
        BY <3>1 DEF HandlerCore
      <4>2. lock = t => pc[t] # "idle"
        BY <3>1 DEF PathInv
      <4> QED BY <4>1, <4>2
    <3> QED BY <3>1, <3>2, <3>3, <3>4 DEF HandlerTypeOK, PathInv, HandlerCore, Events
  <2>2. processed \subseteq TrackedControls /\ cancelledSeen \subseteq processed
    BY DEF ClientInv, OnceInv, ClientTypes, TrackedInv, SeenInv, TrackedControls
  <2>3. trackedFsa \subseteq Fsas /\ programs \subseteq Programs
    BY TrackedProgramsArePrograms DEF ClientInv, AssignmentInv
  <2> QED BY <2>1, <2>2, <2>3
          DEF ClientTypeOK, TrackedInv, WorldTypes, SeenInv, ClientInv, OnceInv, ClientTypes
<1> QED BY <1>1, EveryControlIsTracked, PTL

-----------------------------------------------------------------------------
(***************************************************************************)
(* Who wins when only the poll task executes: no interval begins later     *)
(* than the client, so that no control is ever scheduled.                  *)
(***************************************************************************)
NothingToSchedule == \A s \in Starts : \A c \in Mrids : s[c] # "future"

\* The awaits from the look at who holds the modes of a control to its record there.
Deciding == {"conflict", "received", "started", "call", "handling", "completed"}

\* A control that counts as completed holds all of its modes, once that is recorded.
Recorded(e) ==
    status[e] = "completed" =>
        \/ at[Poller] = "completed" /\ frame[Poller].on = e
        \/ \A m \in ModesOf(e) : byMode[m] = e

\* No other control that counts as completed holds a mode of the one that is decided about,
\* but for those modes it has still to be compared in.
Prevails ==
    at[Poller] \in Deciding =>
        \A m \in ModesOf(frame[Poller].on) :
            \/ at[Poller] = "conflict" /\ m \in frame[Poller].modes
            \/ byMode[m] \in {None, frame[Poller].on}
            \/ status[byMode[m]] # "completed"

\* A mode that the sweep is about to clear is that of a control it has superseded.
ClearsSuperseded ==
    at[Poller] = "sweptMode" =>
        /\ frame[Poller].mode \in Modes /\ byMode[frame[Poller].mode] \in Mrids
        /\ status[byMode[frame[Poller].mode]] # "completed"

NothingWaits ==
    /\ \A c \in Mrids : interval[c] # "future" /\ status[c] # "scheduled"
    /\ at[Scheduler] \notin InHand /\ at[Poller] # "future"

Decided == (\A e \in Mrids : Recorded(e)) /\ Prevails /\ ClearsSuperseded

\* No control comes to count as completed, or scheduled.
NoneCompletes ==
    \A c \in Mrids : status'[c] = status[c] \/ status'[c] \notin {"completed", "scheduled"}

\* The steps that do not touch the decision of the poll task.
LEMMA LeavesDecision ==
    ASSUME ClientTypes, Decided, NoneCompletes, UNCHANGED byMode,
           at'[Poller] = at[Poller], frame'[Poller] = frame[Poller],
           at[Poller] \in InHand => frame[Poller].on \in Mrids
    PROVE  Decided'
<1>1. \A e \in Mrids : Recorded(e)'
  BY DEF Decided, Recorded, NoneCompletes
<1>2. Prevails'
  <2> SUFFICES ASSUME at[Poller] \in Deciding, NEW m \in ModesOf(frame[Poller].on),
                      ~(at[Poller] = "conflict" /\ m \in frame[Poller].modes),
                      byMode[m] \notin {None, frame[Poller].on}
               PROVE  status'[byMode[m]] # "completed"
    BY DEF Prevails
  <2>1. byMode[m] \in Mrids /\ status[byMode[m]] # "completed"
    BY DEF ModesOf, ClientTypes, Decided, Prevails
  <2> QED BY <2>1 DEF NoneCompletes
<1>3. ClearsSuperseded'
  BY DEF Decided, ClearsSuperseded, NoneCompletes
<1> QED BY <1>1, <1>2, <1>3 DEF Decided

\* The steps after which nothing is decided about.
LEMMA DecidesNothing ==
    ASSUME Decided, NoneCompletes, UNCHANGED byMode, at[Poller] # "completed",
           at'[Poller] \notin Deciding \cup {"sweptMode"}
    PROVE  Decided'
BY DEF Decided, Recorded, Prevails, ClearsSuperseded, NoneCompletes

\* The steps from await to await while the control is decided about.
LEMMA StillDecides ==
    ASSUME ClientTypes, Decided, NoneCompletes, UNCHANGED byMode,
           at[Poller] \in Deciding \ {"conflict", "completed"},
           at'[Poller] \in Deciding \ {"conflict", "completed"},
           frame'[Poller].on = frame[Poller].on
    PROVE  Decided'
<1>1. \A e \in Mrids : Recorded(e)'
  BY DEF Decided, Recorded, NoneCompletes
<1>2. Prevails'
  <2> SUFFICES ASSUME NEW m \in ModesOf(frame[Poller].on),
                      byMode[m] \notin {None, frame[Poller].on}
               PROVE  status'[byMode[m]] # "completed"
    BY DEF Prevails
  <2>1. byMode[m] \in Mrids /\ status[byMode[m]] # "completed"
    BY DEF ModesOf, ClientTypes, Decided, Prevails
  <2> QED BY <2>1 DEF NoneCompletes
<1> QED BY <1>1, <1>2 DEF Decided, ClearsSuperseded, Deciding

\* The first of some modes is the least of them.
LEMMA FirstIsLeast == ASSUME NEW S \in SUBSET Modes, NEW n \in S PROVE First(S) <= n
<1>1. \E m \in S : \A k \in S : m <= k
  <2>1. S \subseteq {1, 2, 3}
    BY DEF Modes, FixedW, ConnectMode, EnergizeMode
  <2>2. CASE 1 \in S
    BY <2>1, <2>2
  <2>3. CASE 1 \notin S /\ 2 \in S
    BY <2>1, <2>3
  <2>4. CASE 1 \notin S /\ 2 \notin S
    <3>1. S = {3}
      BY <2>1, <2>4
    <3> QED BY <3>1
  <2> QED BY <2>2, <2>3, <2>4
<1> QED BY <1>1 DEF First

\* _resolve_conflict from the modes S on, in the poll task.
LEMMA ResolvingDecides ==
    ASSUME ClientTypes, Decided, at[Poller] # "completed", UNCHANGED byMode,
           NEW c \in Mrids, NEW S \in SUBSET Modes, NEW st \in [Mrids -> ClientStatuses],
           \A d \in Mrids : st[d] = status[d] \/ st[d] \notin {"completed", "scheduled"},
           \A m \in ModesOf(c) \ S : byMode[m] \in {None, c} \/ st[byMode[m]] # "completed",
           ResolveConflict(Poller, c, S, st)
    PROVE  Decided' /\ NoneCompletes
<1> DEFINE taken == {m \in S : byMode[m] # None}
           e     == byMode[First(taken)]
<1>1. Takes(Poller, c, st) /\ Poller \in Tasks
  BY Resolving, TasksAre
<1>2. NoneCompletes /\ \A d \in Mrids : status'[d] = st[d] \/ status'[d] # "completed"
  BY <1>1 DEF Takes, NoneCompletes
<1>3. \A d \in Mrids : Recorded(d)'
  BY <1>2 DEF Decided, Recorded, NoneCompletes
<1>4. frame'[Poller].on = c
  BY <1>1 DEF Takes
<1>5. ASSUME NEW m \in ModesOf(c) \ S, byMode[m] \notin {None, c} PROVE status'[byMode[m]] # "completed"
  <2>1. byMode[m] \in Mrids /\ st[byMode[m]] # "completed"
    BY <1>5 DEF ModesOf, ClientTypes
  <2> QED BY <1>2, <2>1
<1>6. CASE taken = {}
  <2>1. at'[Poller] = "received"
    BY <1>1, <1>6 DEF ResolveConflict, GoOn, ClientTypes
  <2>2. \A m \in S : byMode[m] = None
    BY <1>6
  <2>3. Prevails'
    BY <1>4, <1>5, <2>2 DEF Prevails
  <2> QED BY <1>2, <1>3, <2>1, <2>3 DEF Decided, ClearsSuperseded
<1>7. CASE taken # {} /\ Beats(c, e)
  <2>1. /\ at' = [at EXCEPT ![Poller] = "conflict"] /\ status' = [st EXCEPT ![e] = "superseded"]
        /\ frame' = [frame EXCEPT ![Poller] = [[NoFrame EXCEPT !.on = c] EXCEPT
                                                  !.other = e, !.modes = {m \in S : m > First(taken)}]]
    BY <1>7 DEF ResolveConflict, GoOn
  <2>2. at'[Poller] = "conflict" /\ frame'[Poller].modes = {m \in S : m > First(taken)}
    BY <1>1, <2>1 DEF ClientTypes, NoFrame
  <2>3. First(taken) \in taken /\ \A n \in taken : First(taken) <= n
    BY <1>7, FirstIsOne, FirstIsLeast
  <2>4. e \in Mrids /\ status'[e] = "superseded"
    <3>1. e \in Mrids
      <4> HIDE DEF taken
      <4>1. First(taken) \in Modes /\ byMode[First(taken)] # None
        BY <2>3 DEF taken
      <4> QED BY <4>1 DEF ClientTypes
    <3> HIDE DEF e
    <3> QED BY <2>1, <3>1
  <2>5. ASSUME NEW m \in S, m \notin {k \in S : k > First(taken)}
        PROVE  m = First(taken) \/ byMode[m] = None
    <3>1. m \in Int /\ First(taken) \in Int
      BY <2>3 DEF Modes, FixedW, ConnectMode, EnergizeMode
    <3>2. m <= First(taken)
      BY <2>5, <3>1
    <3>3. m \in taken => First(taken) <= m
      BY <2>3
    <3> HIDE DEF e
    <3> QED BY <3>1, <3>2, <3>3
  <2> HIDE DEF taken
  <2>6. Prevails'
    <3> SUFFICES ASSUME NEW m \in ModesOf(c), m \notin frame'[Poller].modes,
                        byMode[m] \notin {None, c}
                 PROVE  status'[byMode[m]] # "completed"
      BY <1>4, <2>2 DEF Prevails
    <3>1. CASE m \in S
      BY <2>2, <2>4, <2>5, <3>1
    <3> QED BY <1>5, <3>1
  <2> QED BY <1>2, <1>3, <2>2, <2>6 DEF Decided, ClearsSuperseded
<1>8. CASE taken # {} /\ ~Beats(c, e)
  <2>1. at' = [at EXCEPT ![Poller] = "lost"]
    BY <1>8 DEF ResolveConflict, GoOn
  <2>2. at'[Poller] = "lost"
    BY <1>1, <2>1 DEF ClientTypes
  <2> QED BY <1>2, <2>2, DecidesNothing DEF Deciding
<1> QED BY <1>6, <1>7, <1>8

\* No control becomes scheduled, and the poll task does not have a future one.
NoneScheduled ==
    /\ \A c \in Mrids : status'[c] = status[c] \/ status'[c] # "scheduled"
    /\ at'[Poller] # "future" \/ at'[Poller] = at[Poller]

\* A status that is set to neither.
LEMMA BecomingNeither ==
    ASSUME ClientTypes, NEW c, NEW s \in {"active", "superseded", "failed", "cancelled", "pending"},
           Become(c, s)
    PROVE  NoneCompletes
BY DEF ClientTypes, Become, NoneCompletes

\* Each step of _execute_control in the poll task.
LEMMA ExecutionDecides ==
    ASSUME OnceInv, SuccessInv, Decided, ExecutionStep(Poller)
    PROVE  Decided' /\ NoneScheduled
<1> USE DEF Stands
<1>1. Poller \in Tasks /\ Poller \in Requesters /\ ClientTypes
  BY TasksAre DEF OnceInv
<1>2. ASSUME at[Poller] \in InHand PROVE frame[Poller].on \in Mrids
  BY <1>1, <1>2, InHandNow
<1>3. UNCHANGED status => NoneCompletes
  BY DEF NoneCompletes
<1>4. ASSUME NoneCompletes, UNCHANGED byMode, at[Poller] # "completed",
             NEW l \in {"next", "aborted", "sweep", "sweepScheduled", "sweptControl", "sweepHandler",
                        "sweepCancelling"},
             at'[Poller] = l
      PROVE  Decided' /\ NoneScheduled
  <2>1. at'[Poller] \notin Deciding \cup {"sweptMode"} /\ at'[Poller] # "future"
    BY <1>4 DEF Deciding
  <2> QED BY <1>4, <2>1, DecidesNothing DEF NoneScheduled, NoneCompletes
<1>5. ASSUME at[Poller] \in InHand, Leave(Poller) PROVE at'[Poller] = "next"
  BY <1>1, <1>2, <1>5, Leaving
<1>6. ASSUME NoneCompletes, UNCHANGED <<byMode, frame>>,
             at[Poller] \in Deciding \ {"conflict", "completed"},
             NEW l \in Deciding \ {"conflict", "completed"}, GoOn(Poller, l)
      PROVE  Decided' /\ NoneScheduled
  <2>1. at'[Poller] = l
    BY <1>1, <1>6, GoingOnly
  <2> QED BY <1>1, <1>6, <2>1, StillDecides DEF NoneScheduled, NoneCompletes, Deciding
<1>7. CASE SupersededReported(Poller)
  <2>1. at[Poller] = "conflict" /\ UNCHANGED byMode
    BY <1>7 DEF SupersededReported, inForce
  <2>2. PICK c \in Mrids : c = frame[Poller].on
    BY <1>2, <2>1 DEF InHand, Before
  <2>3. frame[Poller].modes \in SUBSET Modes /\ status \in [Mrids -> ClientStatuses]
    BY <1>1 DEF ClientTypes, Frames
  <2>4. ResolveConflict(Poller, c, frame[Poller].modes, status)
    BY <1>7, <2>2 DEF SupersededReported
  <2>5. \A m \in ModesOf(c) \ frame[Poller].modes :
            byMode[m] \in {None, c} \/ status[byMode[m]] # "completed"
    BY <2>1, <2>2 DEF Decided, Prevails, Deciding
  <2>6. Takes(Poller, c, status)
    BY <1>1, <2>3, <2>4, Resolving
  <2>7. Decided' /\ NoneCompletes
    BY <1>1, <2>1, <2>3, <2>4, <2>5, ResolvingDecides
  <2> QED BY <2>6, <2>7 DEF Takes, NoneScheduled, NoneCompletes
<1>8. CASE LossReported(Poller)
  <2>1. /\ at[Poller] \in {"lost", "aborted"} /\ Leave(Poller) /\ UNCHANGED <<byMode, status>>
    BY <1>8 DEF LossReported, inForce
  <2> QED BY <1>3, <1>4, <1>5, <2>1 DEF InHand, Beyond
<1>9. CASE ReceivedReported(Poller)
  <2>1. /\ at[Poller] = "received" /\ UNCHANGED <<byMode, frame>>
        /\ Become(frame[Poller].on, "active") /\ GoOn(Poller, "started")
    BY <1>9 DEF ReceivedReported
  <2>2. NoneCompletes
    BY <1>1, <2>1, BecomingNeither
  <2> QED BY <1>6, <2>1, <2>2 DEF Deciding
<1>10. CASE StartedReported(Poller)
  <2>1. at[Poller] = "started" /\ UNCHANGED <<byMode, frame, status>> /\ GoOn(Poller, "call")
    BY <1>10 DEF StartedReported, inForce
  <2> QED BY <1>3, <1>6, <2>1 DEF Deciding
<1>11. ASSUME at[Poller] \in {"call", "handling"}, NEW outcome \in {"completed", "failed"},
              AfterHandling(Poller, outcome)
       PROVE  Decided' /\ NoneScheduled
  <2>1. PICK c \in Mrids : c = frame[Poller].on
    BY <1>2, <1>11 DEF InHand, Before, Beyond
  <2>2. status'[c] = outcome /\ \A d \in Mrids \ {c} : status'[d] = status[d]
    BY <1>1, <1>11, <2>1 DEF AfterHandling, Become, ClientTypes
  <2>3. ASSUME NEW m \in ModesOf(c), byMode[m] \notin {None, c}
        PROVE  byMode[m] \in Mrids /\ status[byMode[m]] # "completed"
    BY <1>1, <1>11, <2>1, <2>3 DEF ModesOf, ClientTypes, Decided, Prevails, Deciding
  <2>4. CASE outcome = "completed"
    <3>1. GoOn(Poller, "completed") /\ UNCHANGED <<byMode, frame>>
      BY <1>11, <2>4 DEF AfterHandling
    <3>2. at'[Poller] = "completed"
      BY <1>1, <3>1, GoingOnly
    <3>3. \A d \in Mrids : Recorded(d)'
      BY <1>11, <2>1, <2>2, <3>1, <3>2 DEF Decided, Recorded
    <3>4. Prevails'
      BY <2>1, <2>2, <2>3, <3>1 DEF Prevails
    <3> QED BY <2>2, <2>4, <3>2, <3>3, <3>4 DEF Decided, ClearsSuperseded, NoneScheduled
  <2>5. CASE outcome = "failed"
    <3>1. byMode' = Holding(c) /\ Leave(Poller)
      BY <1>11, <2>1, <2>5 DEF AfterHandling
    <3>2. at'[Poller] = "next"
      BY <1>5, <1>11, <3>1 DEF InHand, Before, Beyond
    <3>3. ASSUME NEW d \in Mrids, status'[d] = "completed", NEW m \in ModesOf(d)
          PROVE  byMode'[m] = d
      <4>1. d # c /\ status[d] = "completed" /\ byMode[m] = d /\ m \in Modes
        BY <1>11, <2>2, <2>5, <3>3 DEF Decided, Recorded, ModesOf
      <4>2. m \notin ModesOf(c)
        BY <2>3, <4>1, SurroundingsAssumption
      <4> QED BY <3>1, <4>1, <4>2 DEF Holding
    <3>4. \A d \in Mrids : Recorded(d)'
      BY <3>3 DEF Recorded
    <3> QED BY <2>2, <2>5, <3>2, <3>4 DEF Decided, Prevails, ClearsSuperseded, Deciding, NoneScheduled
  <2> QED BY <2>4, <2>5
<1>12. CASE CallHandler(Poller)
  <2>1. at[Poller] = "call" /\ HandleControl(Poller, frame[Poller].on, ControlOf[frame[Poller].on], "open")
    BY <1>12 DEF CallHandler
  <2>2. frame[Poller].on \in Mrids
    BY <1>2, <2>1 DEF InHand, Before
  <2>3. CASE pc'[Poller] = "power"
    <3>1. GoOn(Poller, "handling") /\ UNCHANGED <<frame, byMode, status>>
      BY <1>12, <2>3 DEF CallHandler, inForce
    <3> QED BY <1>3, <1>6, <2>1, <3>1 DEF Deciding
  <2>4. CASE pc'[Poller] # "power"
    <3>1. events'[Len(events')].status \in {"completed", "failed"}
      BY <1>1, <2>1, <2>2, <2>4, HandlerHandles DEF SuccessInv
    <3> QED BY <1>11, <1>12, <2>1, <2>4, <3>1 DEF CallHandler
  <2> QED BY <2>3, <2>4
<1>13. CASE HandlerReturned(Poller)
  <2>1. /\ at[Poller] = "handling" /\ PowerReturned(Poller)
        /\ AfterHandling(Poller, events'[job[Poller].event].status)
    BY <1>13 DEF HandlerReturned
  <2>2. events'[job[Poller].event].status \in {"completed", "failed"}
    BY <1>1, <2>1, HandlerAnswers DEF SuccessInv
  <2> QED BY <1>11, <2>1, <2>2
<1>14. CASE CompletedReported(Poller)
  <2>1. PICK c \in Mrids : c = frame[Poller].on /\ at[Poller] = "completed"
    BY <1>2, <1>14 DEF CompletedReported, InHand, Beyond
  <2>2. /\ byMode' = Holding(c) /\ UNCHANGED status
        /\ GoOn(Poller, "sweep") \/ Leave(Poller)
    BY <1>14, <2>1, Zenon DEF CompletedReported
  <2>3. at'[Poller] \in {"sweep", "next"}
    <3>1. at[Poller] \in InHand
      BY <2>1 DEF InHand, Beyond
    <3>2. GoOn(Poller, "sweep") => at'[Poller] = "sweep"
      BY <1>1 DEF GoOn, ClientTypes
    <3> QED BY <1>5, <2>2, <3>1, <3>2
  <2>4. ASSUME NEW d \in Mrids, status[d] = "completed", NEW m \in ModesOf(d)
        PROVE  byMode'[m] = d
    <3>1. m \in Modes
      BY DEF ModesOf
    <3>2. CASE d = c
      BY <2>2, <3>1, <3>2 DEF Holding
    <3>3. CASE d # c
      <4>1. byMode[m] = d
        BY <2>1, <2>4, <3>3 DEF Decided, Recorded
      <4>2. m \notin ModesOf(c)
        BY <2>1, <2>4, <3>3, <4>1, SurroundingsAssumption DEF Decided, Prevails, Deciding
      <4> QED BY <2>2, <3>1, <4>1, <4>2 DEF Holding
    <3> QED BY <3>2, <3>3
  <2>5. \A d \in Mrids : Recorded(d)'
    BY <2>2, <2>4 DEF Recorded
  <2> QED BY <2>2, <2>3, <2>5 DEF Decided, Prevails, ClearsSuperseded, Deciding, NoneScheduled
<1>15. ASSUME SweepRaises(Poller), UNCHANGED byMode, at[Poller] # "completed"
       PROVE  Decided' /\ NoneScheduled
  <2>1. NoneCompletes
    BY <1>1, <1>15, BecomingNeither DEF SweepRaises
  <2>2. at'[Poller] = "aborted"
    BY <1>1, <1>15 DEF SweepRaises, GoOn, ClientTypes
  <2> QED BY <1>4, <1>15, <2>1, <2>2
<1>16. CASE SweepModes(Poller)
  <2>1. at[Poller] = "sweep" /\ UNCHANGED byMode
    <3>1. at[Poller] = "sweep" /\ UNCHANGED inForce
      BY <1>16, Zenon DEF SweepModes
    <3> QED BY <3>1 DEF inForce
  <2>2. \/ SweepRaises(Poller)
        \/ GoOn(Poller, "sweepScheduled") /\ UNCHANGED status
        \/ \E m \in frame[Poller].modes :
              /\ byMode[m] # None
              /\ Become(byMode[m], "superseded") /\ GoOn(Poller, "sweptMode")
              /\ frame' = [frame EXCEPT ![Poller].modes = @ \ {m}, ![Poller].mode = m,
                                        ![Poller].other = byMode[m]]
    BY <1>16, Zenon DEF SweepModes
  <2>3. CASE GoOn(Poller, "sweepScheduled") /\ UNCHANGED status
    <3>1. at'[Poller] = "sweepScheduled"
      BY <1>1, <2>3 DEF GoOn, ClientTypes
    <3> QED BY <1>3, <1>4, <2>1, <2>3, <3>1
  <2>4. ASSUME NEW m \in frame[Poller].modes, byMode[m] # None,
               Become(byMode[m], "superseded"), GoOn(Poller, "sweptMode"),
               frame' = [frame EXCEPT ![Poller].modes = @ \ {m}, ![Poller].mode = m,
                                      ![Poller].other = byMode[m]]
        PROVE  Decided' /\ NoneScheduled
    <3>1. m \in Modes /\ byMode[m] \in Mrids
      BY <1>1, <2>4 DEF ClientTypes, Frames
    <3>2. frame'[Poller].mode = m /\ at'[Poller] = "sweptMode"
      BY <1>1, <2>4 DEF ClientTypes, Frames, GoOn
    <3>3. NoneCompletes /\ status'[byMode[m]] = "superseded"
      BY <1>1, <2>4, <3>1, BecomingNeither DEF Become, ClientTypes
    <3>4. ClearsSuperseded'
      BY <2>1, <3>1, <3>2, <3>3 DEF ClearsSuperseded
    <3>5. \A d \in Mrids : Recorded(d)'
      BY <2>1, <3>3 DEF Decided, Recorded, NoneCompletes
    <3> QED BY <3>2, <3>3, <3>4, <3>5 DEF Decided, Prevails, Deciding, NoneScheduled, NoneCompletes
  <2>5. SweepRaises(Poller) => Decided' /\ NoneScheduled
    BY <1>15, <2>1
  <2> QED BY <2>2, <2>3, <2>4, <2>5, Zenon
<1>17. CASE SweptModeReported(Poller)
  <2> DEFINE m == frame[Poller].mode
  <2>1. /\ at[Poller] = "sweptMode" /\ byMode' = [byMode EXCEPT ![m] = None]
        /\ SweepRaises(Poller) \/ (GoOn(Poller, "sweep") /\ UNCHANGED <<status, frame>>)
    BY <1>17 DEF SweptModeReported
  <2>2. m \in Modes /\ byMode[m] \in Mrids /\ status[byMode[m]] # "completed"
    BY <2>1 DEF Decided, ClearsSuperseded
  <2>3. NoneCompletes /\ at'[Poller] \in {"aborted", "sweep"}
    BY <1>1, <1>3, <2>1, BecomingNeither DEF SweepRaises, GoOn, ClientTypes
  <2>4. ASSUME NEW d \in Mrids, status'[d] = "completed", NEW n \in ModesOf(d)
        PROVE  byMode'[n] = d
    <3>1. status[d] = "completed" /\ byMode[n] = d /\ n \in Modes
      BY <2>1, <2>3, <2>4 DEF NoneCompletes, Decided, Recorded, ModesOf
    <3>2. n # m
      BY <2>2, <3>1
    <3> HIDE DEF m
    <3> QED BY <1>1, <2>1, <3>1, <3>2 DEF ClientTypes
  <2>5. \A d \in Mrids : Recorded(d)'
    BY <2>4 DEF Recorded
  <2> QED BY <2>3, <2>5 DEF Decided, Prevails, ClearsSuperseded, Deciding, NoneScheduled, NoneCompletes
<1>18. CASE SweepScheduled(Poller)
  <2>1. at[Poller] = "sweepScheduled" /\ UNCHANGED byMode
    BY <1>18, Zenon DEF SweepScheduled
  <2>2. \/ SweepRaises(Poller)
        \/ GoOn(Poller, "sweptControl") /\ \E c \in frame[Poller].sweep : Become(c, "superseded")
        \/ UNCHANGED status /\ (GoOn(Poller, "sweepHandler") \/ Leave(Poller))
    BY <1>18, Zenon DEF SweepScheduled
  <2>3. SweepRaises(Poller) => Decided' /\ NoneScheduled
    BY <1>15, <2>1
  <2>4. ASSUME \/ GoOn(Poller, "sweptControl") /\ \E c \in frame[Poller].sweep : Become(c, "superseded")
               \/ UNCHANGED status /\ (GoOn(Poller, "sweepHandler") \/ Leave(Poller))
        PROVE  Decided' /\ NoneScheduled
    <3>1. NoneCompletes
      BY <1>1, <1>3, <2>4, BecomingNeither
    <3>2. at'[Poller] \in {"sweptControl", "sweepHandler", "next"}
      BY <1>1, <2>4 DEF GoOn, Leave, ClientTypes
    <3> QED BY <1>4, <2>1, <3>1, <3>2
  <2> QED BY <2>2, <2>3, <2>4, Zenon
<1>19. CASE SweptControlReported(Poller) \/ SweepHandler(Poller) \/ SweepCancelled(Poller)
  <2>1. /\ at[Poller] \in {"sweptControl", "sweepHandler", "sweepCancelling"}
        /\ UNCHANGED <<byMode, status>>
        /\ GoOn(Poller, "sweepScheduled") \/ GoOn(Poller, "sweepCancelling") \/ Leave(Poller)
    BY <1>19 DEF SweptControlReported, SweepHandler, SweepCancelled, inForce
  <2>2. at'[Poller] \in {"sweepScheduled", "sweepCancelling", "next"}
    BY <1>1, <2>1 DEF GoOn, Leave, ClientTypes
  <2> QED BY <1>3, <1>4, <2>1, <2>2
<1> QED BY <1>7, <1>8, <1>9, <1>10, <1>12, <1>13, <1>14, <1>16, <1>17, <1>18, <1>19
        DEF ExecutionStep

\* The scheduler task finds nothing to execute.
LEMMA SchedulerDecides ==
    ASSUME OnceInv, Decided, NothingWaits, SchedulerStep
    PROVE  Decided' /\ NoneScheduled /\ at'[Scheduler] \notin InHand
<1> USE DEF Stands
<1>1. Scheduler \in Tasks /\ Poller \in Tasks \ {Scheduler} /\ ClientTypes
  BY TasksAre DEF OnceInv
<1>2. /\ UNCHANGED <<status, byMode, frame>>
      /\ GoOn(Scheduler, "next") \/ GoOn(Scheduler, "idle")
  <2>1. CASE Tick
    BY <2>1 DEF Tick, inForce
  <2>2. CASE RunScheduled
    <3>1. {c \in left[Scheduler] : status[c] = "scheduled"} = {}
      BY <1>1 DEF ClientTypes, NothingWaits
    <3>2. GoOn(Scheduler, "idle") /\ UNCHANGED <<status, frame>> /\ UNCHANGED inForce
      BY <2>2, <3>1, Zenon DEF RunScheduled
    <3> QED BY <3>2 DEF inForce
  <2> QED BY <2>1, <2>2 DEF SchedulerStep
<1>3. at'[Scheduler] \in {"next", "idle"} /\ at'[Poller] = at[Poller]
  BY <1>1, <1>2 DEF GoOn, ClientTypes
<1>4. Decided'
  BY <1>1, <1>2, <1>3, LeavesDecision, InHandNow, TasksAre DEF NoneCompletes
<1> QED BY <1>2, <1>3, <1>4 DEF NoneScheduled, InHand, Before, Beyond

\* Each step of the poll task by itself.
LEMMA PollingDecides ==
    ASSUME OnceInv, Decided, NothingWaits, PollerStep
    PROVE  Decided' /\ NoneScheduled
<1> USE DEF Stands
<1>1. Poller \in Tasks /\ Poller \in Requesters /\ ClientTypes
  BY TasksAre DEF OnceInv
<1>2. UNCHANGED status => NoneCompletes
  BY DEF NoneCompletes
<1>3. ASSUME NoneCompletes, UNCHANGED byMode, at[Poller] \notin InHand,
             NEW l \in PlainPoints \cup {"retrying", "expired"}, GoOn(Poller, l)
      PROVE  Decided' /\ NoneScheduled
  <2>1. at'[Poller] = l
    BY <1>1, <1>3 DEF GoOn, ClientTypes
  <2>2. l \notin Deciding \cup {"sweptMode", "future"} /\ at[Poller] # "completed"
    BY <1>3 DEF Deciding, PlainPoints, InHand, Beyond
  <2> QED BY <1>3, <2>1, <2>2, DecidesNothing DEF NoneScheduled, NoneCompletes
<1>4. {"idle", "round", "get", "next", "retry", "retrying", "default", "cancel", "cancelling",
       "cancelled", "expired"} \subseteq PlainPoints \cup {"retrying", "expired"}
  BY DEF PlainPoints
<1>5. {"idle", "round", "get", "next", "retry", "retrying", "default", "cancel", "cancelling",
       "cancelled", "expired", "future"} \cap InHand = {}
  BY DEF InHand, Before, Beyond
<1>6. CASE StartRound \/ EndRound \/ PollProgram \/ CancelReported \/ Retried
  <2>1. /\ UNCHANGED <<byMode, status>> /\ at[Poller] \in {"idle", "round", "cancelled", "retrying"}
        /\ \E l \in {"round", "idle", "retry", "get", "next"} : GoOn(Poller, l)
    <3>1. StartRound \/ EndRound \/ PollProgram =>
             /\ UNCHANGED inForce /\ UNCHANGED status /\ at[Poller] \in {"idle", "round"}
             /\ \E l \in {"round", "idle", "retry", "get"} : GoOn(Poller, l)
      BY DEF StartRound, EndRound, PollProgram
    <3>2. CancelReported \/ Retried =>
             /\ UNCHANGED inForce /\ UNCHANGED status /\ at[Poller] \in {"cancelled", "retrying"}
             /\ \E l \in {"next", "retry"} : GoOn(Poller, l)
      BY DEF CancelReported, Retried
    <3> QED BY <1>6, <3>1, <3>2 DEF inForce
  <2> QED BY <1>2, <1>3, <1>4, <1>5, <2>1
<1>7. CASE Fetched
  <2>1. UNCHANGED inForce /\ UNCHANGED status /\ at[Poller] = "get"
    BY <1>7, Zenon DEF Fetched
  <2>2. \E l \in {"round", "default", "next"} : GoOn(Poller, l)
    <3>1. GoOn(Poller, "round") \/ GoOn(Poller, "default") \/ GoOn(Poller, "next")
      BY <1>7, Zenon DEF Fetched, CheckDefaultControl
    <3> QED BY <3>1
  <2> QED BY <1>2, <1>3, <1>4, <1>5, <2>1, <2>2 DEF inForce
<1>8. CASE DefaultReturned
  <2>1. UNCHANGED <<byMode, status>> /\ at[Poller] = "default" /\ GoOn(Poller, "round")
    BY <1>8 DEF DefaultReturned
  <2> QED BY <1>2, <1>3, <1>4, <1>5, <2>1
<1>9. CASE ProcessNext
  <2>1. UNCHANGED byMode /\ at[Poller] = "next"
    <3>1. UNCHANGED inForce /\ at[Poller] = "next"
      BY <1>9, Zenon DEF ProcessNext
    <3> QED BY <3>1 DEF inForce
  <2>2. \/ GoOn(Poller, "round") /\ UNCHANGED status
        \/ \E c \in DOMAIN batch : ProcessKnown(c) \/ ProcessNew(c)
    BY <1>9, Zenon DEF ProcessNext
  <2>3. ASSUME NEW c \in DOMAIN batch, ProcessKnown(c) PROVE Decided' /\ NoneScheduled
    <3>1. GoOn(Poller, "cancel") /\ UNCHANGED status
      BY <2>3 DEF ProcessKnown
    <3> QED BY <1>2, <1>3, <1>4, <1>5, <2>1, <3>1
  <2>4. ASSUME NEW c \in DOMAIN batch, ProcessNew(c) PROVE Decided' /\ NoneScheduled
    <3>1. c \in Mrids /\ interval[c] # "future"
      BY <1>1 DEF ClientTypes, NothingWaits
    <3>2. \/ Become(c, "cancelled") /\ GoOn(Poller, "expired")
          \/ ExecuteControl(Poller, c, [status EXCEPT ![c] = "pending"])
      BY <2>4, <3>1 DEF ProcessNew
    <3>3. CASE Become(c, "cancelled") /\ GoOn(Poller, "expired")
      BY <1>1, <1>3, <1>4, <1>5, <2>1, <3>3, BecomingNeither
    <3>4. CASE ExecuteControl(Poller, c, [status EXCEPT ![c] = "pending"])
      <4> DEFINE st == [status EXCEPT ![c] = "pending"]
      <4>1. /\ st \in [Mrids -> ClientStatuses]
            /\ \A d \in Mrids : st[d] = status[d] \/ st[d] \notin {"completed", "scheduled"}
        BY <1>1, <3>1 DEF ClientTypes, ClientStatuses, Statuses
      <4>2. ExecuteControl(Poller, c, st)
        BY <3>4
      <4> HIDE DEF st
      <4>3. Takes(Poller, c, st)
        BY <1>1, <3>1, <4>1, <4>2, BeginningToExecute
      <4>4. NoneCompletes /\ NoneScheduled
        BY <4>1, <4>3 DEF Takes, NoneCompletes, NoneScheduled
      <4>5. CASE stopped
        <5>1. at' = [at EXCEPT ![Poller] = "aborted"]
          BY <4>2, <4>5 DEF ExecuteControl, GoOn
        <5>2. at'[Poller] = "aborted"
          BY <1>1, <5>1 DEF ClientTypes
        <5> QED BY <2>1, <4>4, <5>2, DecidesNothing DEF Deciding
      <4>6. CASE ~stopped
        <5>1. ResolveConflict(Poller, c, ModesOf(c), st) /\ ModesOf(c) \in SUBSET Modes
          BY <4>2, <4>6 DEF ExecuteControl, ModesOf
        <5> QED BY <1>1, <2>1, <3>1, <4>1, <4>4, <5>1, ResolvingDecides
      <4> QED BY <4>5, <4>6
    <3> QED BY <3>2, <3>3, <3>4
  <2> QED BY <1>2, <1>3, <1>4, <1>5, <2>1, <2>2, <2>3, <2>4
<1>10. CASE FutureReported \/ ExpiryReported
  <2>1. /\ at[Poller] = "expired" /\ Leave(Poller) /\ UNCHANGED <<byMode, status>>
    BY <1>10 DEF FutureReported, ExpiryReported, inForce, NothingWaits
  <2> QED BY <1>2, <1>3, <1>4, <1>5, <2>1 DEF Leave
<1>11. CASE CancelCall \/ CancelCallReturned
  <2>1. /\ UNCHANGED byMode /\ at[Poller] \in {"cancel", "cancelling"}
        /\ UNCHANGED status \/ Become(frame[Poller].on, "cancelled")
        /\ GoOn(Poller, "cancelling") \/ GoOn(Poller, "cancelled")
    BY <1>11 DEF CancelCall, CancelCallReturned, inForce
  <2>2. NoneCompletes
    BY <1>1, <1>2, <2>1, BecomingNeither
  <2> QED BY <1>3, <1>4, <1>5, <2>1, <2>2
<1>12. CASE RetryNext
  <2>1. /\ UNCHANGED inForce /\ UNCHANGED status /\ at[Poller] = "retry"
        /\ GoOn(Poller, "idle") \/ GoOn(Poller, "retrying")
    BY <1>12, Zenon DEF RetryNext
  <2> QED BY <1>2, <1>3, <1>4, <1>5, <2>1 DEF inForce
<1> QED BY <1>6, <1>7, <1>8, <1>9, <1>10, <1>11, <1>12 DEF PollerStep

\* The steps of the FSA task and around the client leave the decision as it is.
LEMMA DecisionStays ==
    ASSUME OnceInv, Decided, FsaStep \/ Surroundings
    PROVE  Decided' /\ NoneScheduled /\ at'[Scheduler] = at[Scheduler]
<1>1. Poller \in Tasks \ {FsaTask} /\ Scheduler \in Tasks \ {FsaTask} /\ ClientTypes
  BY TasksAre DEF OnceInv
<1>2. /\ at'[Poller] = at[Poller] /\ frame'[Poller] = frame[Poller]
      /\ at'[Scheduler] = at[Scheduler]
  <2>1. CASE FsaStep
    BY <1>1, <2>1, FsaAside DEF Aside, Others
  <2>2. CASE Surroundings
    BY <2>2, SurroundingsLeave DEF control
  <2> QED BY <2>1, <2>2
<1>3. UNCHANGED byMode /\ NoneCompletes
  <2>1. CASE FsaStep
    <3>1. UNCHANGED inForce /\ (UNCHANGED status \/ \E c : Become(c, "cancelled"))
      BY <2>1, Zenon DEF FsaStep, PollFsa, ProcessFsaPrograms, HandleFsaRemoved, UntrackProgram,
                         CancelNext, UntrackReported, FsaPolled
    <3>2. ASSUME NEW c, Become(c, "cancelled") PROVE NoneCompletes
      BY <1>1, <3>2, BecomingNeither
    <3> QED BY <3>1, <3>2 DEF inForce, NoneCompletes
  <2>2. CASE Surroundings
    <3>1. UNCHANGED status /\ UNCHANGED inForce
      BY <2>2 DEF Surroundings, ControllerStep, ServerStep, FsaChanges, AdvanceTime, LocalStop,
                  everything, clientVars
    <3> QED BY <3>1 DEF inForce, NoneCompletes
  <2> QED BY <2>1, <2>2
<1>4. Decided'
  BY <1>1, <1>2, <1>3, LeavesDecision, InHandNow, TasksAre
<1> QED BY <1>2, <1>3, <1>4 DEF NoneScheduled, NoneCompletes

\* Whoever executes has a control in hand.
LEMMA ExecutesInHand == ASSUME NEW t \in Requesters, ExecutionStep(t) PROVE at[t] \in InHand
<1> USE DEF Stands
<1>1. \/ SupersededReported(t) \/ LossReported(t) \/ ReceivedReported(t) \/ StartedReported(t)
      => at[t] \in {"conflict", "lost", "aborted", "received", "started"}
  BY DEF SupersededReported, LossReported, ReceivedReported, StartedReported
<1>2. CallHandler(t) \/ HandlerReturned(t) \/ CompletedReported(t)
      => at[t] \in {"call", "handling", "completed"}
  <2>1. CallHandler(t) \/ HandlerReturned(t) => at[t] \in {"call", "handling"}
    BY DEF CallHandler, HandlerReturned
  <2>2. CompletedReported(t) => at[t] = "completed"
    BY Zenon DEF CompletedReported
  <2> QED BY <2>1, <2>2
<1>3. \/ SweepModes(t) \/ SweptModeReported(t) \/ SweepScheduled(t)
      => at[t] = "sweep" \/ at[t] = "sweptMode" \/ at[t] = "sweepScheduled"
  BY Zenon DEF SweepModes, SweptModeReported, SweepScheduled
<1>4. \/ SweptControlReported(t) \/ SweepHandler(t) \/ SweepCancelled(t)
      => at[t] = "sweptControl" \/ at[t] = "sweepHandler" \/ at[t] = "sweepCancelling"
  BY Zenon DEF SweptControlReported, SweepHandler, SweepCancelled
<1> QED BY <1>1, <1>2, <1>3, <1>4 DEF ExecutionStep, InHand, Before, Beyond

\* Every step of the client keeps the decision, and schedules nothing.
LEMMA DecisionKept ==
    ASSUME OnceInv, SuccessInv, AssignmentInv, TrackedInv, Decided, NothingWaits,
           [ClientNext]_everything
    PROVE  Decided' /\ NothingWaits'
<1>1. ASSUME NEW t \in Requesters, ExecutionStep(t) PROVE t = Poller
  <2>1. at[t] \in InHand
    BY <1>1, ExecutesInHand
  <2> QED BY <2>1, TasksAre DEF NothingWaits
<1>2. Decided' /\ NoneScheduled /\ at'[Scheduler] \notin InHand
  <2>1. CASE ExecutionStep(Poller)
    <3>1. at'[Scheduler] = at[Scheduler]
      BY <2>1, ExecutionsKeepTrack, TasksAre DEF TrackedInv, SeenStep, Others
    <3> QED BY <2>1, <3>1, ExecutionDecides DEF NothingWaits
  <2>2. CASE SchedulerStep
    BY <2>2, SchedulerDecides
  <2>3. CASE PollerStep
    <3>1. at'[Scheduler] = at[Scheduler]
      BY <2>3, PollerKeepsTrack, TasksAre DEF TrackedInv, SeenStep, Others
    <3> QED BY <2>3, <3>1, PollingDecides DEF NothingWaits
  <2>4. CASE FsaStep \/ Surroundings
    BY <2>4, DecisionStays DEF NothingWaits
  <2> QED BY <1>1, <2>1, <2>2, <2>3, <2>4 DEF ClientNext, Surroundings
<1>3. ASSUME NEW c \in Mrids PROVE interval'[c] # "future"
  <2>1. WorldTypes /\ interval[c] # "future"
    BY DEF TrackedInv, NothingWaits
  <2>2. interval' = interval \/ \E d \in Mrids : \E s \in {"open", "past"} : interval' = [interval EXCEPT ![d] = s]
    BY WorldMoves DEF Moves
  <2> QED BY <2>1, <2>2 DEF WorldTypes
<1> QED BY <1>2, <1>3 DEF NothingWaits, NoneScheduled

\* In one task the hand-over is the poll task's.
LEMMA HandedByOne ==
    ASSUME OnceInv, NothingWaits, [ClientNext]_everything, NEW c \in Mrids, handed'[c] # handed[c]
    PROVE  CallHandler(Poller) /\ frame[Poller].on = c
<1>3. PICK t \in Requesters : CallHandler(t)
  BY HandedByCall
<1>4. at[t] = "call" /\ handed' = [handed EXCEPT ![frame[t].on] = @ + 1]
  BY <1>3 DEF CallHandler, Stands
<1>5. t = Poller
  BY <1>4, TasksAre DEF NothingWaits, InHand, Before
<1> QED BY <1>3, <1>4, <1>5 DEF OnceInv, ClientTypes

\* When no interval begins after the client has started, a control is executed over none that has
\* completed in one of its modes: no lower one is handed to the handler after a higher one, and of
\* a higher one the lower has been superseded first (_resolve_conflict).  That nothing is
\* scheduled is needed: with both tasks executing the property fails.
THEOREM HigherPriorityWinsInOneTask == NothingToSchedule => (ClientSpec => HigherPriorityWins)
<1> SUFFICES ASSUME NothingToSchedule PROVE ClientSpec => HigherPriorityWins
  OBVIOUS
<1> DEFINE Inv == ClientInv /\ TrackedInv /\ Decided /\ NothingWaits
<1>1. ClientInit => Inv
  <2> SUFFICES ASSUME ClientInit PROVE Inv
    OBVIOUS
  <2>1. /\ ClientInv /\ TrackedInv /\ interval \in Starts
        /\ at = [t \in Tasks |-> "idle"] /\ status = [c \in Mrids |-> "untracked"]
    BY InitIsAccounted, InitIsTracked DEF ClientInit
  <2>2. at[Poller] = "idle" /\ at[Scheduler] = "idle" /\ \A c \in Mrids : status[c] = "untracked"
    BY <2>1, TasksAre
  <2>3. Decided
    BY <2>2 DEF Decided, Recorded, Prevails, ClearsSuperseded, Deciding
  <2>4. NothingWaits
    BY <2>1, <2>2 DEF NothingWaits, NothingToSchedule, InHand, Before, Beyond
  <2> QED BY <2>1, <2>3, <2>4
<1>2. Inv /\ [ClientNext]_everything => Inv'
  <2> SUFFICES ASSUME Inv, [ClientNext]_everything PROVE Inv'
    OBVIOUS
  <2>1. ClientInv'
    BY ClientInvKept
  <2>2. TrackedInv'
    BY <2>1, TrackedKept DEF ClientInv
  <2> QED BY <2>1, <2>2, DecisionKept DEF ClientInv
<1>3. Inv /\ [ClientNext]_everything =>
          [\A c, e \in Mrids :
               handed'[c] > handed[c] /\ Shares(c, e) /\ status[e] = "completed"
                   => Beats(c, e)]_everything
  <2> SUFFICES ASSUME Inv, [ClientNext]_everything,
                      NEW c \in Mrids, NEW e \in Mrids,
                      handed'[c] > handed[c], Shares(c, e), status[e] = "completed"
               PROVE  FALSE
    OBVIOUS
  <2>1. CallHandler(Poller) /\ frame[Poller].on = c
    <3>1. handed'[c] # handed[c]
      BY DEF ClientInv, OnceInv, ClientTypes
    <3> QED BY <3>1, HandedByOne DEF ClientInv, NothingWaits
  <2>2. at[Poller] = "call"
    BY <2>1 DEF CallHandler, Stands
  <2>3. PICK m \in ModesOf(c) : m \in ModesOf(e)
    BY DEF Shares
  <2>4. byMode[m] = e /\ c # e
    BY <2>2, <2>3 DEF Decided, Recorded, Shares
  <2> QED BY <2>1, <2>2, <2>3, <2>4, SurroundingsAssumption DEF Decided, Prevails, Deciding
<1> HIDE DEF Inv
<1> QED BY <1>1, <1>2, <1>3, PTL DEF ClientSpec, HigherPriorityWins

-----------------------------------------------------------------------------
(***************************************************************************)
(* The handler under its client: what DERControlHandler_proofs shows for   *)
(* callers of every kind holds for the two tasks that really call it, the  *)
(* scheduler task of the client among them.  It does not once a program    *)
(* has a default control: that goes to the power controller past the       *)
(* handler, which still has an event in force.                             *)
(***************************************************************************)
NoDefaultControls == \A p \in Programs : DefaultPower[p] = NoPower

\* The client never starts the scheduler of the handler: it has one of its own.
NothingDue == due = [t \in Requesters |-> {}]

\* What the client does with the handler keeps the invariant of the handler.
LEMMA HandlerUnderClient ==
    ASSUME NoDefaultControls, HInv, NothingDue, SeenInv, AtThePath
    PROVE  HInv' /\ NothingDue'
<1>1. WithDefault = {} /\ at[Poller] # "default"
  BY DEF NoDefaultControls, WithDefault, SeenInv
<1>2. \A t \in Requesters : t # Scheduler \/ due[Scheduler] = {}
  BY HandlerNamesAssumption DEF NothingDue
<1>3. CASE UNCHANGED allVars
  <2>1. HInv'
    BY <1>3, HandlerPreserved
  <2> QED BY <1>3, <2>1 DEF allVars, handlerVars, NothingDue
<1>4. CASE EmergencyStopTriggered
  <2>1. HInv'
    BY <1>4, HandlerPreserved DEF HandlerNext
  <2> QED BY <1>4, <2>1 DEF EmergencyStopTriggered, handlerVars, NothingDue
<1>5. ASSUME NEW t \in Requesters, NEW c \in Mrids,
             HandleControl(t, c, ControlOf[c], "open"), UNCHANGED todo
      PROVE  HInv' /\ NothingDue'
  <2>1. c \in Ids /\ ControlOf[c] \in Fields /\ "open" \in Windows
    BY ControlsAssumption, ClientControlsAssumption DEF Mrids, Windows
  <2>2. Book' /\ Places' /\ Calls' /\ Ticking' /\ Working' /\ Resting'
    BY <1>2, <1>5, <2>1, Handling
  <2>3. Queued'
    BY <1>5 DEF HInv, Queued
  <2> QED BY <1>5, <2>2, <2>3 DEF HInv, HandleControl, NothingDue
<1>6. ASSUME NEW t \in Requesters, NEW i, CancelControl(t, i) PROVE HInv' /\ NothingDue'
  <2>1. i \in Ids
    BY <1>6 DEF CancelControl, HInv, Book, Stored
  <2>2. HInv'
    BY <1>2, <1>6, <2>1, Cancelling
  <2> QED BY <1>6, <2>2 DEF CancelControl, NothingDue
<1>7. ASSUME NEW t \in Requesters, PowerReturned(t) \/ CancelReturned(t) \/ InController(t)
      PROVE  HInv' /\ NothingDue'
  <2>1. HInv'
    BY <1>7, Returning, CancelEnding, Commanded
  <2>2. due' = due
    BY <1>7 DEF PowerReturned, CancelReturned, InController, handlerVars
  <2> QED BY <2>1, <2>2 DEF NothingDue
<1> QED BY <1>1, <1>3, <1>4, <1>5, <1>6, <1>7 DEF AtThePath

\* While no program has a default control, whatever the two tasks, the server and the clock do,
\* the event in force that has completed is what the PCS obeys, and no other one counts as
\* completed.
THEOREM HandlerHoldsUnderClient ==
    NoDefaultControls => (ClientSpec => [](ActiveMatchesDevice /\ OneInForce))
<1> SUFFICES ASSUME NoDefaultControls
             PROVE  ClientSpec => [](ActiveMatchesDevice /\ OneInForce)
  OBVIOUS
<1> DEFINE Inv == ClientInv /\ TrackedInv /\ HInv /\ NothingDue
<1>1. ClientInit => Inv
  <2>1. ClientInit => HInv /\ NothingDue
    BY HandlerInitially DEF ClientInit, HandlerInit, NothingDue
  <2> QED BY <2>1, InitIsAccounted, InitIsTracked
<1>2. Inv /\ [ClientNext]_everything => Inv'
  <2> SUFFICES ASSUME Inv, [ClientNext]_everything PROVE Inv'
    OBVIOUS
  <2>1. ClientInv'
    BY ClientInvKept
  <2>2. TrackedInv'
    BY <2>1, TrackedKept DEF ClientInv
  <2>3. HInv' /\ NothingDue'
    BY StepsAtThePath, HandlerUnderClient DEF ClientInv, TrackedInv
  <2> QED BY <2>1, <2>2, <2>3
<1>3. HInv => ActiveMatchesDevice /\ OneInForce
  BY InForceIsObeyed, OneIsCompleted
<1> QED BY <1>1, <1>2, <1>3, PTL DEF ClientSpec

\* What the client does with the handler, and with a default control past it, is a use of the
\* power service.
LEMMA PathByService ==
    ASSUME HandlerCore, PathInv, AtThePath
    PROVE  [PowerNext]_powerVars
<1>1. CASE UNCHANGED allVars
  BY <1>1 DEF allVars
<1>2. CASE EmergencyStopTriggered
  BY <1>2 DEF EmergencyStopTriggered, PowerNext
<1>3. ASSUME NEW t \in Requesters, NEW c \in Mrids, HandleControl(t, c, ControlOf[c], "open")
      PROVE  [PowerNext]_powerVars
  <2>1. c \in Ids /\ ControlOf[c] \in Fields /\ "open" \in Windows
    BY ControlsAssumption, ClientControlsAssumption DEF Mrids, Windows
  <2>2. Book
    BY DEF Book, HandlerCore, PathInv
  <2> QED BY <1>3, <2>1, <2>2, HandlesByService
<1>4. ASSUME NEW t \in Requesters, NEW i, CancelControl(t, i) PROVE [PowerNext]_powerVars
  BY <1>4, CancelsByService
<1>5. ASSUME NEW t \in Requesters, PowerReturned(t) \/ CancelReturned(t) \/ InController(t)
      PROVE  [PowerNext]_powerVars
  BY <1>5 DEF PowerReturned, CancelReturned, InController, PowerNext
<1>6. ASSUME NEW t \in Requesters, NEW p \in WithDefault,
             Begin(t, [op |-> "set", value |-> DefaultPower[p]]), UNCHANGED <<stopped, pset>>
      PROVE  [PowerNext]_powerVars
  <2>1. DefaultPower[p] \in Values
    BY ProgramsAssumption DEF WithDefault
  <2>2. [op |-> "set", value |-> DefaultPower[p]] \in Commands
    BY <2>1 DEF Commands
  <2> QED BY <1>6, <2>2 DEF PowerNext
<1>7. ASSUME NEW t \in Requesters, Take(t), UNCHANGED <<stopped, pset>> PROVE [PowerNext]_powerVars
  BY <1>7 DEF PowerNext
<1> QED BY <1>1, <1>2, <1>3, <1>4, <1>5, <1>6, <1>7 DEF AtThePath

\* Whatever the server lists and however the tasks interleave, the client with its handler uses
\* the power controller as the service is meant to be used, default controls included.
THEOREM ClientUsesService == ClientSpec => PowerSpec
<1>1. ClientInit => PowerInit
  BY DEF ClientInit, HandlerInit
<1>2. ClientInv /\ TrackedInv /\ [ClientNext]_everything => [PowerNext]_powerVars
  BY StepsAtThePath, PathByService DEF ClientInv, SuccessInv, TrackedInv
<1> QED BY <1>1, <1>2, EveryControlIsTracked, PTL DEF ClientSpec, PowerSpec

\* So no control and no default control reaches the PCS while the emergency stop is on, but for
\* what had passed the gate before, and in DRY_RUN nothing the server sends ever moves P_SET.
THEOREM ClientIsGated == ClientSpec => StopHolds /\ DryRunHolds
BY ClientUsesService, ServiceIsGated

-----------------------------------------------------------------------------
(***************************************************************************)
(* The life of a control: DERClient implements ControlLife.                *)
(***************************************************************************)
Ended(k) == events[k].executed => events[k].status \in Good \cup {"failed"}

\* Whoever waits for the power controller on behalf of event k.
WaitsFor(t, k) == pc[t] = "power" /\ job[t].op # "cancel" /\ job[t].event = k

\* Of the events that were executed, only those awaited have not ended; an event is of a control
\* that was handed over, and that was announced before.
LifeInv ==
    /\ \A k \in 1..Len(events) : Ended(k) \/ \E t \in Requesters : WaitsFor(t, k)
    /\ \A k \in 1..Len(events) : \A c \in Mrids : events[k].id = c => handed[c] > 0
    /\ \A c \in Mrids : handed[c] > 0 => "started" \in Said(c)

LifeStep == [Life!LifeNext]_(Life!life)

\* An event that has ended stays so, and is not executed with success by being superseded or
\* cancelled.
LEMMA EndedStays ==
    ASSUME NEW k, Ended(k), Altered(k), events'[k].id = events[k].id
    PROVE  Ended(k)' /\ \A c : Succeeded(c, k)' => Succeeded(c, k)
BY DEF Ended, Altered, Succeeded, Good

\* While nobody holds the lock every event executed has ended; so it has, but for the one awaited,
\* while t holds it.
LEMMA EndedButAwaited ==
    ASSUME HandlerCore, LifeInv, NEW t \in Requesters, lock \in {Free, t}, NEW k \in 1..Len(events),
           lock = t => ~WaitsFor(t, k)
    PROVE  Ended(k)
<1>1. ASSUME NEW u \in Requesters, WaitsFor(u, k) PROVE FALSE
  <2>1. lock = u
    BY <1>1 DEF WaitsFor, HandlerCore
  <2> QED BY <1>1, <2>1, HandlerNamesAssumption
<1> QED BY <1>1 DEF LifeInv

\* What the server can tell of the responses when none is made.
LEMMA NothingSaid ==
    ASSUME UNCHANGED responses
    PROVE  saidBar' = saidBar /\ \A c \in Mrids : Said(c)' = Said(c)
BY DEF responses, saidBar, Said

\* A step that hands nothing to the handler makes at most one response, and when it may be made.
LEMMA AsideLives ==
    ASSUME OnceInv, OnceInv', SuccessInv, LifeInv, NEW t \in Tasks, Aside(t), UNCHANGED handed
    PROVE  LifeInv' /\ LifeStep
<1>1. UNCHANGED <<events, pc, job>>
  BY DEF Aside, handlerVars, book
<1>2. carriedOutBar' = carriedOutBar
  BY <1>1 DEF carriedOutBar, Succeeded
<1>3. ASSUME \A c \in Mrids : Said(c) \subseteq Said(c)' PROVE LifeInv'
  BY <1>1, <1>3 DEF LifeInv, Ended, WaitsFor
<1>4. CASE UNCHANGED responses
  BY <1>2, <1>3, <1>4, NothingSaid DEF LifeStep, Life!life
<1>5. CASE ~ UNCHANGED responses
  <2>1. PICK c : \E code \in Responses :
           /\ Post(c, code)
           /\ \/ code \notin {"completed", "received"} \/ (c \in Mrids /\ code \in owed[c])
              \/ t \in Requesters /\ Announces(t, code) /\ c = frame[t].on
    BY <1>5 DEF Aside, SaysNothingNew
  <2>2. PICK code \in Responses :
           /\ Post(c, code)
           /\ \/ code \notin {"completed", "received"} \/ (c \in Mrids /\ code \in owed[c])
              \/ t \in Requesters /\ Announces(t, code) /\ c = frame[t].on
    BY <2>1
  <2>3. \A d \in Mrids : Said(d)' = Said(d) \cup (IF d = c THEN {code} ELSE {})
    BY <2>2, PostSays DEF Says
  <2>4. LifeInv'
    BY <1>3, <2>3
  <2>5. CASE c \notin Mrids \/ code \in Said(c)
    <3>1. \A d \in Mrids : Said(d)' = Said(d)
      BY <2>3, <2>5
    <3>2. saidBar' = saidBar
      BY <3>1 DEF saidBar
    <3> QED BY <1>2, <2>4, <3>2 DEF LifeStep, Life!life
  <2>6. CASE c \in Mrids /\ code \notin Said(c)
    <3>1. /\ Said(c)' = Said(c) \cup {code}
          /\ Accounted(c) /\ Accounted(c)' /\ handed[c] \in Nat
      BY <2>3, <2>6 DEF OnceInv, ClientTypes
    <3>2. saidBar' = [saidBar EXCEPT ![c] = @ \cup {code}] /\ saidBar[c] = Said(c)
      BY <2>3, <2>6 DEF saidBar
    <3>3. "started" \notin Said(c) => handed[c] = 0
      BY <2>6, <3>1 DEF LifeInv
    <3>4. ASSUME code = "received" PROVE Life!Sayable(c, code)
      <4>1. /\ t \in Requesters /\ c = frame[t].on /\ at[t] \in {"received", "future"}
        BY <2>2, <2>6, <3>4 DEF Announces, Said
      <4>2. "started" \notin Said(c)
        BY <2>6, <3>1, <3>4 DEF Accounted
      <4>3. "expired" \notin Said(c)
        <5>1. Owns(t) /\ at[Scheduler] \in InHand \cup {"idle", "next"}
          BY <4>1 DEF OnceInv, ClientTypes
        <5>2. CASE t = Poller
          BY <3>1, <4>1, <5>1, <5>2 DEF Owns, Accounted, InHand, Before
        <5>3. CASE t = Scheduler
          BY <4>1, <5>1, <5>3 DEF Owns
        <5> QED BY <4>1, <5>2, <5>3, TasksAre
      <4> QED BY <3>2, <3>3, <3>4, <4>2, <4>3 DEF Life!Sayable
    <3>5. ASSUME code = "started" PROVE Life!Sayable(c, code)
      <4>1. "received" \in Said(c) /\ "expired" \notin Said(c)
        BY <3>1, <3>5 DEF Accounted
      <4> QED BY <2>6, <3>2, <3>3, <3>5, <4>1 DEF Life!Sayable
    <3>6. ASSUME code = "expired" PROVE Life!Sayable(c, code)
      <4>1. "started" \notin Said(c)
        BY <3>1, <3>6 DEF Accounted
      <4> QED BY <3>2, <3>3, <3>6, <4>1 DEF Life!Sayable
    <3>7. ASSUME code = "completed" PROVE Life!Sayable(c, code)
      <4>1. t \in Requesters /\ c = frame[t].on /\ at[t] = "completed"
        BY <2>2, <2>6, <3>7 DEF Announces, Said
      <4>2. \E k \in 1..Len(events) : Succeeded(c, k)
        BY <2>6, <4>1 DEF SuccessInv
      <4>3. DOMAIN events = 1..Len(events)
        BY LenProperties DEF SuccessInv, HandlerCore
      <4>4. c \in carriedOutBar
        BY <2>6, <4>2, <4>3 DEF carriedOutBar
      <4> QED BY <3>7, <4>4 DEF Life!Sayable
    <3>8. ASSUME code \notin {"received", "started", "expired", "completed"} PROVE Life!Sayable(c, code)
      BY <3>8 DEF Life!Sayable
    <3>9. Life!Sayable(c, code)
      BY <3>4, <3>5, <3>6, <3>7, <3>8
    <3>10. Life!Say(c, code)
      BY <1>2, <3>2, <3>9 DEF Life!Say
    <3>11. Life!LifeNext
      BY <2>2, <2>6, <3>10 DEF Life!LifeNext
    <3> QED BY <2>4, <3>11 DEF LifeStep
  <2> QED BY <2>5, <2>6
<1> QED BY <1>4, <1>5

\* The hand-over gives the control to the device for the first time, when it was announced.
LEMMA CallHandlerLives ==
    ASSUME OnceInv, SuccessInv, LifeInv, NEW t \in Requesters, CallHandler(t)
    PROVE  LifeInv' /\ LifeStep
<1>1. at[t] = "call" /\ at[t] \in InHand
  BY DEF CallHandler, Stands, InHand, Before
<1>2. PICK c \in Mrids : c = frame[t].on
  BY <1>1, InHandNow
<1>3. HandlerCore /\ HandleControl(t, c, ControlOf[c], "open")
  BY <1>2 DEF CallHandler, SuccessInv
<1>4. /\ HandlerCore' /\ Kept /\ lock = Free
      /\ Len(events') = Len(events) + 1 /\ events'[Len(events')].id = c
      /\ \A k \in 1..Len(events) : Altered(k)
  BY <1>3, HandlerHandles
<1>5. /\ Len(events) \in Nat /\ DOMAIN events = 1..Len(events) /\ DOMAIN events' = 1..Len(events')
  BY <1>3, <1>4, LenProperties DEF HandlerCore
<1>6. \A k \in 1..Len(events) : Ended(k)
  BY <1>3, <1>4, EndedButAwaited, HandlerNamesAssumption
<1>7. \A k \in 1..Len(events) : /\ events'[k].id = events[k].id /\ Ended(k)'
                                /\ \A d : Succeeded(d, k) <=> Succeeded(d, k)'
  <2> SUFFICES ASSUME NEW k \in 1..Len(events)
               PROVE  /\ events'[k].id = events[k].id /\ Ended(k)'
                      /\ \A d : Succeeded(d, k) <=> Succeeded(d, k)'
    OBVIOUS
  <2>1. events'[k].id = events[k].id
    BY <1>4 DEF Kept
  <2>2. \A d : Succeeded(d, k) => Succeeded(d, k)'
    BY <1>4 DEF Kept, Succeeded
  <2> QED BY <1>4, <1>6, <2>1, <2>2, EndedStays
<1>8. handed[c] = 0 /\ "started" \in Said(c)
  BY <1>1, <1>2 DEF OnceInv, Owns, Before
<1>9. handed \in [Mrids -> Nat] /\ handed' = [handed EXCEPT ![c] = 1]
  BY <1>2, <1>8 DEF CallHandler, OnceInv, ClientTypes
<1>10. UNCHANGED responses
  BY DEF CallHandler, AfterHandling
<1>11. LifeInv'
  <2>1. ASSUME NEW k \in 1..Len(events')
        PROVE  Ended(k)' \/ \E u \in Requesters : WaitsFor(u, k)'
    <3>1. CASE k \in 1..Len(events)
      BY <1>7, <3>1
    <3>2. CASE k = Len(events')
      <4>1. CASE pc'[t] = "power"
        <5>1. job'[t].op = "handle" /\ job'[t].event = Len(events')
          BY <1>3, <4>1, HandlerHandles
        <5> QED BY <3>2, <4>1, <5>1 DEF WaitsFor
      <4>2. CASE pc'[t] # "power"
        <5>1. events'[Len(events')].status \in {"completed", "failed"}
          BY <1>3, <4>2, HandlerHandles
        <5> QED BY <3>2, <5>1 DEF Ended, Good
      <4> QED BY <4>1, <4>2
    <3> QED BY <1>4, <1>5, <3>1, <3>2
  <2>2. ASSUME NEW k \in 1..Len(events'), NEW d \in Mrids, events'[k].id = d
        PROVE  handed'[d] > 0
    <3>1. CASE k \in 1..Len(events)
      <4>1. handed[d] > 0
        BY <1>7, <2>2, <3>1 DEF LifeInv
      <4> QED BY <1>9, <4>1
    <3>2. CASE k = Len(events')
      BY <1>4, <1>9, <2>2, <3>2
    <3> QED BY <1>4, <1>5, <3>1, <3>2
  <2>3. ASSUME NEW d \in Mrids, handed'[d] > 0 PROVE "started" \in Said(d)'
    <3>1. Said(d)' = Said(d)
      BY <1>10, NothingSaid
    <3> QED BY <1>8, <1>9, <2>3, <3>1 DEF LifeInv
  <2> QED BY <2>1, <2>2, <2>3 DEF LifeInv
<1>12. carriedOutBar' \in {carriedOutBar, carriedOutBar \cup {c}}
  <2>1. ASSUME NEW d \in Mrids, d # c PROVE d \in carriedOutBar' <=> d \in carriedOutBar
    <3>1. d \in carriedOutBar => d \in carriedOutBar'
      BY <1>4, <1>5, <1>7 DEF carriedOutBar
    <3>2. ASSUME NEW k \in 1..Len(events'), Succeeded(d, k)' PROVE d \in carriedOutBar
      <4>1. k # Len(events')
        BY <1>4, <2>1, <3>2 DEF Succeeded
      <4>2. k \in 1..Len(events)
        BY <1>4, <1>5, <4>1
      <4> QED BY <1>5, <1>7, <3>2, <4>2 DEF carriedOutBar
    <3> QED BY <1>5, <3>1, <3>2 DEF carriedOutBar
  <2>2. c \in carriedOutBar => c \in carriedOutBar'
    BY <1>4, <1>5, <1>7 DEF carriedOutBar
  <2>3. carriedOutBar \subseteq Mrids /\ carriedOutBar' \subseteq Mrids
    BY DEF carriedOutBar
  <2> QED BY <2>1, <2>2, <2>3
<1>13. saidBar' = saidBar /\ saidBar[c] = Said(c)
  BY <1>10, NothingSaid DEF saidBar
<1>14. Life!Give(c)
  BY <1>8, <1>9, <1>12, <1>13 DEF Life!Give
<1>15. Life!LifeNext
  BY <1>14 DEF Life!LifeNext
<1> QED BY <1>11, <1>15 DEF LifeStep

\* The answer the control was waiting for may have carried it out.
LEMMA HandlerReturnedLives ==
    ASSUME OnceInv, SuccessInv, LifeInv, NEW t \in Requesters, HandlerReturned(t)
    PROVE  LifeInv' /\ LifeStep
<1>1. at[t] = "handling" /\ at[t] \in InHand /\ Awaits(t) /\ HandlerCore
  BY DEF HandlerReturned, Stands, InHand, Beyond, SuccessInv
<1>2. PICK c \in Mrids : c = frame[t].on
  BY <1>1, InHandNow
<1>3. PICK j : j = job[t].event
  OBVIOUS
<1>4. /\ HandlerCore' /\ Kept /\ Len(events') = Len(events)
      /\ \A k \in 1..Len(events) : k # j => Altered(k)
      /\ events'[j].status \in {"completed", "failed"}
  BY <1>1, <1>3, HandlerAnswers DEF HandlerReturned
<1>5. DOMAIN events = 1..Len(events) /\ DOMAIN events' = 1..Len(events)
  BY <1>1, <1>4, LenProperties DEF HandlerCore
<1>6. lock = t /\ j \in 1..Len(events) /\ events[j].id = c
  BY <1>1, <1>2, <1>3 DEF Awaits, HandlerCore
<1>7. ASSUME NEW k \in 1..Len(events), k # j
      PROVE  Ended(k)' /\ \A d : Succeeded(d, k) <=> Succeeded(d, k)'
  <2>1. Ended(k)
    <3>1. ~WaitsFor(t, k)
      BY <1>3, <1>7 DEF WaitsFor
    <3> QED BY <1>1, <1>6, <3>1, EndedButAwaited
  <2>2. events'[k].id = events[k].id /\ Altered(k)
    BY <1>4, <1>7 DEF Kept
  <2>3. \A d : Succeeded(d, k) => Succeeded(d, k)'
    BY <1>4 DEF Kept, Succeeded
  <2> QED BY <2>1, <2>2, <2>3, EndedStays
<1>8. UNCHANGED handed /\ UNCHANGED responses
  BY DEF HandlerReturned, AfterHandling
<1>9. saidBar' = saidBar /\ \A d \in Mrids : Said(d)' = Said(d)
  BY <1>8, NothingSaid
<1>10. LifeInv'
  <2>1. \A k \in 1..Len(events') : Ended(k)'
    BY <1>4, <1>7 DEF Ended, Good
  <2>2. ASSUME NEW k \in 1..Len(events'), NEW d \in Mrids, events'[k].id = d PROVE handed'[d] > 0
    <3>1. k \in 1..Len(events) /\ events[k].id = d
      BY <1>4, <2>2 DEF Kept
    <3> QED BY <1>8, <3>1 DEF LifeInv
  <2>3. \A d \in Mrids : handed'[d] > 0 => "started" \in Said(d)'
    BY <1>8, <1>9 DEF LifeInv
  <2> QED BY <2>1, <2>2, <2>3 DEF LifeInv
<1>11. handed[c] = 1
  <2>1. handed[c] > 0 /\ handed[c] <= 1 /\ handed[c] \in Nat
    BY <1>6 DEF LifeInv, OnceInv, Accounted, ClientTypes
  <2> QED BY <2>1
<1>12. carriedOutBar' \in {carriedOutBar, carriedOutBar \cup {c}}
  <2>1. ASSUME NEW d \in Mrids, d # c PROVE d \in carriedOutBar' <=> d \in carriedOutBar
    <3>1. ~Succeeded(d, j) /\ ~Succeeded(d, j)'
      BY <1>4, <1>6, <2>1 DEF Kept, Succeeded
    <3> QED BY <1>5, <1>7, <3>1 DEF carriedOutBar
  <2>2. c \in carriedOutBar => c \in carriedOutBar'
    <3>1. \A k \in 1..Len(events) : Succeeded(c, k) => Succeeded(c, k)'
      BY <1>4 DEF Kept, Succeeded
    <3> QED BY <1>5, <3>1 DEF carriedOutBar
  <2>3. carriedOutBar \subseteq Mrids /\ carriedOutBar' \subseteq Mrids
    BY DEF carriedOutBar
  <2> QED BY <2>1, <2>2, <2>3
<1>13. CASE carriedOutBar' = carriedOutBar
  BY <1>8, <1>9, <1>10, <1>13 DEF LifeStep, Life!life
<1>14. CASE carriedOutBar' = carriedOutBar \cup {c}
  <2>1. Life!CarryOut(c)
    BY <1>8, <1>9, <1>11, <1>14 DEF Life!CarryOut
  <2>2. Life!LifeNext
    BY <2>1 DEF Life!LifeNext
  <2> QED BY <1>10, <2>2 DEF LifeStep
<1> QED BY <1>12, <1>13, <1>14

\* A cancellation carries nothing out: what it marks was executed with success, or was not executed.
LEMMA CancellingLives ==
    ASSUME OnceInv, SuccessInv, LifeInv, NEW t \in Requesters,
           \/ SweepHandler(t) \/ SweepCancelled(t)
           \/ t = Poller /\ (CancelCall \/ CancelCallReturned)
    PROVE  LifeInv' /\ LifeStep
<1>1. UNCHANGED responses /\ UNCHANGED handed /\ HandlerCore
  BY DEF SweepHandler, SweepCancelled, CancelCall, CancelCallReturned, SuccessInv
<1>2. saidBar' = saidBar /\ \A d \in Mrids : Said(d)' = Said(d)
  BY <1>1, NothingSaid
<1>3. ASSUME HandlerCore', Len(events') = Len(events),
             \A k \in 1..Len(events) : /\ Ended(k)' /\ events'[k].id = events[k].id
                                       /\ \A d : Succeeded(d, k)' <=> Succeeded(d, k)
      PROVE  LifeInv' /\ LifeStep
  <2>1. LifeInv'
    BY <1>1, <1>2, <1>3 DEF LifeInv
  <2>2. DOMAIN events = 1..Len(events) /\ DOMAIN events' = 1..Len(events)
    BY <1>1, <1>3, LenProperties DEF HandlerCore
  <2>3. carriedOutBar' = carriedOutBar
    BY <1>3, <2>2 DEF carriedOutBar
  <2> QED BY <1>1, <1>2, <2>1, <2>3 DEF LifeStep, Life!life
<1>4. CASE \E i : CancelControl(t, i)
  <2>1. /\ HandlerCore' /\ Kept /\ lock = Free
        /\ Len(events') = Len(events) /\ \A k \in 1..Len(events) : Altered(k)
    BY <1>1, <1>4, HandlerCancels
  <2>2. ASSUME NEW k \in 1..Len(events)
        PROVE  /\ Ended(k)' /\ events'[k].id = events[k].id
               /\ \A d : Succeeded(d, k)' <=> Succeeded(d, k)
    <3>1. Ended(k)
      BY <1>1, <2>1, EndedButAwaited, HandlerNamesAssumption
    <3>2. events'[k].id = events[k].id /\ \A d : Succeeded(d, k) => Succeeded(d, k)'
      BY <2>1 DEF Kept, Succeeded
    <3> QED BY <2>1, <3>1, <3>2, EndedStays
  <2> QED BY <1>3, <2>1, <2>2
<1>5. CASE CancelReturned(t)
  <2>1. HandlerCore' /\ events' = events
    BY <1>1, <1>5, HandlerCancelled
  <2>2. lock = t /\ \A k : ~WaitsFor(t, k)
    BY <1>1, <1>5 DEF CancelReturned, HandlerCore, WaitsFor
  <2>3. \A k \in 1..Len(events) : Ended(k)
    BY <1>1, <2>2, EndedButAwaited
  <2> QED BY <1>3, <2>1, <2>3 DEF Ended, Succeeded
<1>6. CASE UNCHANGED allVars
  <2>1. UNCHANGED <<events, pc, job>>
    BY <1>6 DEF allVars, handlerVars, book
  <2>2. LifeInv'
    BY <1>1, <1>2, <2>1 DEF LifeInv, Ended, WaitsFor
  <2>3. carriedOutBar' = carriedOutBar
    BY <2>1 DEF carriedOutBar, Succeeded
  <2> QED BY <1>1, <1>2, <2>2, <2>3 DEF LifeStep, Life!life
<1> QED BY <1>4, <1>5, <1>6 DEF SweepHandler, SweepCancelled, CancelCall, CancelCallReturned

\* Around the client nothing of this changes.
LEMMA SurroundingsLive ==
    ASSUME LifeInv, Surroundings, UNCHANGED handed
    PROVE  LifeInv' /\ LifeStep
<1>1. UNCHANGED <<events, pc, job>> /\ UNCHANGED responses
  BY SurroundingsLeave DEF handlerVars, book
<1>2. saidBar' = saidBar /\ \A d \in Mrids : Said(d)' = Said(d)
  BY <1>1, NothingSaid
<1>3. LifeInv'
  BY <1>1, <1>2 DEF LifeInv, Ended, WaitsFor
<1>4. carriedOutBar' = carriedOutBar
  BY <1>1 DEF carriedOutBar, Succeeded
<1> QED BY <1>2, <1>3, <1>4 DEF LifeStep, Life!life

\* Every step of the client is a step of ControlLife, or one it does not see.
LEMMA LifeKept ==
    ASSUME OnceInv, OnceInv', SuccessInv, LifeInv, [ClientNext]_everything
    PROVE  LifeInv' /\ LifeStep
<1>1. CASE \E t \in Requesters : CallHandler(t)
  BY <1>1, CallHandlerLives
<1>2. CASE ~ \E t \in Requesters : CallHandler(t)
  <2>1. UNCHANGED handed
    BY <1>2, HandedByCall
  <2>2. ASSUME NEW t \in Tasks, Aside(t) PROVE LifeInv' /\ LifeStep
    BY <2>1, <2>2, AsideLives
  <2>3. ASSUME NEW t \in Requesters, ExecutionStep(t) PROVE LifeInv' /\ LifeStep
    <3>1. t \in Tasks
      BY TasksAre
    <3>2. CASE \/ SupersededReported(t) \/ LossReported(t) \/ ReceivedReported(t)
               \/ StartedReported(t) \/ CompletedReported(t)
      BY <2>2, <3>1, <3>2, ReportsAside
    <3>3. CASE SweepModes(t) \/ SweptModeReported(t) \/ SweepScheduled(t) \/ SweptControlReported(t)
      BY <2>2, <3>1, <3>3, SweepsAside
    <3>4. CASE HandlerReturned(t)
      BY <3>4, HandlerReturnedLives
    <3>5. CASE SweepHandler(t) \/ SweepCancelled(t)
      BY <3>5, CancellingLives
    <3> QED BY <1>2, <2>3, <3>2, <3>3, <3>4, <3>5 DEF ExecutionStep
  <2>4. CASE SchedulerStep
    BY <2>2, <2>4, SchedulerAside, TasksAre
  <2>5. CASE PollerStep
    <3>1. CASE CancelCall \/ CancelCallReturned
      BY <3>1, CancellingLives, TasksAre
    <3>2. CASE ~(CancelCall \/ CancelCallReturned)
      BY <2>2, <2>5, <3>2, PollerAside, TasksAre DEF PollerStep
    <3> QED BY <3>1, <3>2
  <2>6. CASE FsaStep
    BY <2>2, <2>6, FsaAside, TasksAre
  <2>7. CASE Surroundings
    BY <2>1, <2>7, SurroundingsLive
  <2> QED BY <2>3, <2>4, <2>5, <2>6, <2>7 DEF ClientNext, Surroundings
<1> QED BY <1>1, <1>2

\* No control has a life when the client starts.
LEMMA InitLives == ClientInit => LifeInv /\ Life!LifeInit
<1> SUFFICES ASSUME ClientInit PROVE LifeInv /\ Life!LifeInit
  OBVIOUS
<1>1. /\ sent = [c \in Mrids |-> {}] /\ owed = [c \in Mrids |-> {}]
      /\ handed = [c \in Mrids |-> 0] /\ events = << >>
  BY DEF ClientInit, HandlerInit
<1>2. LifeInv
  BY <1>1 DEF LifeInv
<1>3. saidBar = [c \in Mrids |-> {}]
  BY <1>1 DEF saidBar, Said
<1>4. carriedOutBar = {}
  BY <1>1 DEF carriedOutBar
<1> QED BY <1>1, <1>2, <1>3, <1>4 DEF Life!LifeInit

\* The three tasks of the client, the handler and the power controller behind it implement
\* ControlLife, for any controls, programs and assignments and whatever is interleaved: a control is
\* announced before the device is given it, is given to it once, and is reported completed only
\* when it was carried out; one that has expired is never started.
THEOREM ClientImplementsLife == ClientSpec => ImplementsLife
<1>1. ClientInit => LifeInv /\ Life!LifeInit
  BY InitLives
<1>2. ClientInv /\ ClientInv' /\ LifeInv /\ [ClientNext]_everything => LifeInv' /\ LifeStep
  BY LifeKept DEF ClientInv
<1> QED BY <1>1, <1>2, EveryControlIsAccountedFor, PTL
       DEF ClientSpec, ImplementsLife, Life!LifeSpec, LifeStep

\* What ControlLife alone says of a control: it was announced, then given, then carried out.
LifeOrder ==
    \A c \in Mrids :
        /\ handed[c] \in {0, 1}
        /\ c \in carriedOutBar => handed[c] = 1
        /\ handed[c] = 1 => "started" \in saidBar[c]
        /\ "started" \in saidBar[c] => "received" \in saidBar[c] /\ "expired" \notin saidBar[c]
        /\ "completed" \in saidBar[c] => c \in carriedOutBar

LifeShape == handed = [c \in Mrids |-> handed[c]]

\* A response keeps the order, when it is Sayable.
LEMMA SayKeepsOrder ==
    ASSUME LifeOrder, NEW c \in Mrids, NEW r \in Responses, Life!Say(c, r)
    PROVE  LifeOrder'
<1>1. handed' = handed /\ carriedOutBar' = carriedOutBar /\ Life!Sayable(c, r)
  BY DEF Life!Say
<1>2. ASSUME NEW d \in Mrids PROVE saidBar'[d] = saidBar[d] \cup (IF d = c THEN {r} ELSE {})
  <2>1. saidBar = [e \in Mrids |-> saidBar[e]]
    BY DEF saidBar
  <2>2. saidBar' = [saidBar EXCEPT ![c] = @ \cup {r}]
    BY DEF Life!Say
  <2> QED BY <2>1, <2>2
<1>3. ASSUME NEW d \in Mrids, d # c PROVE saidBar'[d] = saidBar[d]
  BY <1>2, <1>3
<1>4. saidBar'[c] = saidBar[c] \cup {r}
  BY <1>2
<1> QED BY <1>1, <1>3, <1>4 DEF LifeOrder, Life!Sayable

\* Giving a control to the device and carrying it out keep the order.
LEMMA DoneKeepsOrder ==
    ASSUME LifeOrder, LifeShape, NEW c \in Mrids, Life!Give(c) \/ Life!CarryOut(c)
    PROVE  LifeOrder'
<1>1. saidBar' = saidBar /\ carriedOutBar' \in {carriedOutBar, carriedOutBar \cup {c}}
  BY DEF Life!Give, Life!CarryOut
<1>2. CASE Life!Give(c)
  <2>1. handed'[c] = 1 /\ "started" \in saidBar[c]
    BY <1>2 DEF Life!Give, LifeShape
  <2>2. \A d \in Mrids \ {c} : handed'[d] = handed[d]
    BY <1>2 DEF Life!Give, LifeShape
  <2> QED BY <1>1, <2>1, <2>2 DEF LifeOrder
<1>3. CASE Life!CarryOut(c)
  BY <1>1, <1>3 DEF Life!CarryOut, LifeOrder
<1> QED BY <1>2, <1>3

\* ControlLife is worth implementing: whatever implements it reports in the order of the protocol,
\* gives each control to the device once, and calls completed only what was carried out.
THEOREM LivesAreInOrder ==
    ImplementsLife => [](ResponsesInOrder /\ HandedOnce /\ CompletedIsTrue)
<1>1. Life!LifeInit => LifeOrder /\ LifeShape
  BY DEF Life!LifeInit, LifeOrder, LifeShape
<1>2. LifeOrder /\ LifeShape /\ LifeStep => LifeOrder' /\ LifeShape'
  <2> SUFFICES ASSUME LifeOrder, LifeShape, LifeStep PROVE LifeOrder' /\ LifeShape'
    OBVIOUS
  <2>1. ASSUME NEW c \in Mrids, NEW r \in Responses, Life!Say(c, r)
        PROVE  LifeOrder' /\ LifeShape'
    <3>1. LifeOrder'
      BY <2>1, SayKeepsOrder
    <3>2. LifeShape'
      BY <2>1 DEF Life!Say, LifeShape
    <3> QED BY <3>1, <3>2
  <2>2. ASSUME NEW c \in Mrids, Life!Give(c) \/ Life!CarryOut(c)
        PROVE  LifeOrder' /\ LifeShape'
    <3>1. LifeOrder'
      BY <2>2, DoneKeepsOrder
    <3>2. LifeShape'
      BY <2>2 DEF Life!Give, Life!CarryOut, LifeShape
    <3> QED BY <3>1, <3>2
  <2>3. CASE UNCHANGED Life!life
    <3>1. saidBar' = saidBar /\ handed' = handed /\ carriedOutBar' = carriedOutBar
      BY <2>3 DEF Life!life
    <3> QED BY <3>1 DEF LifeOrder, LifeShape
  <2> QED BY <2>1, <2>2, <2>3 DEF LifeStep, Life!LifeNext
<1>3. LifeOrder => ResponsesInOrder /\ HandedOnce /\ CompletedIsTrue
  <2> SUFFICES ASSUME LifeOrder PROVE ResponsesInOrder /\ HandedOnce /\ CompletedIsTrue
    OBVIOUS
  <2>1. \A c \in Mrids : saidBar[c] = sent[c] \cup owed[c]
    BY DEF saidBar, Said
  <2>2. ResponsesInOrder
    BY <2>1 DEF LifeOrder, ResponsesInOrder
  <2>3. HandedOnce
    BY DEF LifeOrder, HandedOnce
  <2>4. CompletedIsTrue
    BY <2>1 DEF LifeOrder, carriedOutBar, Succeeded, Good, CompletedIsTrue
  <2> QED BY <2>2, <2>3, <2>4
<1> QED BY <1>1, <1>2, <1>3, PTL DEF ImplementsLife, Life!LifeSpec, LifeStep
=============================================================================
