---------------------- MODULE DERControlHandler_proofs ----------------------
(***************************************************************************)
(* What the handler counts as completed and in force is what the PCS       *)
(* obeys, for any controls, lists, default controls, callers, numbers of   *)
(* events and of events that are remembered.                               *)
(*                                                                         *)
(* Both properties speak of the states between two operations.  The        *)
(* invariant adds what holds at the awaits inside of one: which command is *)
(* under way for which event, and that every other event is settled.       *)
(*                                                                         *)
(* The end of the module shows that the handler uses the power service as  *)
(* it is meant to be used, and what the service promises to its users.     *)
(***************************************************************************)
EXTENDS DERControlHandler, Integers, FiniteSetTheorems, SequenceTheorems, TLAPS

Events == [id : Ids, control : Fields, window : Windows, status : Statuses, executed : BOOLEAN]
Labels == {"idle", "power", "default", "tick"}
Ops == {"handle", "default", "tick"}

\* A control that, once executed, changes what the PCS does.
Commanding(c) == c.power # NoPower \/ CutsPower(c) \/ c.connect = "true" \/ c.energize = "true"

\* evs are the events of old, whatever has become of them.
SameEvents(evs, old) ==
    /\ evs \in Seq(Events) /\ Len(evs) = Len(old)
    /\ \A j \in 1..Len(old) : evs[j].id = old[j].id /\ evs[j].control = old[j].control

\* Event trk[i] is over, and commands the PCS only if it is a, the one in force.
Settled(evs, trk, a, i) ==
    /\ evs[trk[i]].status # "active"
    /\ evs[trk[i]].status = "completed" /\ Commanding(evs[trk[i]].control) => trk[i] = a

Stored(evs, trk) ==
    /\ DOMAIN trk \subseteq Ids
    /\ \A i \in DOMAIN trk : trk[i] \in 1..Len(evs) /\ evs[trk[i]].id = i

-----------------------------------------------------------------------------
(***************************************************************************)
(* What the operators of the handler do to the events.                     *)
(***************************************************************************)
\* The branch of a control says what its command makes P_SET hold.
LEMMA BranchesOfControls ==
    ASSUME NEW c \in Fields
    PROVE  /\ Branch(c) \in {"reconnect", "energize", "blocked", "disconnect",
                             "deenergize", "nothing", "set"}
           /\ Branch(c) \in {"energize", "nothing"} => Holds(c) = NoPower
           /\ Branch(c) = "nothing" => ~Commanding(c)
           /\ Branch(c) \in {"reconnect", "disconnect", "deenergize", "set"} =>
                  /\ CommandFor(c) \in Commands
                  /\ Holds(c) # NoPower =>
                         MovesPset(CommandFor(c)) /\ CommandFor(c).value = Holds(c)
<1>1. /\ c.connect \in {"none", "true", "false"} /\ c.energize \in {"none", "true", "false"}
      /\ c.power \in Values \cup {NoPower}
  BY DEF Fields
<1>2. CASE c.connect = "true"
  <2>1. Branch(c) = "reconnect" /\ Holds(c) = NoPower
    BY <1>2 DEF Branch, Holds
  <2>2. CommandFor(c) = [op |-> "reconnect", value |-> Zero]
    BY <2>1 DEF CommandFor
  <2>3. QED
    BY <2>1, <2>2 DEF Commands
<1>3. CASE c.connect # "true" /\ c.energize = "true"
  BY <1>3 DEF Branch, Holds
<1>4. CASE c.connect # "true" /\ c.energize # "true" /\ stopped
  BY <1>4 DEF Branch
<1>5. CASE c.connect # "true" /\ c.energize # "true" /\ ~stopped
  <2>1. CASE c.connect = "false"
    <3>1. Branch(c) = "disconnect" /\ Holds(c) = Zero
      BY <1>5, <2>1 DEF Branch, Holds, CutsPower
    <3>2. CommandFor(c) = [op |-> "disconnect", value |-> Zero]
      BY <3>1 DEF CommandFor
    <3>3. QED
      BY <3>1, <3>2 DEF Commands, MovesPset
  <2>2. CASE c.connect # "false" /\ c.energize = "false"
    <3>1. Branch(c) = "deenergize" /\ Holds(c) = Zero
      BY <1>5, <2>2 DEF Branch, Holds, CutsPower
    <3>2. CommandFor(c) = [op |-> "set", value |-> Zero]
      BY <3>1 DEF CommandFor
    <3>3. QED
      BY <3>1, <3>2, ValuesAssumption DEF Commands, MovesPset
  <2>3. CASE c.connect # "false" /\ c.energize # "false" /\ c.power = NoPower
    <3>1. Branch(c) = "nothing" /\ Holds(c) = NoPower
      BY <1>5, <2>3 DEF Branch, Holds, CutsPower
    <3>2. QED
      BY <1>5, <2>3, <3>1 DEF Commanding, CutsPower
  <2>4. CASE c.connect # "false" /\ c.energize # "false" /\ c.power # NoPower
    <3>1. Branch(c) = "set" /\ Holds(c) = c.power
      BY <1>5, <2>4 DEF Branch, Holds, CutsPower
    <3>2. CommandFor(c) = [op |-> "set", value |-> c.power]
      BY <3>1 DEF CommandFor
    <3>3. QED
      BY <1>1, <2>4, <3>1, <3>2 DEF Commands, MovesPset
  <2>5. QED
    BY <2>1, <2>2, <2>3, <2>4
<1>6. QED
  BY <1>2, <1>3, <1>4, <1>5

\* A mark changes the status of one event.
LEMMA Marking ==
    ASSUME NEW evs \in Seq(Events), NEW k \in 1..Len(evs), NEW s \in Statuses
    PROVE  /\ SameEvents(Mark(evs, k, s), evs)
           /\ \A j \in 1..Len(evs) :
                  Mark(evs, k, s)[j].status = IF j = k THEN s ELSE evs[j].status
<1> DEFINE e == [evs[k] EXCEPT !.status = s]
<1>1. evs[k] \in Events
  BY ElementOfSeq
<1>2. e \in Events /\ e.id = evs[k].id /\ e.control = evs[k].control /\ e.status = s
  BY <1>1 DEF Events
<1> HIDE DEF e
<1>3. Mark(evs, k, s) = [evs EXCEPT ![k] = e]
  BY DEF Mark, e
<1>4. /\ [evs EXCEPT ![k] = e] \in Seq(Events)
      /\ Len([evs EXCEPT ![k] = e]) = Len(evs)
      /\ \A j \in 1..Len(evs) : [evs EXCEPT ![k] = e][j] = IF j = k THEN e ELSE evs[j]
  BY <1>2, ExceptSeq
<1>5. QED
  BY <1>2, <1>3, <1>4 DEF SameEvents

\* An event that is begun is active.
LEMMA Beginning ==
    ASSUME NEW objects \in Seq(Events), NEW k \in 1..Len(objects)
    PROVE  /\ SameEvents(Begun(objects, k), objects)
           /\ \A j \in 1..Len(objects) :
                  Begun(objects, k)[j].status = IF j = k THEN "active" ELSE objects[j].status
<1> DEFINE e == [objects[k] EXCEPT !.status = "active", !.executed = TRUE]
<1>1. objects[k] \in Events
  BY ElementOfSeq
<1>2. "active" \in Statuses /\ TRUE \in BOOLEAN
  BY DEF Statuses
<1>3. e \in Events /\ e.id = objects[k].id /\ e.control = objects[k].control /\ e.status = "active"
  BY <1>1, <1>2 DEF Events
<1>4. Begun(objects, k) = [objects EXCEPT ![k] = e]
  BY LenProperties DEF Begun
<1> HIDE DEF e
<1>5. /\ [objects EXCEPT ![k] = e] \in Seq(Events)
      /\ Len([objects EXCEPT ![k] = e]) = Len(objects)
      /\ \A j \in 1..Len(objects) : [objects EXCEPT ![k] = e][j] = IF j = k THEN e ELSE objects[j]
  BY <1>3, ExceptSeq
<1>6. QED
  BY <1>3, <1>4, <1>5 DEF SameEvents

\* _supersede_and_set_active touches no other event than the one that was in force.
LEMMA Superseding ==
    ASSUME NEW evs \in Seq(Events), NEW a \in 0..Len(evs), NEW k \in 1..Len(evs)
    PROVE  /\ SameEvents(Supersede(evs, a, k), evs)
           /\ \A j \in 1..Len(evs) :
                  Supersede(evs, a, k)[j].status =
                      IF /\ j = a /\ evs[a].id # evs[k].id
                         /\ evs[a].status \in {"active", "completed"}
                      THEN "superseded" ELSE evs[j].status
<1>1. CASE a # 0 /\ evs[a].id # evs[k].id /\ evs[a].status \in {"active", "completed"}
  <2>1. Supersede(evs, a, k) = Mark(evs, a, "superseded")
    BY <1>1 DEF Supersede
  <2>2. "superseded" \in Statuses /\ a \in 1..Len(evs)
    BY <1>1 DEF Statuses
  <2>3. QED
    BY <1>1, <2>1, <2>2, Marking
<1>2. CASE ~(a # 0 /\ evs[a].id # evs[k].id /\ evs[a].status \in {"active", "completed"})
  <2>1. Supersede(evs, a, k) = evs
    BY <1>2 DEF Supersede
  <2>2. QED
    BY <1>2, <2>1 DEF SameEvents
<1>3. QED
  BY <1>1, <1>2

\* A sequence of the same events as the same events is one of the same events.
LEMMA SameAgain ==
    ASSUME NEW e1, NEW e2 \in Seq(Events), NEW e3 \in Seq(Events),
           SameEvents(e1, e2), SameEvents(e2, e3)
    PROVE  SameEvents(e1, e3)
BY DEF SameEvents

\* What is remembered of an operation that is over: the event it executed and others of those
\* that were, under their own mRIDs.
LEMMA Remembering ==
    ASSUME NEW t \in Requesters, NEW op \in Ops, NEW evs \in Seq(Events), NEW k \in 1..Len(evs),
           Stored(evs, tracked), Conclude(t, op, k, evs),
           op = "tick" => evs[k].id \in DOMAIN tracked /\ tracked[evs[k].id] = k
    PROVE  /\ Stored(evs, tracked')
           /\ \A i \in DOMAIN tracked' :
                  IF i = evs[k].id THEN tracked'[i] = k
                  ELSE i \in DOMAIN tracked /\ tracked'[i] = tracked[i]
<1> DEFINE all == Track(k, evs)
<1>1. evs[k] \in Events
  BY ElementOfSeq
<1>2. /\ Stored(evs, all)
      /\ \A i \in DOMAIN all : IF i = evs[k].id THEN all[i] = k
                               ELSE i \in DOMAIN tracked /\ all[i] = tracked[i]
  BY <1>1 DEF Track, Stored, Events
<1> HIDE DEF all
<1>3. CASE op = "handle"
  <2>1. PICK S \in SUBSET DOMAIN all : tracked' = Restrict(all, S)
    <3>1. tracked' \in CleanedUp(all, evs, k)
      BY <1>3 DEF Conclude, all
    <3>2. QED
      BY <3>1 DEF CleanedUp
  <2>2. QED
    BY <1>2, <2>1 DEF Restrict, Stored
<1>4. CASE op = "default"
  BY <1>2, <1>4 DEF Conclude, all
<1>5. CASE op = "tick"
  BY <1>5 DEF Conclude, Stored
<1>6. QED
  BY <1>3, <1>4, <1>5 DEF Ops

-----------------------------------------------------------------------------
(***************************************************************************)
(* The invariant.                                                          *)
(***************************************************************************)
Book ==
    /\ events \in Seq(Events) /\ Stored(events, tracked)
    /\ active \in 0..Len(events) /\ default \in Defaults \cup {NoControl}

Places ==
    /\ pc \in [Requesters -> Labels]
    /\ job \in [Requesters -> [op : Ops \cup {"cancel", "none"}, event : Int]]
    /\ lock \in Requesters \cup {Free}
    /\ \A t \in Requesters : pc[t] # "idle" <=> lock = t
    /\ \A t \in Requesters : pc[t] = "default" => default # NoControl

\* Who is not at the power controller has no call there; what a call has written is what P_SET
\* still is, for no other call writes.
Calls ==
    /\ stage \in [Requesters -> {"idle", "called", "passed", "ok", "error"}]
    /\ command \in [Requesters -> Commands \cup {NoCommand}]
    /\ DOMAIN wrote = Requesters
    /\ pset \in Values
    /\ \A t \in Requesters : pc[t] # "power" => stage[t] = "idle" /\ wrote[t] = FALSE
    /\ \A t \in Requesters :
           MovesPset(command[t]) => wrote[t] = FALSE \/ pset = command[t].value
    /\ \A t \in Requesters : stage[t] = "ok" => DryRun \/ wrote[t] # FALSE

\* What waits to be handled is what handle_control_list was given.
Queued == todo \in [Requesters -> Seq(Ids \X Fields)]

\* What a tick has still to run is remembered.
Ticking ==
    /\ due \in [Requesters -> SUBSET Int]
    /\ lock = Scheduler =>
           \A k \in due[Scheduler] : k \in 1..Len(events) /\ events[k].id \in DOMAIN tracked
                                     /\ tracked[events[k].id] = k

\* At the power controller: the call of event k commands what k holds P_SET at, and every
\* other event is settled; a cancelled event leaves none that counts.
AtWork(t) ==
    LET k == job[t].event
        c == events[k].control
    IN  /\ k \in 1..Len(events) /\ job[t].op # "none"
        /\ job[t].op = "cancel" =>
               \A i \in DOMAIN tracked : Settled(events, tracked, 0, i)
        /\ job[t].op # "cancel" =>
               /\ Holds(c) # NoPower => MovesPset(command[t]) /\ command[t].value = Holds(c)
               /\ \A i \in DOMAIN tracked :
                      i # events[k].id => Settled(events, tracked, active, i)
        /\ job[t].op = "tick" =>
               t = Scheduler /\ events[k].id \in DOMAIN tracked /\ tracked[events[k].id] = k

Working == \A t \in Requesters : pc[t] = "power" => AtWork(t)

\* P_SET is what event a of evs asks for, if it counts as completed.
Obeyed(evs, a) ==
    a # 0 /\ evs[a].status = "completed" /\ Holds(evs[a].control) # NoPower =>
        DryRun \/ pset = Holds(evs[a].control)

Resting ==
    (\A t \in Requesters : pc[t] # "power") =>
        /\ Obeyed(events, active)
        /\ \A i \in DOMAIN tracked : Settled(events, tracked, active, i)

HInv == Book /\ Places /\ Calls /\ Queued /\ Ticking /\ Working /\ Resting

-----------------------------------------------------------------------------
\* The end of an operation leaves every remembered event settled.
LEMMA Concluding ==
    ASSUME Book, Places, NEW t \in Requesters, NEW op \in Ops, lock \in {Free, t},
           NEW evs \in Seq(Events), NEW k \in 1..Len(evs), Len(events) <= Len(evs),
           \A j \in 1..Len(events) : evs[j].id = events[j].id,
           Conclude(t, op, k, evs), events' = evs, active' \in 0..Len(evs), default' = default,
           op = "tick" => evs[k].id \in DOMAIN tracked /\ tracked[evs[k].id] = k,
           \A i \in DOMAIN tracked : i # evs[k].id => Settled(evs, tracked, active', i),
           Settled(evs, [i \in {evs[k].id} |-> k], active', evs[k].id),
           pset' = pset, Obeyed(evs, active')
    PROVE  Book' /\ Places' /\ Working' /\ Resting'
<1>1. Stored(evs, tracked)
  BY DEF Book, Stored
<1>2. /\ Stored(evs, tracked')
      /\ \A i \in DOMAIN tracked' : IF i = evs[k].id THEN tracked'[i] = k
                                    ELSE i \in DOMAIN tracked /\ tracked'[i] = tracked[i]
  BY <1>1, Remembering
<1>3. Book'
  BY <1>2 DEF Book
<1>4. \A u \in Requesters : u # t => pc[u] = "idle"
  BY HandlerNamesAssumption DEF Places
<1>5. /\ Places' /\ \A u \in Requesters : pc'[u] # "power"
      /\ lock' = IF op = "tick" THEN t ELSE Free
  <2>1. CASE op = "tick"
    <3>1. pc' = [pc EXCEPT ![t] = "tick"] /\ lock' = t
      BY <2>1 DEF Conclude
    <3>2. job' = [job EXCEPT ![t] = NoJob] /\ NoJob \in [op : Ops \cup {"cancel", "none"}, event : Int]
      BY DEF Conclude, NoJob
    <3>3. QED
      BY <1>4, <2>1, <3>1, <3>2 DEF Places, Labels
  <2>2. CASE op # "tick"
    <3>1. pc' = [pc EXCEPT ![t] = "idle"] /\ lock' = Free
      BY <2>2 DEF Conclude
    <3>2. job' = [job EXCEPT ![t] = NoJob] /\ NoJob \in [op : Ops \cup {"cancel", "none"}, event : Int]
      BY DEF Conclude, NoJob
    <3>3. QED
      BY <1>4, <2>2, <3>1, <3>2, HandlerNamesAssumption DEF Places, Labels
  <2>3. QED
    BY <2>1, <2>2
<1>6. \A i \in DOMAIN tracked' : Settled(evs, tracked', active', i)
  BY <1>2 DEF Settled
<1>7. Resting'
  BY <1>6 DEF Resting, Obeyed
<1>8. QED
  BY <1>3, <1>5, <1>7 DEF Working

\* _execute_control of event k, which may be a new one, from a state at rest.
LEMMA ExecutingOne ==
    ASSUME Book, Places, Calls, Ticking, Resting, NEW t \in Requesters, NEW op \in Ops,
           lock = t \/ (lock = Free /\ (t # Scheduler \/ due[Scheduler] = {})), pc[t] # "power",
           NEW objects \in Seq(Events), NEW k \in 1..Len(objects), Len(events) <= Len(objects),
           \A j \in 1..Len(events) : objects[j] = events[j],
           op = "tick" => /\ t = Scheduler /\ lock = t
                          /\ objects[k].id \in DOMAIN tracked /\ tracked[objects[k].id] = k,
           Execute(t, op, k, objects, active),
           default' = default, due' \in [Requesters -> SUBSET Int],
           due'[Scheduler] \subseteq due[Scheduler]
    PROVE  Book' /\ Places' /\ Calls' /\ Ticking' /\ Working' /\ Resting'
<1> DEFINE c == objects[k].control
           b == Branch(c)
           evs == Begun(objects, k)
<1>1. objects[k] \in Events /\ c \in Fields
  <2>1. objects[k] \in Events
    BY ElementOfSeq
  <2>2. QED
    BY <2>1 DEF Events
<1>2. \A u \in Requesters : pc[u] # "power"
  BY HandlerNamesAssumption DEF Places
<1>3. /\ SameEvents(evs, objects)
      /\ \A j \in 1..Len(objects) :
             evs[j].status = IF j = k THEN "active" ELSE objects[j].status
  BY Beginning
<1>4. /\ Obeyed(events, active)
      /\ \A i \in DOMAIN tracked : Settled(objects, tracked, active, i)
      /\ Stored(objects, tracked) /\ active \in 0..Len(objects)
      /\ Obeyed(objects, active)
  BY <1>2 DEF Resting, Settled, Book, Stored, Obeyed
<1>5. pset' = pset
  BY DEF Execute
<1> HIDE DEF evs, b, c
<1>6. CASE b \in {"reconnect", "disconnect", "deenergize", "set"}
  <2>1. /\ Begin(t, CommandFor(c))
        /\ events' = IF b = "set" THEN Supersede(evs, active, k) ELSE evs
        /\ active' = IF b = "set" THEN k ELSE active
        /\ pc' = [pc EXCEPT ![t] = "power"]
        /\ job' = [job EXCEPT ![t] = [op |-> op, event |-> k]]
        /\ lock' = t /\ tracked' = tracked
    BY <1>6 DEF Execute, evs, b, c
  <2>2. /\ evs \in Seq(Events) /\ k \in 1..Len(evs) /\ Len(evs) = Len(objects)
        /\ SameEvents(events', objects) /\ active' \in 0..Len(objects)
        /\ \A j \in 1..Len(objects) :
               events'[j].status = IF /\ b = "set" /\ j = active /\ evs[active].id # evs[k].id
                                      /\ evs[active].status \in {"active", "completed"}
                                   THEN "superseded" ELSE evs[j].status
    <3>1. evs \in Seq(Events) /\ k \in 1..Len(evs) /\ active \in 0..Len(evs) /\ Len(evs) = Len(objects)
      BY <1>3, <1>4 DEF SameEvents
    <3>2. CASE b = "set"
      <4>1. events' = Supersede(evs, active, k)
        BY <2>1, <3>2
      <4>2. /\ SameEvents(events', evs)
            /\ \A j \in 1..Len(evs) :
                   events'[j].status = IF /\ j = active /\ evs[active].id # evs[k].id
                                          /\ evs[active].status \in {"active", "completed"}
                                       THEN "superseded" ELSE evs[j].status
        BY <3>1, <4>1, Superseding
      <4>3. SameEvents(events', objects)
        BY <1>3, <3>1, <4>2, SameAgain
      <4>4. QED
        BY <2>1, <3>1, <3>2, <4>2, <4>3
    <3>3. CASE b # "set"
      BY <1>3, <1>4, <2>1, <3>1, <3>3
    <3>4. QED
      BY <3>2, <3>3
  <2>3. Book'
    BY <1>4, <2>1, <2>2 DEF Book, SameEvents, Stored
  <2>4. Places'
    <3>1. [op |-> op, event |-> k] \in [op : Ops \cup {"cancel", "none"}, event : Int]
      OBVIOUS
    <3>2. \A u \in Requesters : u # t => pc[u] = "idle"
      BY HandlerNamesAssumption DEF Places
    <3>3. QED
      BY <2>1, <3>1, <3>2 DEF Places, Labels
  <2>5. CommandFor(c) \in Commands
    BY <1>1, <1>6, BranchesOfControls DEF b
  <2>6. Calls'
    <3>1. /\ stage' = [stage EXCEPT ![t] = "called"] /\ wrote' = wrote
          /\ command' = [command EXCEPT ![t] = CommandFor(c)]
      BY <2>1 DEF Begin, To
    <3>2. \A u \in Requesters : wrote[u] = FALSE
      BY <1>2 DEF Calls
    <3>3. /\ stage' \in [Requesters -> {"idle", "called", "passed", "ok", "error"}]
          /\ command' \in [Requesters -> Commands \cup {NoCommand}]
          /\ DOMAIN wrote' = Requesters /\ pset' \in Values
      BY <1>5, <2>5, <3>1 DEF Calls
    <3>4. \A u \in Requesters : pc'[u] # "power" => stage'[u] = "idle"
      BY <1>2, <2>1, <3>1 DEF Calls, Places
    <3>5. \A u \in Requesters : stage'[u] # "ok"
      BY <1>2, <3>1 DEF Calls
    <3>6. QED
      BY <3>1, <3>2, <3>3, <3>4, <3>5 DEF Calls
  <2>7. Ticking'
    <3>1. ASSUME lock' = Scheduler, NEW j \in due'[Scheduler]
          PROVE  lock = Scheduler /\ j \in due[Scheduler]
      BY <2>1, <3>1
    <3>2. ASSUME lock' = Scheduler, NEW j \in due'[Scheduler]
          PROVE  /\ j \in 1..Len(events') /\ events'[j].id \in DOMAIN tracked'
                 /\ tracked'[events'[j].id] = j
      <4>1. /\ j \in 1..Len(events) /\ events[j].id \in DOMAIN tracked
            /\ tracked[events[j].id] = j
        BY <3>1, <3>2 DEF Ticking
      <4>2. j \in 1..Len(objects) /\ objects[j] = events[j]
        BY <4>1 DEF Book
      <4>3. j \in 1..Len(events') /\ events'[j].id = events[j].id
        BY <2>2, <4>2 DEF SameEvents
      <4>4. QED
        BY <2>1, <4>1, <4>3
    <3>3. QED
      BY <3>2 DEF Ticking
  <2>8. AtWork(t)'
    <3>1. job'[t].event = k /\ job'[t].op = op /\ op \in Ops
      BY <2>1 DEF Places
    <3>2. k \in 1..Len(events') /\ events'[k].control = c /\ events'[k].id = objects[k].id
      BY <2>2 DEF SameEvents, c
    <3>3. Holds(c) # NoPower => MovesPset(command'[t]) /\ command'[t].value = Holds(c)
      BY <1>1, <1>6, <2>1, BranchesOfControls DEF b, Begin, Calls
    <3>4. ASSUME NEW i \in DOMAIN tracked, i # objects[k].id
          PROVE  Settled(events', tracked, active', i)
      <4>1. /\ tracked[i] \in 1..Len(objects) /\ objects[tracked[i]].id = i /\ tracked[i] # k
            /\ Settled(objects, tracked, active, i)
        BY <1>4, <3>4 DEF Stored
      <4>2. /\ evs[tracked[i]].status = objects[tracked[i]].status
            /\ evs[tracked[i]].id = i /\ evs[k].id = objects[k].id
            /\ events'[tracked[i]].control = objects[tracked[i]].control
        BY <1>3, <2>2, <4>1 DEF SameEvents
      <4>3. CASE b = "set"
        BY <2>1, <2>2, <3>4, <4>1, <4>2, <4>3 DEF Settled
      <4>4. CASE b # "set"
        BY <2>1, <2>2, <4>1, <4>2, <4>4 DEF Settled
      <4>5. QED
        BY <4>3, <4>4
    <3>5. QED
      BY <2>1, <3>1, <3>2, <3>3, <3>4 DEF AtWork, Ops
  <2>9. Working' /\ Resting'
    BY <1>2, <2>1, <2>8 DEF Working, Resting, Places
  <2>10. QED
    BY <2>3, <2>4, <2>6, <2>7, <2>9
<1>7. CASE b \in {"energize", "blocked", "nothing"}
  <2>1. /\ events' = CASE b = "energize" -> Supersede(Mark(evs, k, "completed"), active, k)
                       [] b = "blocked"  -> Mark(evs, k, "failed")
                       [] b = "nothing"  -> Mark(evs, k, "completed")
        /\ active' = IF b = "energize" THEN k ELSE active
        /\ Conclude(t, op, k, events')
        /\ UNCHANGED powerCall
    BY <1>7 DEF Execute, evs, b, c
  <2> DEFINE s == IF b = "blocked" THEN "failed" ELSE "completed"
             marked == Mark(evs, k, s)
  <2>2. /\ evs \in Seq(Events) /\ k \in 1..Len(evs) /\ Len(evs) = Len(objects) /\ s \in Statuses
        /\ active \in 0..Len(evs)
    BY <1>3, <1>4 DEF SameEvents, Statuses
  <2>3. /\ SameEvents(marked, objects)
        /\ \A j \in 1..Len(objects) : marked[j].status = IF j = k THEN s ELSE objects[j].status
    <3>1. /\ SameEvents(marked, evs)
          /\ \A j \in 1..Len(evs) : marked[j].status = IF j = k THEN s ELSE evs[j].status
      BY <2>2, Marking
    <3>2. SameEvents(marked, objects)
      BY <1>3, <2>2, <3>1, SameAgain
    <3>3. QED
      BY <1>3, <2>2, <3>1, <3>2
  <2>4. events' = IF b = "energize" THEN Supersede(marked, active, k) ELSE marked
    BY <1>7, <2>1
  <2> HIDE DEF marked, s
  <2>5. marked \in Seq(Events) /\ k \in 1..Len(marked) /\ Len(marked) = Len(objects)
        /\ active \in 0..Len(marked)
    BY <1>4, <2>3 DEF SameEvents
  <2>6. /\ SameEvents(events', objects) /\ active' \in 0..Len(objects)
        /\ \A j \in 1..Len(objects) :
               events'[j].status = IF /\ b = "energize" /\ j = active
                                      /\ marked[active].id # marked[k].id
                                      /\ marked[active].status \in {"active", "completed"}
                                   THEN "superseded" ELSE marked[j].status
    <3>1. CASE b = "energize"
      <4>1. /\ SameEvents(events', marked)
            /\ \A j \in 1..Len(marked) :
                   events'[j].status = IF /\ j = active /\ marked[active].id # marked[k].id
                                          /\ marked[active].status \in {"active", "completed"}
                                       THEN "superseded" ELSE marked[j].status
        BY <2>4, <2>5, <3>1, Superseding
      <4>2. SameEvents(events', objects)
        BY <2>3, <2>5, <4>1, SameAgain
      <4>3. QED
        BY <2>1, <2>5, <3>1, <4>1, <4>2
    <3>2. CASE b # "energize"
      BY <1>4, <2>1, <2>3, <2>4, <3>2
    <3>3. QED
      BY <3>1, <3>2
  <2>7. ASSUME NEW i \in DOMAIN tracked, i # objects[k].id
        PROVE  Settled(events', tracked, active', i)
    <3>1. /\ tracked[i] \in 1..Len(objects) /\ objects[tracked[i]].id = i /\ tracked[i] # k
          /\ Settled(objects, tracked, active, i)
      BY <1>4, <2>7 DEF Stored
    <3>2. /\ marked[tracked[i]].status = objects[tracked[i]].status
          /\ marked[tracked[i]].id = i /\ marked[k].id = objects[k].id
          /\ events'[tracked[i]].control = objects[tracked[i]].control
      BY <2>3, <2>6, <3>1 DEF SameEvents
    <3>3. CASE b = "energize"
      BY <2>1, <2>6, <2>7, <3>1, <3>2, <3>3 DEF Settled
    <3>4. CASE b # "energize"
      BY <2>1, <2>6, <3>1, <3>2, <3>4 DEF Settled
    <3>5. QED
      BY <3>3, <3>4
  <2>8. events'[k].control = c /\ events'[k].id = objects[k].id
    BY <2>6 DEF SameEvents, c
  <2>9. events'[k].status = s
    BY <2>3, <2>6
  <2>10. /\ s # "active"
         /\ s = "completed" /\ Commanding(c) => active' = k
         /\ s = "completed" => b = "energize" \/ ~Commanding(c)
         /\ s = "completed" => Holds(c) = NoPower
    BY <1>1, <1>7, <2>1, BranchesOfControls DEF b, s
  <2>11. Settled(events', [i \in {events'[k].id} |-> k], active', events'[k].id)
    BY <2>8, <2>9, <2>10 DEF Settled
  <2>12. Obeyed(events', active')
    <3>1. CASE active' = k
      BY <2>8, <2>9, <2>10, <3>1 DEF Obeyed
    <3>2. CASE active' # k
      <4>1. active' = active /\ b # "energize"
        BY <2>1, <3>2
      <4>2. active # 0 => /\ events'[active].status = objects[active].status
                          /\ events'[active].control = objects[active].control
        BY <1>4, <2>3, <2>6, <3>2, <4>1 DEF SameEvents
      <4>3. QED
        BY <1>4, <4>1, <4>2 DEF Obeyed
    <3>3. QED
      BY <3>1, <3>2
  <2>13. /\ events' \in Seq(Events) /\ k \in 1..Len(events') /\ Len(events) <= Len(events')
         /\ \A j \in 1..Len(events) : events'[j].id = events[j].id
         /\ active' \in 0..Len(events')
    BY <2>6 DEF SameEvents
  <2>14. Book' /\ Places' /\ Working' /\ Resting'
    BY <1>5, <2>1, <2>7, <2>8, <2>11, <2>12, <2>13, Concluding
  <2>15. Calls'
    BY <1>2, <1>5, <2>1, <2>14 DEF Calls, powerCall
  <2>16. Ticking'
    <3>1. CASE op = "tick"
      <4>1. tracked' = tracked
        BY <3>1, <2>1 DEF Conclude
      <4>2. QED
        BY <2>6, <3>1, <4>1 DEF Ticking, SameEvents
    <3>2. CASE op # "tick"
      <4>1. lock' = Free
        BY <2>1, <3>2 DEF Conclude
      <4>2. QED
        BY <4>1, HandlerNamesAssumption DEF Ticking
    <3>3. QED
      BY <3>1, <3>2
  <2>17. QED
    BY <2>14, <2>15, <2>16
<1>8. QED
  BY <1>1, <1>6, <1>7, BranchesOfControls DEF b

\* Appending an event leaves the others.
LEMMA Receiving ==
    ASSUME NEW evs \in Seq(Events), NEW e \in Events
    PROVE  /\ Append(evs, e) \in Seq(Events) /\ Len(Append(evs, e)) = Len(evs) + 1
           /\ Append(evs, e)[Len(evs) + 1] = e
           /\ \A j \in 1..Len(evs) : Append(evs, e)[j] = evs[j]
BY AppendProperties

\* handle_control, of a control whose interval has begun or not.
LEMMA Handling ==
    ASSUME HInv, NEW t \in Requesters, t # Scheduler \/ due[Scheduler] = {},
           NEW i \in Ids, NEW c \in Fields, NEW w \in Windows, HandleControl(t, i, c, w)
    PROVE  Book' /\ Places' /\ Calls' /\ Ticking' /\ Working' /\ Resting'
<1> DEFINE k == Len(events) + 1
           e == NewEvent(i, c, w)
           scheduled == [e EXCEPT !.status = "scheduled"]
<1>1. /\ e \in Events /\ e.id = i
      /\ scheduled \in Events /\ scheduled.id = i /\ scheduled.status = "scheduled"
  <2>1. "pending" \in Statuses /\ "scheduled" \in Statuses /\ FALSE \in BOOLEAN
    BY DEF Statuses
  <2>2. e \in Events /\ e.id = i
    BY <2>1 DEF NewEvent, Events
  <2> HIDE DEF e
  <2>3. QED
    BY <2>1, <2>2 DEF Events
<1> HIDE DEF e, scheduled
<1>2. /\ events \in Seq(Events) /\ Len(events) \in Nat
      /\ pc[t] = "idle" /\ lock = Free /\ default' = default /\ due' = due
  BY LenProperties DEF HandleControl, HInv, Book
<1>3. CASE w = "future"
  <2>1. /\ events' = Append(events, scheduled) /\ tracked' = Track(k, events')
        /\ UNCHANGED <<powerVars, lock, active, pc, job>>
    BY <1>3 DEF HandleControl, k, e, scheduled
  <2>2. /\ events' \in Seq(Events) /\ Len(events') = k /\ events'[k] = scheduled
        /\ \A j \in 1..Len(events) : events'[j] = events[j]
    BY <1>1, <1>2, <2>1, Receiving
  <2>3. /\ Stored(events', tracked')
        /\ \A j \in DOMAIN tracked' : IF j = i THEN tracked'[j] = k
                                      ELSE j \in DOMAIN tracked /\ tracked'[j] = tracked[j]
    BY <1>1, <1>2, <2>1, <2>2 DEF Track, HInv, Book, Stored
  <2>4. Book'
    BY <1>2, <2>1, <2>2, <2>3 DEF HInv, Book
  <2>5. \A u \in Requesters : pc[u] # "power"
    BY <1>2, HandlerNamesAssumption DEF HInv, Places
  <2>6. Resting'
    <3>1. Obeyed(events', active)
      BY <1>2, <2>2, <2>5 DEF HInv, Book, Resting, Obeyed
    <3>2. \A j \in DOMAIN tracked' : Settled(events', tracked', active, j)
      BY <1>1, <2>2, <2>3, <2>5 DEF HInv, Book, Resting, Settled, Stored
    <3>3. QED
      BY <2>1, <3>1, <3>2 DEF Resting, Obeyed, powerVars
  <2>7. Places' /\ Calls' /\ Ticking' /\ Working'
    BY <1>2, <2>1, <2>5, HandlerNamesAssumption
       DEF HInv, Places, Calls, Ticking, Working, powerVars, powerCall
  <2>8. QED
    BY <2>4, <2>6, <2>7
<1>4. CASE w # "future"
  <2> DEFINE objects == Append(events, e)
  <2>1. Execute(t, "handle", k, objects, active)
    BY <1>4 DEF HandleControl, k, e
  <2>2. /\ objects \in Seq(Events) /\ Len(objects) = k
        /\ \A j \in 1..Len(events) : objects[j] = events[j]
    BY <1>1, <1>2, Receiving
  <2> HIDE DEF objects
  <2>3. /\ k \in 1..Len(objects) /\ Len(events) <= Len(objects) /\ "handle" \in Ops
        /\ due' \in [Requesters -> SUBSET Int] /\ due'[Scheduler] \subseteq due[Scheduler]
    BY <1>2, <2>2 DEF Ops, HInv, Ticking
  <2>4. QED
    BY <1>2, <2>1, <2>2, <2>3, ExecutingOne DEF HInv
<1>5. QED
  BY <1>3, <1>4

\* The answer of the power controller to a call that was not made to cancel.
LEMMA Returning == ASSUME HInv, NEW t \in Requesters, PowerReturned(t) PROVE HInv'
<1> DEFINE op == job[t].op
           k == job[t].event
           c == events[k].control
           s == IF stage[t] = "ok" THEN "completed" ELSE "failed"
           evs == Mark(events, k, s)
<1>1. /\ pc[t] = "power" /\ op # "cancel" /\ Take(t)
      /\ events' = Supersede(evs, active, k) /\ active' = k
      /\ Conclude(t, op, k, events')
      /\ UNCHANGED <<stopped, pset, default, due, todo>>
  BY DEF PowerReturned
<1>2. AtWork(t) /\ events \in Seq(Events) /\ Stored(events, tracked) /\ active \in 0..Len(events)
  BY <1>1 DEF HInv, Working, Book
<1>3. k \in 1..Len(events) /\ op \in Ops /\ s \in Statuses
  BY <1>1, <1>2 DEF AtWork, HInv, Places, Statuses, Ops
<1>4. lock = t /\ \A u \in Requesters : u # t => pc[u] = "idle"
  BY <1>1 DEF HInv, Places
<1> HIDE DEF s
<1>5. /\ SameEvents(evs, events)
      /\ \A j \in 1..Len(events) : evs[j].status = IF j = k THEN s ELSE events[j].status
  BY <1>2, <1>3, Marking
<1> HIDE DEF evs
<1>6. /\ evs \in Seq(Events) /\ Len(evs) = Len(events)
      /\ active \in 0..Len(evs) /\ k \in 1..Len(evs)
  BY <1>2, <1>3, <1>5 DEF SameEvents
<1>7. /\ SameEvents(events', evs)
      /\ \A j \in 1..Len(evs) :
             events'[j].status = IF /\ j = active /\ evs[active].id # evs[k].id
                                    /\ evs[active].status \in {"active", "completed"}
                                 THEN "superseded" ELSE evs[j].status
  BY <1>1, <1>6, Superseding
<1>8. SameEvents(events', events)
  BY <1>2, <1>5, <1>6, <1>7, SameAgain
<1> HIDE DEF op, k
<1>9. /\ events' \in Seq(Events) /\ k \in 1..Len(events') /\ Len(events') = Len(events)
      /\ \A j \in 1..Len(events) : events'[j].id = events[j].id
      /\ events'[k].control = c
  BY <1>3, <1>8 DEF SameEvents
<1>10. ASSUME NEW i \in DOMAIN tracked, i # events'[k].id
       PROVE  Settled(events', tracked, active', i)
  <2>1. /\ tracked[i] \in 1..Len(events) /\ events[tracked[i]].id = i /\ tracked[i] # k
        /\ Settled(events, tracked, active, i)
    BY <1>1, <1>2, <1>3, <1>9, <1>10 DEF AtWork, Stored, op, k
  <2>2. /\ evs[tracked[i]].status = events[tracked[i]].status
        /\ evs[tracked[i]].id = i /\ evs[k].id # i
        /\ events'[tracked[i]].control = events[tracked[i]].control
    BY <1>3, <1>5, <1>8, <1>9, <1>10, <2>1 DEF SameEvents
  <2>3. QED
    BY <1>6, <1>7, <2>1, <2>2 DEF Settled
<1>11. events'[k].status = s
  BY <1>3, <1>5, <1>6, <1>7
<1>12. Settled(events', [i \in {events'[k].id} |-> k], active', events'[k].id)
  BY <1>1, <1>11 DEF Settled, s
<1>13. Obeyed(events', active')
  <2>1. ASSUME s = "completed", Holds(c) # NoPower PROVE DryRun \/ pset = Holds(c)
    <3>1. stage[t] = "ok"
      BY <2>1 DEF s
    <3>2. MovesPset(command[t]) /\ command[t].value = Holds(c)
      BY <1>1, <1>2, <2>1 DEF AtWork, op, k
    <3>3. QED
      BY <3>1, <3>2 DEF HInv, Calls
  <2>2. active' = k /\ events'[k].control = c /\ events'[k].status = s
    BY <1>1, <1>9, <1>11
  <2> HIDE DEF c
  <2>3. QED
    BY <2>1, <2>2 DEF Obeyed
<1>14. op = "tick" => /\ t = Scheduler /\ events'[k].id \in DOMAIN tracked
                      /\ tracked[events'[k].id] = k
  BY <1>2, <1>3, <1>9 DEF AtWork, op, k
<1>15. /\ active' \in 0..Len(events') /\ default' = default /\ pset' = pset
       /\ lock \in {Free, t} /\ Len(events) <= Len(events') /\ Book /\ Places
  BY <1>1, <1>2, <1>4, <1>9 DEF HInv
<1>16. Book' /\ Places' /\ Working' /\ Resting'
  BY <1>1, <1>3, <1>9, <1>10, <1>12, <1>13, <1>14, <1>15, Concluding
<1>17. Calls'
  <2>1. /\ stage' = [stage EXCEPT ![t] = "idle"] /\ command' = [command EXCEPT ![t] = NoCommand]
        /\ wrote' = [wrote EXCEPT ![t] = FALSE] /\ pset' = pset
    BY <1>1 DEF Take, To
  <2>2. QED
    BY <1>4, <2>1 DEF HInv, Calls
<1>18. Ticking'
  <2>1. CASE op = "tick"
    <3>1. tracked' = tracked /\ due' = due
      BY <1>1, <2>1 DEF Conclude
    <3>2. QED
      BY <1>4, <1>9, <1>14, <2>1, <3>1 DEF HInv, Ticking
  <2>2. CASE op # "tick"
    <3>1. lock' = Free /\ due' = due
      BY <1>1, <2>2 DEF Conclude
    <3>2. QED
      BY <3>1, HandlerNamesAssumption DEF HInv, Ticking
  <2>3. QED
    BY <2>1, <2>2
<1>19. Queued'
  BY <1>1 DEF HInv, Queued
<1>20. QED
  BY <1>16, <1>17, <1>18, <1>19 DEF HInv

\* cancel_control, up to the answer of the power controller if it is asked.
LEMMA Cancelling ==
    ASSUME HInv, NEW t \in Requesters, t # Scheduler \/ due[Scheduler] = {},
           NEW i \in Ids, CancelControl(t, i)
    PROVE  HInv'
<1> DEFINE k == tracked[i]
           cuts == CutsPower(events[k].control)
<1>1. /\ pc[t] = "idle" /\ lock = Free /\ i \in DOMAIN tracked
      /\ events' = Mark(events, k, "cancelled")
      /\ UNCHANGED <<tracked, active, default, due, todo>>
  BY DEF CancelControl
<1>2. /\ events \in Seq(Events) /\ Stored(events, tracked) /\ active \in 0..Len(events)
      /\ k \in 1..Len(events) /\ "cancelled" \in Statuses
  BY <1>1 DEF HInv, Book, Stored, Statuses
<1>3. \A u \in Requesters : pc[u] = "idle"
  BY <1>1, HandlerNamesAssumption DEF HInv, Places
<1>4. /\ SameEvents(events', events)
      /\ \A j \in 1..Len(events) :
             events'[j].status = IF j = k THEN "cancelled" ELSE events[j].status
  BY <1>1, <1>2, Marking
<1>5. \A j \in DOMAIN tracked : Settled(events, tracked, active, j) /\ Settled(events', tracked, active, j)
  BY <1>2, <1>3, <1>4 DEF HInv, Resting, Settled, SameEvents, Stored
<1>6. Book' /\ Queued'
  BY <1>1, <1>2, <1>4 DEF HInv, Book, Queued, SameEvents, Stored
<1>7. CASE k = active
  <2>1. /\ Begin(t, [op |-> IF cuts THEN "reconnect" ELSE "set", value |-> Zero])
        /\ lock' = t /\ pc' = [pc EXCEPT ![t] = "power"]
        /\ job' = [job EXCEPT ![t] = [op |-> "cancel", event |-> k]]
        /\ pset' = pset
    BY <1>7 DEF CancelControl
  <2>2. Places'
    <3>1. [op |-> "cancel", event |-> k] \in [op : Ops \cup {"cancel", "none"}, event : Int]
      BY <1>2
    <3>2. QED
      BY <1>3, <2>1, <3>1, HandlerNamesAssumption DEF HInv, Places, Labels
  <2>3. Calls'
    <3> DEFINE order == [op |-> IF cuts THEN "reconnect" ELSE "set", value |-> Zero]
    <3>1. order \in Commands
      BY ValuesAssumption DEF Commands
    <3> HIDE DEF order
    <3>2. /\ stage' = [stage EXCEPT ![t] = "called"] /\ wrote' = wrote
          /\ command' = [command EXCEPT ![t] = order]
      BY <2>1 DEF Begin, To, order
    <3>3. \A u \in Requesters : wrote[u] = FALSE /\ stage[u] = "idle"
      BY <1>3 DEF HInv, Calls
    <3>4. \A u \in Requesters : pc'[u] # "power" => stage'[u] = "idle"
      BY <1>3, <2>1, <3>2, <3>3 DEF HInv, Calls, Places
    <3>5. QED
      BY <2>1, <3>1, <3>2, <3>3, <3>4 DEF HInv, Calls
  <2>4. Ticking'
    BY <1>1, <2>1 DEF HInv, Ticking
  <2>5. AtWork(t)'
    <3>1. job'[t].event = k /\ job'[t].op = "cancel"
      BY <2>1 DEF HInv, Places
    <3>2. \A j \in DOMAIN tracked : Settled(events', tracked, 0, j)
      BY <1>2, <1>4, <1>5, <1>7 DEF Settled, Stored
    <3>3. k \in 1..Len(events')
      BY <1>2, <1>4 DEF SameEvents
    <3>4. QED
      BY <1>1, <3>1, <3>2, <3>3 DEF AtWork
  <2>6. Working' /\ Resting'
    BY <1>3, <2>1, <2>5 DEF HInv, Working, Resting, Places
  <2>7. QED
    BY <1>6, <2>2, <2>3, <2>4, <2>6 DEF HInv
<1>8. CASE k # active
  <2>1. UNCHANGED <<powerVars, lock, pc, job>>
    BY <1>8 DEF CancelControl
  <2>2. Obeyed(events', active)
    BY <1>2, <1>3, <1>4, <1>8 DEF HInv, Resting, Obeyed, SameEvents
  <2>3. Resting'
    BY <1>1, <1>5, <2>1, <2>2 DEF Resting, Obeyed, powerVars
  <2>4. Places' /\ Calls' /\ Ticking' /\ Working'
    BY <1>1, <1>3, <2>1, HandlerNamesAssumption
       DEF HInv, Places, Calls, Ticking, Working, powerVars, powerCall
  <2>5. QED
    BY <1>6, <2>3, <2>4 DEF HInv
<1>9. QED
  BY <1>7, <1>8

\* The answer to the call that a cancellation made, whether a default control follows or not.
LEMMA CancelEnding ==
    ASSUME HInv, NEW t \in Requesters, CancelReturned(t) \/ CancelFallsBack(t)
    PROVE  HInv'
<1>1. /\ pc[t] = "power" /\ job[t].op = "cancel" /\ Take(t) /\ active' = 0
      /\ job' = [job EXCEPT ![t] = NoJob]
      /\ UNCHANGED <<stopped, pset, events, tracked, default, due, todo>>
  BY DEF CancelReturned, CancelFallsBack
<1>2. \/ pc' = [pc EXCEPT ![t] = "idle"] /\ lock' = Free
      \/ pc' = [pc EXCEPT ![t] = "default"] /\ lock' = lock /\ default # NoControl
  BY DEF CancelReturned, CancelFallsBack
<1>3. lock = t /\ \A u \in Requesters : u # t => pc[u] = "idle"
  BY <1>1 DEF HInv, Places
<1>4. /\ Places' /\ \A u \in Requesters : pc'[u] # "power"
      /\ lock' \in {lock, Free}
  <2>1. NoJob \in [op : Ops \cup {"cancel", "none"}, event : Int]
    BY DEF NoJob
  <2>2. job' \in [Requesters -> [op : Ops \cup {"cancel", "none"}, event : Int]] /\ default' = default
    BY <1>1, <2>1 DEF HInv, Places
  <2>3. CASE pc' = [pc EXCEPT ![t] = "idle"] /\ lock' = Free
    BY <1>3, <2>2, <2>3, HandlerNamesAssumption DEF HInv, Places, Labels
  <2>4. CASE pc' = [pc EXCEPT ![t] = "default"] /\ lock' = lock /\ default # NoControl
    BY <1>3, <2>2, <2>4, HandlerNamesAssumption DEF HInv, Places, Labels
  <2>5. QED
    BY <1>2, <2>3, <2>4
<1>5. Book' /\ Queued'
  BY <1>1 DEF HInv, Book, Queued
<1>6. Calls'
  <2>1. /\ stage' = [stage EXCEPT ![t] = "idle"] /\ command' = [command EXCEPT ![t] = NoCommand]
        /\ wrote' = [wrote EXCEPT ![t] = FALSE] /\ pset' = pset
    BY <1>1 DEF Take, To
  <2>2. QED
    BY <1>3, <2>1 DEF HInv, Calls
<1>7. Ticking'
  BY <1>1, <1>4, HandlerNamesAssumption DEF HInv, Ticking
<1>8. \A i \in DOMAIN tracked : Settled(events, tracked, 0, i)
  BY <1>1 DEF HInv, Working, AtWork
<1>9. Resting' /\ Working'
  BY <1>1, <1>4, <1>8 DEF Resting, Working, Obeyed
<1>10. QED
  BY <1>4, <1>5, <1>6, <1>7, <1>9 DEF HInv

\* A step inside the power controller moves P_SET for the call under way and for no other.
LEMMA Commanded == ASSUME HInv, NEW t \in Requesters, InController(t) PROVE HInv'
<1>1. PowerStep(t) /\ UNCHANGED handlerVars
  BY DEF InController
<1>2. stage[t] # "idle" /\ stage[t] \in {"called", "passed"}
  BY <1>1 DEF PowerStep, Pass, Write, Fail, Refuse, Succeed
<1>3. pc[t] = "power" /\ \A u \in Requesters : u # t => pc[u] = "idle"
  BY <1>2 DEF HInv, Calls, Places
<1>4. Book' /\ Places' /\ Queued' /\ Ticking' /\ command' = command
  BY <1>1 DEF HInv, Book, Places, Queued, Ticking, handlerVars, book,
              PowerStep, Pass, Write, Fail, Refuse, Succeed
<1>5. Working' /\ Resting'
  BY <1>1, <1>3, <1>4 DEF HInv, Working, AtWork, Resting, handlerVars, book
<1>6. /\ stage' \in [Requesters -> {"idle", "called", "passed", "ok", "error"}]
      /\ \A u \in Requesters : u # t => stage'[u] = stage[u]
      /\ wrote' = wrote \/ wrote' = [wrote EXCEPT ![t] = TRUE]
      /\ stage'[t] = "ok" => DryRun \/ wrote'[t] # FALSE
      /\ wrote' = wrote => pset' = pset \/ (MovesPset(command[t]) /\ pset' = command[t].value)
      /\ wrote' # wrote => pset' = IF MovesPset(command[t]) THEN command[t].value ELSE pset
  BY <1>1, <1>2 DEF HInv, Calls, PowerStep, Pass, Write, Fail, Refuse, Succeed, Deliver, To
<1>7. Calls'
  <2>1. \A u \in Requesters : command[u].value \in Values
    BY ValuesAssumption DEF HInv, Calls, Commands, NoCommand
  <2>2. \A u \in Requesters : u # t => stage'[u] = "idle" /\ wrote'[u] = FALSE
    BY <1>3, <1>6 DEF HInv, Calls
  <2>3. DOMAIN wrote' = Requesters /\ pset' \in Values
    BY <1>6, <2>1 DEF HInv, Calls
  <2>4. MovesPset(command[t]) => wrote'[t] = FALSE \/ pset' = command[t].value
    BY <1>6 DEF HInv, Calls
  <2>5. pc' = pc
    BY <1>1 DEF handlerVars
  <2>6. QED
    BY <1>3, <1>4, <1>6, <2>2, <2>3, <2>4, <2>5 DEF HInv, Calls
<1>8. QED
  BY <1>4, <1>5, <1>7 DEF HInv

\* The list of handle_control_list waits in some order of its primacies.
LEMMA Listing ==
    ASSUME HInv, NEW t \in Requesters \ {Scheduler}, HandleControlList(t)
    PROVE  HInv'
<1>1. PICK list \in Lists : todo' \in {[todo EXCEPT ![t] = s] : s \in InOrder(list)}
  BY DEF HandleControlList
<1>2. PICK s \in InOrder(list) : todo' = [todo EXCEPT ![t] = s]
  BY <1>1
<1>3. s \in Seq(Ids \X Fields)
  <2>1. list \in SUBSET (Ids \X Fields) /\ Cardinality(list) \in Nat
    BY ListsAssumption, FS_CardinalityType
  <2>2. s \in [1..Cardinality(list) -> list]
    BY DEF InOrder
  <2>3. QED
    BY <2>1, <2>2
<1>4. Queued'
  BY <1>2, <1>3 DEF HInv, Queued
<1>5. UNCHANGED <<powerVars, lock, book, pc, job, due>>
  BY DEF HandleControlList
<1>6. QED
  BY <1>4, <1>5 DEF HInv, Book, Places, Calls, Ticking, Working, AtWork, Resting, Obeyed,
                    powerVars, powerCall, book

\* The scheduler takes the lock for what is due.
LEMMA TickStarting == ASSUME HInv, StartTick PROVE HInv'
<1>1. /\ pc[Scheduler] = "idle" /\ lock = Free /\ lock' = Scheduler
      /\ due' = [due EXCEPT ![Scheduler] = Due]
      /\ pc' = [pc EXCEPT ![Scheduler] = "tick"]
      /\ UNCHANGED <<powerVars, book, job, todo>>
  BY DEF StartTick
<1>2. \A u \in Requesters : pc[u] = "idle" /\ pc'[u] # "power"
  BY <1>1, HandlerNamesAssumption DEF HInv, Places
<1>3. Due \in SUBSET Int /\ \A k \in Due : k \in 1..Len(events) /\ events[k].id \in DOMAIN tracked
                                            /\ tracked[events[k].id] = k
  <2>1. DOMAIN events = 1..Len(events)
    BY LenProperties DEF HInv, Book
  <2>2. QED
    BY <2>1 DEF Due, Range, HInv, Book, Stored
<1>4. Ticking'
  BY <1>1, <1>3, HandlerNamesAssumption DEF HInv, Ticking, book
<1>5. Places'
  BY <1>1, <1>2, HandlerNamesAssumption DEF HInv, Places, Labels
<1>6. Book' /\ Queued' /\ Working' /\ Resting' /\ Calls'
  BY <1>1, <1>2 DEF HInv, Book, Queued, Working, Resting, Obeyed, Calls, powerVars, powerCall, book
<1>7. QED
  BY <1>4, <1>5, <1>6 DEF HInv

\* It executes one of them.
LEMMA DueRunning == ASSUME HInv, RunDue PROVE HInv'
<1>1. PICK k \in due[Scheduler] : /\ due' = [due EXCEPT ![Scheduler] = @ \ {k}]
                                  /\ Execute(Scheduler, "tick", k, events, active)
  BY DEF RunDue
<1>2. pc[Scheduler] = "tick" /\ default' = default /\ todo' = todo
  BY DEF RunDue
<1>3. Scheduler \in Requesters /\ lock = Scheduler /\ "tick" \in Ops
  BY <1>2, HandlerNamesAssumption DEF HInv, Places, Ops
<1>4. /\ events \in Seq(Events) /\ k \in 1..Len(events) /\ events[k].id \in DOMAIN tracked
      /\ tracked[events[k].id] = k /\ Len(events) <= Len(events)
  BY <1>3, LenProperties DEF HInv, Book, Ticking
<1>5. due' \in [Requesters -> SUBSET Int] /\ due'[Scheduler] \subseteq due[Scheduler]
  BY <1>1, <1>3 DEF HInv, Ticking
<1>6. Book' /\ Places' /\ Calls' /\ Ticking' /\ Working' /\ Resting'
  BY <1>1, <1>2, <1>3, <1>4, <1>5, ExecutingOne DEF HInv
<1>7. QED
  BY <1>2, <1>6 DEF HInv, Queued

\* It releases the lock.
LEMMA TickEnding == ASSUME HInv, EndTick PROVE HInv'
<1>1. /\ pc[Scheduler] = "tick" /\ lock' = Free /\ pc' = [pc EXCEPT ![Scheduler] = "idle"]
      /\ UNCHANGED <<powerVars, book, job, due, todo>>
  BY DEF EndTick
<1>2. lock = Scheduler /\ \A u \in Requesters : u # Scheduler => pc[u] = "idle"
  BY <1>1, HandlerNamesAssumption DEF HInv, Places
<1>3. Places' /\ \A u \in Requesters : pc'[u] = "idle" /\ pc[u] # "power"
  BY <1>1, <1>2, HandlerNamesAssumption DEF HInv, Places, Labels
<1>4. Ticking'
  BY <1>1, HandlerNamesAssumption DEF HInv, Ticking
<1>5. Book' /\ Queued' /\ Working' /\ Resting' /\ Calls'
  BY <1>1, <1>3 DEF HInv, Book, Queued, Working, Resting, Obeyed, Calls, powerVars, powerCall, book
<1>6. QED
  BY <1>3, <1>4, <1>5 DEF HInv

\* The fall-back to the default control.
LEMMA Defaulting == ASSUME HInv, NEW t \in Requesters, ApplyDefaultControl(t) PROVE HInv'
<1> DEFINE e == NewEvent(DefaultId, default, "open")
           k == Len(events) + 1
           objects == Append(events, e)
<1>1. /\ pc[t] = "default" /\ Execute(t, "default", k, objects, active)
      /\ default' = default /\ due' = due /\ todo' = todo
  BY DEF ApplyDefaultControl
<1>2. lock = t /\ "default" \in Ops
  BY <1>1 DEF HInv, Places, Ops
<1>3. events \in Seq(Events) /\ Len(events) \in Nat
  BY LenProperties DEF HInv, Book
<1>4. default \in Fields
  BY <1>1, ControlsAssumption DEF HInv, Book, Places
<1>5. QED
  <2>1. e \in Events
    BY <1>4, HandlerNamesAssumption DEF NewEvent, Events, Statuses, Windows
  <2> HIDE DEF e
  <2>2. /\ objects \in Seq(Events) /\ Len(objects) = k
        /\ \A j \in 1..Len(events) : objects[j] = events[j]
    BY <1>3, <2>1, Receiving
  <2> HIDE DEF objects
  <2>3. /\ k \in 1..Len(objects) /\ Len(events) <= Len(objects)
        /\ due' \in [Requesters -> SUBSET Int] /\ due'[Scheduler] \subseteq due[Scheduler]
    BY <1>1, <1>3, <2>2 DEF HInv, Ticking
  <2>4. Book' /\ Places' /\ Calls' /\ Ticking' /\ Working' /\ Resting'
    BY <1>1, <1>2, <2>2, <2>3, ExecutingOne DEF HInv
  <2>5. QED
    BY <1>1, <2>4 DEF HInv, Queued

\* Time changes no status.
LEMMA TimePassing == ASSUME HInv, PassTime PROVE HInv'
<1>1. PICK k \in DOMAIN events :
          events' = [events EXCEPT ![k].window = IF @ = "future" THEN "open" ELSE "past"]
  BY DEF PassTime
<1>2. UNCHANGED <<powerVars, lock, tracked, active, default, pc, job, due, todo>>
  BY DEF PassTime
<1> DEFINE w == IF events[k].window = "future" THEN "open" ELSE "past"
           e == [events[k] EXCEPT !.window = w]
<1>3. events \in Seq(Events) /\ DOMAIN events = 1..Len(events) /\ events[k] \in Events
  BY LenProperties, ElementOfSeq DEF HInv, Book
<1>4. /\ e \in Events /\ e.id = events[k].id /\ e.control = events[k].control
      /\ e.status = events[k].status
  BY <1>3 DEF Events, Windows
<1>5. events' = [events EXCEPT ![k] = e]
  BY <1>1, <1>3
<1> HIDE DEF e
<1>6. /\ SameEvents(events', events)
      /\ \A j \in 1..Len(events) : events'[j].status = events[j].status
  BY <1>3, <1>4, <1>5, ExceptSeq DEF SameEvents
<1>7. Book'
  BY <1>2, <1>6 DEF HInv, Book, Stored, SameEvents
<1>8. \A a \in 0..Len(events) : \A i \in DOMAIN tracked :
          Settled(events, tracked, a, i) => Settled(events', tracked, a, i)
  BY <1>6 DEF HInv, Book, Stored, SameEvents, Settled
<1>9. Obeyed(events, active) => Obeyed(events', active)
  BY <1>6 DEF HInv, Book, Obeyed, SameEvents
<1>10. Resting'
  BY <1>2, <1>8, <1>9 DEF HInv, Book, Resting, Obeyed, powerVars
<1>11. Working'
  <2> SUFFICES ASSUME NEW t \in Requesters, pc[t] = "power" PROVE AtWork(t)'
    BY <1>2 DEF Working
  <2>1. AtWork(t)
    BY DEF HInv, Working
  <2>2. /\ job[t].event \in 1..Len(events) /\ Len(events') = Len(events)
        /\ events'[job[t].event].id = events[job[t].event].id
        /\ events'[job[t].event].control = events[job[t].event].control
    BY <1>6, <2>1 DEF AtWork, SameEvents
  <2>3. 0 \in 0..Len(events) /\ active \in 0..Len(events)
    BY <1>3, LenProperties DEF HInv, Book
  <2>4. QED
    BY <1>2, <1>8, <2>1, <2>2, <2>3 DEF AtWork, powerVars, powerCall
<1>12. Places' /\ Calls' /\ Queued' /\ Ticking'
  BY <1>2, <1>6 DEF HInv, Places, Calls, Queued, Ticking, SameEvents, powerVars, powerCall
<1>13. QED
  BY <1>7, <1>10, <1>11, <1>12 DEF HInv

\* Nothing is remembered, queued or under way at first.
LEMMA HandlerInitially == HandlerInit => HInv
<1> SUFFICES ASSUME HandlerInit PROVE HInv
  OBVIOUS
<1>1. Book
  BY EmptySeq DEF HandlerInit, Book, Stored
<1>2. Places
  BY HandlerNamesAssumption DEF HandlerInit, Places, Labels, NoJob
<1>3. Calls
  BY DEF HandlerInit, PowerInit, Calls
<1>4. Queued /\ Ticking /\ Working
  BY HandlerNamesAssumption DEF HandlerInit, Queued, Ticking, Working
<1>5. Resting
  BY DEF HandlerInit, Resting, Obeyed
<1>6. QED
  BY <1>1, <1>2, <1>3, <1>4, <1>5 DEF HInv

\* Every step of the handler, of the power controller and of the surroundings keeps it.
LEMMA HandlerPreserved == HInv /\ [HandlerNext]_allVars => HInv'
<1> SUFFICES ASSUME HInv, [HandlerNext]_allVars PROVE HInv'
  OBVIOUS
<1>1. ASSUME NEW t \in Requesters \ {Scheduler}, Receive(t) PROVE HInv'
  <2>1. PICK i \in Ids \ {DefaultId}, c \in Controls, w \in {"future", "open"} :
            HandleControl(t, i, c, w)
    BY <1>1 DEF Receive
  <2>2. c \in Fields /\ w \in Windows /\ todo' = todo
    BY <1>1, ControlsAssumption DEF Receive, Windows
  <2>3. Book' /\ Places' /\ Calls' /\ Ticking' /\ Working' /\ Resting'
    BY <2>1, <2>2, Handling
  <2>4. QED
    BY <2>2, <2>3 DEF HInv, Queued
<1>2. ASSUME NEW t \in Requesters \ {Scheduler}, HandleControlList(t) PROVE HInv'
  BY <1>2, Listing
<1>3. ASSUME NEW t \in Requesters \ {Scheduler}, HandleNext(t) PROVE HInv'
  <2>1. /\ todo[t] # << >> /\ todo' = [todo EXCEPT ![t] = Tail(todo[t])]
        /\ HandleControl(t, Head(todo[t])[1], Head(todo[t])[2], "open")
    BY <1>3 DEF HandleNext
  <2>2. /\ Head(todo[t])[1] \in Ids /\ Head(todo[t])[2] \in Fields
        /\ Tail(todo[t]) \in Seq(Ids \X Fields)
    <3>1. Head(todo[t]) \in Ids \X Fields /\ Tail(todo[t]) \in Seq(Ids \X Fields)
      BY <2>1, HeadTailProperties DEF HInv, Queued
    <3>2. QED
      BY <3>1
  <2>3. Book' /\ Places' /\ Calls' /\ Ticking' /\ Working' /\ Resting'
    BY <2>1, <2>2, Handling DEF Windows
  <2>4. QED
    BY <2>1, <2>2, <2>3 DEF HInv, Queued
<1>4. ASSUME NEW t \in Requesters \ {Scheduler}, Cancel(t) PROVE HInv'
  BY <1>4, Cancelling DEF Cancel
<1>5. ASSUME NEW t \in Requesters,
             \/ PowerReturned(t) \/ CancelReturned(t) \/ CancelFallsBack(t)
             \/ ApplyDefaultControl(t) \/ InController(t)
      PROVE HInv'
  BY <1>5, Returning, CancelEnding, Defaulting, Commanded
<1>6. CASE StartTick \/ RunDue \/ EndTick
  BY <1>6, TickStarting, DueRunning, TickEnding
<1>7. CASE SetDefaultControl
  BY <1>7 DEF SetDefaultControl, HInv, Book, Places, Calls, Queued, Ticking, Working, AtWork,
              Resting, Obeyed, powerVars, powerCall
<1>8. CASE PassTime
  BY <1>8, TimePassing
<1>9. CASE EmergencyStopTriggered
  BY <1>9 DEF EmergencyStopTriggered, Trigger, HInv, Book, Places, Calls, Queued, Ticking,
              Working, AtWork, Resting, Obeyed, powerCall, handlerVars, book
<1>10. CASE UNCHANGED allVars
  BY <1>10 DEF allVars, HInv, Book, Places, Calls, Queued, Ticking,
               Working, AtWork, Resting, Obeyed, powerVars, powerCall, handlerVars, book
<1>11. QED
  BY <1>1, <1>2, <1>3, <1>4, <1>5, <1>6, <1>7, <1>8, <1>9, <1>10 DEF HandlerNext

\* Between operations it says what the two properties do.
LEMMA InForceIsObeyed == HInv => ActiveMatchesDevice
<1> SUFFICES ASSUME HInv, lock = Free, ~DryRun, active # 0, events[active].status = "completed",
                    Holds(events[active].control) # NoPower
             PROVE  pset = Holds(events[active].control)
  BY DEF ActiveMatchesDevice
<1>1. \A t \in Requesters : pc[t] # "power"
  BY HandlerNamesAssumption DEF HInv, Places
<1>2. QED
  BY <1>1 DEF HInv, Resting, Obeyed

LEMMA OneIsCompleted == HInv => OneInForce
<1> SUFFICES ASSUME HInv, lock = Free PROVE OneInForce
  BY DEF OneInForce
<1>1. \A t \in Requesters : pc[t] # "power"
  BY HandlerNamesAssumption DEF HInv, Places
<1>2. \A i \in DOMAIN tracked : Settled(events, tracked, active, i)
  BY <1>1 DEF HInv, Resting
<1>3. QED
  BY <1>2 DEF OneInForce, Settled, Commanding

\* Between operations the event in force that has completed is what the PCS obeys, for any
\* controls and defaults, callers, lists, numbers of events and limits on what is remembered.
THEOREM ActiveAlwaysMatchesDevice == HandlerSpec => []ActiveMatchesDevice
BY InForceIsObeyed, HandlerInitially, HandlerPreserved, PTL DEF HandlerSpec

\* No other event that is remembered counts as completed, whichever fail, are cancelled or are
\* forgotten, under the same conditions.
THEOREM OneIsInForce == HandlerSpec => []OneInForce
BY OneIsCompleted, HandlerInitially, HandlerPreserved, PTL DEF HandlerSpec

-----------------------------------------------------------------------------
Flags == stopped \in BOOLEAN /\ wrote \in [Requesters -> BOOLEAN]

\* What a step may do to the flag of the emergency stop and to the memory of the calls.
FlagStep ==
    /\ stopped' = stopped \/ stopped' = TRUE \/ stopped' = FALSE
    /\ \/ wrote' = wrote
       \/ \E t \in Requesters : wrote' = [wrote EXCEPT ![t] = TRUE] \/ wrote' = [wrote EXCEPT ![t] = FALSE]

\* Every step sets them to what they were, or to one of the two values.
LEMMA StepsOfFlags == HandlerNext => FlagStep
<1> SUFFICES ASSUME HandlerNext PROVE FlagStep
  OBVIOUS
<1>1. ASSUME NEW t, NEW op, NEW k, NEW objects, NEW a, Execute(t, op, k, objects, a)
      PROVE  FlagStep
  BY <1>1 DEF Execute, Begin, powerCall, FlagStep
<1>2. ASSUME NEW t, NEW i, NEW c, NEW w, HandleControl(t, i, c, w) PROVE FlagStep
  <2>1. CASE w = "future"
    BY <1>2, <2>1 DEF HandleControl, powerVars, powerCall, FlagStep
  <2>2. CASE w # "future"
    BY <1>1, <1>2, <2>2 DEF HandleControl
  <2>3. QED
    BY <2>1, <2>2
<1>3. ASSUME NEW t \in Requesters, Receive(t) \/ HandleNext(t) PROVE FlagStep
  BY <1>2, <1>3 DEF Receive, HandleNext
<1>4. ASSUME NEW t \in Requesters, HandleControlList(t) PROVE FlagStep
  BY <1>4 DEF HandleControlList, powerVars, powerCall, FlagStep
<1>5. ASSUME NEW t \in Requesters, Cancel(t) PROVE FlagStep
  BY <1>5 DEF Cancel, CancelControl, Begin, powerVars, powerCall, FlagStep
<1>6. ASSUME NEW t \in Requesters, PowerReturned(t) \/ CancelReturned(t) \/ CancelFallsBack(t)
      PROVE  FlagStep
  BY <1>6 DEF PowerReturned, CancelReturned, CancelFallsBack, Take, FlagStep
<1>7. ASSUME NEW t \in Requesters, ApplyDefaultControl(t) PROVE FlagStep
  BY <1>1, <1>7 DEF ApplyDefaultControl
<1>8. ASSUME NEW t \in Requesters, InController(t) PROVE FlagStep
  BY <1>8 DEF InController, PowerStep, Pass, Write, Fail, Refuse, Succeed, Deliver, FlagStep
<1>9. CASE StartTick \/ EndTick \/ SetDefaultControl \/ PassTime
  BY <1>9 DEF StartTick, EndTick, SetDefaultControl, PassTime, powerVars, powerCall, FlagStep
<1>10. CASE RunDue
  BY <1>1, <1>10 DEF RunDue
<1>11. CASE EmergencyStopTriggered
  BY <1>11 DEF EmergencyStopTriggered, Trigger, powerCall, FlagStep
<1>12. QED
  BY <1>3, <1>4, <1>5, <1>6, <1>7, <1>8, <1>9, <1>10, <1>11 DEF HandlerNext

\* Every variable of the handler keeps its type, and the lock is held exactly by the requester
\* inside an operation.
THEOREM HandlerTypeCorrect == HandlerSpec => []HandlerTypeOK
<1>1. HandlerInit => Flags
  BY DEF HandlerInit, PowerInit, Flags
<1>2. Flags /\ [HandlerNext]_allVars => Flags'
  <2>1. Flags /\ FlagStep => Flags'
    BY DEF Flags, FlagStep
  <2>2. Flags /\ UNCHANGED allVars => Flags'
    BY DEF Flags, allVars, powerVars, powerCall
  <2>3. QED
    BY <2>1, <2>2, StepsOfFlags
<1>3. HInv /\ Flags => HandlerTypeOK
  <2> SUFFICES ASSUME HInv, Flags PROVE HandlerTypeOK
    OBVIOUS
  <2>1. DOMAIN events = 1..Len(events)
    BY LenProperties DEF HInv, Book
  <2>2. PowerTypeOK
    BY DEF PowerTypeOK, HInv, Calls, Flags
  <2>3. QED
    BY <2>1, <2>2 DEF HandlerTypeOK, HInv, Book, Stored, Places, Events
<1>4. QED
  BY <1>1, <1>2, <1>3, HandlerInitially, HandlerPreserved, PTL DEF HandlerSpec

-----------------------------------------------------------------------------
(***************************************************************************)
(* The handler commands the PCS through the power service and in no other  *)
(* way: it asks what the service takes, one call at a time, and takes each *)
(* answer.  So whatever implements the service can stand under it, and     *)
(* what holds of the service holds of the handler.                         *)
(***************************************************************************)
\* A control that is begun is a call of the service, or none.
LEMMA ExecutesByService ==
    ASSUME NEW t \in Requesters, NEW op, NEW a, NEW objects \in Seq(Events),
           NEW k \in 1..Len(objects), Execute(t, op, k, objects, a)
    PROVE  [PowerNext]_powerVars
<1> DEFINE c == objects[k].control
           b == Branch(c)
<1>1. objects[k] \in Events
  BY ElementOfSeq
<1>2. c \in Fields
  BY <1>1 DEF Events
<1>3. stopped' \in {stopped, FALSE} /\ UNCHANGED pset
  BY DEF Execute
<1>4. CASE b \in {"reconnect", "disconnect", "deenergize", "set"}
  <2>1. Begin(t, CommandFor(c))
    BY <1>4 DEF Execute
  <2>2. CommandFor(c) \in Commands
    BY <1>2, <1>4, BranchesOfControls
  <2> HIDE DEF b, c
  <2>3. QED
    BY <1>3, <2>1, <2>2 DEF PowerNext
<1>5. CASE b \notin {"reconnect", "disconnect", "deenergize", "set"}
  <2>1. UNCHANGED powerCall
    BY <1>5 DEF Execute
  <2>2. QED
    BY <1>3, <2>1 DEF PowerNext, Reset, powerVars
<1>6. QED
  BY <1>4, <1>5

\* handle_control calls it for a control that is not to wait.
LEMMA HandlesByService ==
    ASSUME Book, NEW t \in Requesters, NEW i \in Ids, NEW c \in Fields, NEW w \in Windows,
           HandleControl(t, i, c, w)
    PROVE  [PowerNext]_powerVars
<1> DEFINE e == NewEvent(i, c, w)
           objects == Append(events, e)
<1>1. e \in Events
  BY DEF NewEvent, Events, Statuses
<1> HIDE DEF e
<1>2. objects \in Seq(Events) /\ Len(events) + 1 \in 1..Len(objects)
  BY <1>1, Receiving, LenProperties DEF Book
<1>3. w # "future" => Execute(t, "handle", Len(events) + 1, objects, active)
  BY DEF HandleControl, e
<1>4. w = "future" => UNCHANGED powerVars
  BY DEF HandleControl
<1> HIDE DEF objects
<1>5. QED
  BY <1>2, <1>3, <1>4, ExecutesByService

\* A cancellation calls it for what it has to undo.
LEMMA CancelsByService ==
    ASSUME NEW t \in Requesters, NEW i, CancelControl(t, i)
    PROVE  [PowerNext]_powerVars
<1>1. \A cuts \in BOOLEAN :
          [op |-> IF cuts THEN "reconnect" ELSE "set", value |-> Zero] \in Commands
  BY ValuesAssumption DEF Commands
<1>2. \/ \E cuts \in BOOLEAN :
             /\ Begin(t, [op |-> IF cuts THEN "reconnect" ELSE "set", value |-> Zero])
             /\ stopped' \in {stopped, FALSE} /\ UNCHANGED pset
      \/ UNCHANGED powerVars
  BY DEF CancelControl, CutsPower
<1>3. QED
  BY <1>1, <1>2 DEF PowerNext

\* So is every other step, the steps of the controller itself among them.
LEMMA StepsByService == HInv /\ [HandlerNext]_allVars => [PowerNext]_powerVars
<1> SUFFICES ASSUME HInv, [HandlerNext]_allVars PROVE [PowerNext]_powerVars
  OBVIOUS
<1>1. Book /\ Places /\ Queued /\ Ticking
  BY DEF HInv
<1>2. ASSUME NEW t \in Requesters, Receive(t) PROVE [PowerNext]_powerVars
  <2>1. PICK i \in Ids \ {DefaultId}, c \in Controls, w \in {"future", "open"} :
            HandleControl(t, i, c, w)
    BY <1>2 DEF Receive
  <2>2. QED
    BY <1>1, <2>1, ControlsAssumption, HandlesByService DEF Windows
<1>3. ASSUME NEW t \in Requesters, HandleNext(t) PROVE [PowerNext]_powerVars
  <2>1. todo[t] # << >> /\ HandleControl(t, Head(todo[t])[1], Head(todo[t])[2], "open")
    BY <1>3 DEF HandleNext
  <2>2. Head(todo[t]) \in Ids \X Fields
    BY <1>1, <2>1, HeadTailProperties DEF Queued
  <2>3. Head(todo[t])[1] \in Ids /\ Head(todo[t])[2] \in Fields
    BY <2>2
  <2>4. QED
    BY <1>1, <2>1, <2>3, HandlesByService DEF Windows
<1>4. ASSUME NEW t \in Requesters, Cancel(t) PROVE [PowerNext]_powerVars
  BY <1>4, CancelsByService DEF Cancel
<1>5. ASSUME NEW t \in Requesters, PowerReturned(t) \/ CancelReturned(t) \/ CancelFallsBack(t)
      PROVE  [PowerNext]_powerVars
  BY <1>5 DEF PowerReturned, CancelReturned, CancelFallsBack, PowerNext
<1>6. ASSUME NEW t \in Requesters, ApplyDefaultControl(t) PROVE [PowerNext]_powerVars
  <2> DEFINE e == NewEvent(DefaultId, default, "open")
             objects == Append(events, e)
  <2>1. default \in Fields
    BY <1>1, <1>6, ControlsAssumption DEF Book, Places, ApplyDefaultControl
  <2>2. e \in Events
    BY <2>1, HandlerNamesAssumption DEF NewEvent, Events, Statuses, Windows
  <2> HIDE DEF e
  <2>3. objects \in Seq(Events) /\ Len(events) + 1 \in 1..Len(objects)
    BY <1>1, <2>2, Receiving, LenProperties DEF Book
  <2>4. Execute(t, "default", Len(events) + 1, objects, active)
    BY <1>6 DEF ApplyDefaultControl, e
  <2> HIDE DEF objects
  <2>5. QED
    BY <2>3, <2>4, ExecutesByService
<1>7. CASE RunDue
  <2>1. PICK k \in due[Scheduler] : Execute(Scheduler, "tick", k, events, active)
    BY <1>7 DEF RunDue
  <2>2. lock = Scheduler /\ Scheduler \in Requesters
    BY <1>1, <1>7, HandlerNamesAssumption DEF RunDue, Places
  <2>3. k \in 1..Len(events) /\ events \in Seq(Events)
    BY <1>1, <2>1, <2>2 DEF Ticking, Book
  <2>4. QED
    BY <2>1, <2>2, <2>3, ExecutesByService
<1>8. ASSUME NEW t \in Requesters, InController(t) PROVE [PowerNext]_powerVars
  BY <1>8 DEF InController, PowerNext
<1>9. CASE EmergencyStopTriggered
  BY <1>9 DEF EmergencyStopTriggered, PowerNext
<1>10. ASSUME NEW t \in Requesters, HandleControlList(t) PROVE [PowerNext]_powerVars
  BY <1>10 DEF HandleControlList
<1>11. CASE StartTick \/ EndTick \/ SetDefaultControl \/ PassTime \/ UNCHANGED allVars
  BY <1>11 DEF StartTick, EndTick, SetDefaultControl, PassTime, allVars
<1>12. QED
  BY <1>2, <1>3, <1>4, <1>5, <1>6, <1>7, <1>8, <1>9, <1>10, <1>11 DEF HandlerNext

\* The handler, whoever calls it, uses the power controller as the service is meant to be used.
THEOREM HandlerUsesService == HandlerSpec => PowerSpec
<1>1. HandlerInit => PowerInit
  BY DEF HandlerInit
<1>2. QED
  BY <1>1, HandlerInitially, HandlerPreserved, StepsByService, PTL DEF HandlerSpec, PowerSpec

\* r's call has passed the last look at the flag and is about to move P_SET.
PastGate(r) == stage[r] = "passed" /\ MovesPset(command[r])

\* While the emergency stop is on no further command passes the gate, and once those that had
\* passed it are over P_SET does not move.
StopHolds ==
    [][stopped => /\ \A r \in Requesters : PastGate(r)' => PastGate(r)
                  /\ (\A r \in Requesters : ~PastGate(r)) => pset' = pset]_powerVars

\* In DRY_RUN P_SET is never touched.
DryRunHolds == [][DryRun => pset' = pset]_powerVars

\* Where a call may stand: in DRY_RUN none passes the gate.
Staged ==
    /\ stage \in [Requesters -> {"idle", "called", "passed", "ok", "error"}]
    /\ command \in [Requesters -> Commands \cup {NoCommand}]
    /\ DryRun => \A r \in Requesters : stage[r] # "passed"

\* One step of the service: it keeps that, and moves P_SET as the two properties say.
LEMMA ServiceStep ==
    ASSUME Staged, [PowerNext]_powerVars
    PROVE  /\ Staged'
           /\ stopped => /\ \A r \in Requesters : PastGate(r)' => PastGate(r)
                         /\ (\A r \in Requesters : ~PastGate(r)) => pset' = pset
           /\ DryRun => pset' = pset
<1> USE DEF Staged, PastGate, To
<1>1. ASSUME NEW t \in Requesters, NEW c \in Commands, Begin(t, c), UNCHANGED pset
      PROVE  Staged' /\ \A r \in Requesters : PastGate(r)' => PastGate(r)
  BY <1>1 DEF Begin
<1>2. ASSUME NEW t \in Requesters, Pass(t) \/ Refuse(t)
      PROVE  /\ Staged' /\ pset' = pset
             /\ stopped => \A r \in Requesters : PastGate(r)' => PastGate(r)
  BY <1>2 DEF Pass, Refuse, MovesPset
<1>3. ASSUME NEW t \in Requesters, Write(t) \/ Fail(t) \/ Succeed(t)
      PROVE  /\ Staged' /\ \A r \in Requesters : PastGate(r)' => PastGate(r)
             /\ ~PastGate(t) \/ DryRun => pset' = pset
  BY <1>3 DEF Write, Fail, Succeed, Deliver
<1>4. ASSUME NEW t \in Requesters, \/ Take(t) /\ UNCHANGED <<stopped, pset>>
                                  \/ Abandon(t)
      PROVE  /\ Staged' /\ \A r \in Requesters : PastGate(r)' => PastGate(r)
             /\ ~PastGate(t) \/ DryRun => pset' = pset
  BY <1>4 DEF Take, Abandon
<1>5. CASE Trigger \/ Reset \/ UNCHANGED powerVars
  BY <1>5 DEF Trigger, Reset, powerVars, powerCall
<1>6. QED
  BY <1>1, <1>2, <1>3, <1>4, <1>5 DEF PowerNext, PowerStep

\* Both hold of the service, and of whatever uses it as it is meant to be used.
THEOREM ServiceIsGated == PowerSpec => StopHolds /\ DryRunHolds
<1>1. PowerInit => Staged
  BY DEF PowerInit, Staged
<1>2. Staged /\ [PowerNext]_powerVars
        => /\ Staged'
           /\ [stopped => /\ \A r \in Requesters : PastGate(r)' => PastGate(r)
                          /\ (\A r \in Requesters : ~PastGate(r)) => pset' = pset]_powerVars
           /\ [DryRun => pset' = pset]_powerVars
  BY ServiceStep
<1>3. QED
  BY <1>1, <1>2, PTL DEF PowerSpec, StopHolds, DryRunHolds
=============================================================================
