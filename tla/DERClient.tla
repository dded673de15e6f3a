------------------------------ MODULE DERClient ------------------------------
(***************************************************************************)
(* DERClient (dera/der_client.py): three asyncio tasks over one set of     *)
(* dictionaries.  The control poll task fetches the DERControls of every   *)
(* tracked program and executes, schedules, expires or cancels them; the   *)
(* scheduler task executes the scheduled ones when their time comes; the   *)
(* FSA poll task tracks and untracks programs.  Execution goes through     *)
(* DERControlHandler, whose actions these compose with.                    *)
(*                                                                         *)
(* A label of `at` is an await: an HTTP request, the handler's lock, a     *)
(* call of the power controller.  What the code does between two awaits is *)
(* one action, or several through the labels in Running, where no other    *)
(* task gets the event loop.  The programs of one function set assignment  *)
(* are tracked in one step.                                                *)
(*                                                                         *)
(* Every control has an mRID, a reply URI and responseRequired = 7, so     *)
(* every response is posted.  A control is of one program.  Left out: the  *)
(* retention of _processed_mRIDs (1000), max_programs, randomisation       *)
(* (which only moves the start of an interval), and the branch of          *)
(* _scheduler_loop for controls that are ACTIVE after their execution,     *)
(* which no control is (NeverActiveWhenIdle).                              *)
(***************************************************************************)
EXTENDS DERControlHandler

CONSTANTS
    Poller,         \* the task of _control_poll_loop
    FsaTask,        \* the task of _fsa_poll_loop
    Programs,       \* DERPrograms
    Fsas,           \* function set assignments
    ProgramsOf,     \* the programs of each function set assignment
    Primacy,        \* the primacy of each program
    DefaultPower,   \* the opModFixedW of its DefaultDERControl, or NoPower
    ProgramOf,      \* the program of each control
    ControlOf,      \* what each control asks for
    Creation,       \* its creationTime
    Indefinite,     \* the controls whose interval has duration 0
    Starts,         \* bound: what the intervals may be when the client starts
    Happenings,     \* bound: what may happen around the client
    None

Mrids == Ids \ {DefaultId}

\* "0 = indefinite" apart, an interval ends; none at all is open for good.
Intervals == {"none", "future", "open", "past"}

ASSUME TasksAssumption ==
    Requesters = {Poller, Scheduler} /\ Poller # Scheduler /\ FsaTask \notin Requesters
ASSUME ProgramsAssumption ==
    /\ ProgramsOf \in [Fsas -> SUBSET Programs]
    /\ Primacy \in [Programs -> Nat]
    /\ DefaultPower \in [Programs -> Values \cup {NoPower}]
ASSUME ClientControlsAssumption ==
    /\ ProgramOf \in [Mrids -> Programs] /\ ControlOf \in [Mrids -> Controls]
    /\ Creation \in [Mrids -> Nat] /\ Indefinite \subseteq Mrids
ASSUME SurroundingsAssumption ==
    /\ Starts \subseteq [Mrids -> Intervals]
    /\ Happenings \subseteq {"cancel", "remove", "fsa", "stop", "network"}
    /\ None \notin Mrids \cup Programs

VARIABLES
    server,         \* what the server lists of each control
    fsas,           \* what it has of each function set assignment
    interval,       \* what each control's interval has come to
    trackedFsa,     \* _tracked_fsa
    programs,       \* _tracked_programs
    fsaJob,         \* the FSA task's work of this poll
    visited,        \* the programs this round of the poll task has visited
    size,           \* len(_tracked_programs) when the round began
    batch,          \* the controls it has fetched: whether the server cancelled each
    status,         \* _tracked_controls: the status of each, or "untracked"
    processed,      \* _processed_mRIDs
    cancelledSeen,  \* _cancelled_mRIDs
    byMode,         \* _active_by_mode
    activeDefault,  \* _active_default: its program or None
    at,             \* the await each task stands at
    frame,          \* the local variables of what it executes there
    left,           \* the controls its loop has still to visit
    sent,           \* responses the server has taken
    pending,        \* TrackedControl.pending_response
    owed,           \* history: responses whose POST failed
    handed          \* history: how often each control was handed to the handler

world == <<server, fsas, interval>>
fsaVars == <<trackedFsa, programs, fsaJob>>
pollVars == <<visited, size, batch>>
lists == <<processed, cancelledSeen>>
inForce == <<byMode, activeDefault>>
control == <<at, frame, left>>
responses == <<sent, pending, owed>>
clientVars == <<world, fsaVars, pollVars, status, lists, inForce, control, responses, handed>>
everything == <<allVars, clientVars>>

Tasks == Requesters \cup {FsaTask}

\* Control modes, in the order _resolve_conflict looks at them.
FixedW == 1
ConnectMode == 2
EnergizeMode == 3
Modes == {FixedW, ConnectMode, EnergizeMode}

ModesOf(c) == {m \in Modes :
                  \/ m = FixedW /\ ControlOf[c].power # NoPower
                  \/ m = ConnectMode /\ ControlOf[c].connect # "none"
                  \/ m = EnergizeMode /\ ControlOf[c].energize # "none"}

First(S) == CHOOSE m \in S : \A n \in S : m <= n

\* The control a task works on, what else it is about (a control, a program or a
\* response; a mode), and what a loop over modes or scheduled controls has still
\* to look at.
NoFrame == [on |-> None, other |-> None, mode |-> 0, modes |-> {}, sweep |-> {}, seen |-> 0]
NoFsaJob == [fetch |-> {}, gone |-> {}, untrack |-> {}, program |-> None]

ClientInit ==
    /\ HandlerInit
    /\ server = [c \in Mrids |-> "unlisted"]
    /\ fsas \in [Fsas -> IF "fsa" \in Happenings THEN {"absent", "listed"} ELSE {"listed"}]
    /\ interval \in Starts
    /\ trackedFsa = {} /\ programs = {}
    /\ fsaJob = NoFsaJob
    /\ visited = {} /\ size = 0 /\ batch = << >>
    /\ status = [c \in Mrids |-> "untracked"]
    /\ processed = {} /\ cancelledSeen = {}
    /\ byMode = [m \in Modes |-> None]
    /\ activeDefault = None
    /\ at = [t \in Tasks |-> "idle"]
    /\ frame = [t \in Tasks |-> NoFrame]
    /\ left = [t \in Tasks |-> {}]
    /\ sent = [c \in Mrids |-> {}]
    /\ pending = [c \in Mrids |-> None]
    /\ owed = [c \in Mrids |-> {}]
    /\ handed = [c \in Mrids |-> 0]

GoOn(t, label) == at' = [at EXCEPT ![t] = label]
Become(c, s) == status' = [status EXCEPT ![c] = s]
Enter(t, c) == frame' = [frame EXCEPT ![t] = [NoFrame EXCEPT !.on = c]]
Forget(t) == frame' = [frame EXCEPT ![t] = NoFrame]

\* Labels that are no await: the task has the event loop, and no other runs.
Running == {"next", "round", "retry", "untrack", "untracking", "sweep", "sweepScheduled"}
MayRun(t) == \A u \in Tasks \ {t} : at[u] \notin Running
Stands(t, label) == at[t] = label /\ MayRun(t)

TrackedControls == {c \in Mrids : status[c] # "untracked"}

-----------------------------------------------------------------------------
(***************************************************************************)
(* _send_response: a POST with retries.  It gets through, or is left       *)
(* pending for the next poll; either way it overwrites the one slot.       *)
(***************************************************************************)
Post(c, code) ==
    \/ /\ sent' = [sent EXCEPT ![c] = @ \cup {code}]
       /\ pending' = [pending EXCEPT ![c] = None]
       /\ UNCHANGED owed
    \/ /\ "network" \in Happenings
       /\ pending' = [pending EXCEPT ![c] = code]
       /\ owed' = [owed EXCEPT ![c] = @ \cup {code}]
       /\ UNCHANGED sent

-----------------------------------------------------------------------------
(***************************************************************************)
(* _execute_control, by the poll task or the scheduler task.               *)
(***************************************************************************)
\* _resolve_conflict: c against the control that holds a mode.
Beats(c, e) ==
    LET mine == Primacy[ProgramOf[c]]
        its  == Primacy[ProgramOf[e]]
    IN  mine < its \/ (mine = its /\ Creation[c] > Creation[e])

\* _resolve_conflict from the modes S on, with st the statuses so far: up to the
\* POST that reports a superseded control, or to its end.
ResolveConflict(t, c, S, st) ==
    LET taken == {m \in S : byMode[m] # None}
        e     == byMode[First(taken)]
        own   == [NoFrame EXCEPT !.on = c]
    IN  IF taken = {}
        THEN GoOn(t, "received") /\ status' = st /\ Enter(t, c)
        ELSE IF Beats(c, e)
        THEN /\ status' = [st EXCEPT ![e] = "superseded"]
             /\ frame' = [frame EXCEPT ![t] = [own EXCEPT !.other = e,
                                                   !.modes = {m \in S : m > First(taken)}]]
             /\ GoOn(t, "conflict")
        ELSE /\ status' = [st EXCEPT ![c] = "superseded"]
             /\ Enter(t, c)
             /\ GoOn(t, "lost")

\* The emergency stop is looked at before anything else.
ExecuteControl(t, c, st) ==
    IF stopped
    THEN /\ status' = [st EXCEPT ![c] = "failed"]
         /\ Enter(t, c)
         /\ GoOn(t, "aborted")
    ELSE ResolveConflict(t, c, ModesOf(c), st)

\* Mutant: the control is not marked processed.
LeaveUnmarked(t) ==
    /\ GoOn(t, "next")
    /\ Forget(t)
    /\ UNCHANGED processed

\* The end of _execute_control: the poll task then marks the control processed.
Leave(t) ==
    /\ GoOn(t, "next")
    /\ Forget(t)
    /\ processed' = IF t = Poller THEN processed \cup {frame[t].on} ELSE processed

SupersededReported(t) ==
    /\ Stands(t, "conflict")
    /\ Post(frame[t].other, "superseded")
    /\ ResolveConflict(t, frame[t].on, frame[t].modes, status)
    /\ UNCHANGED <<allVars, world, fsaVars, pollVars, lists, inForce, left, handed>>

\* The control lost to one of higher priority, or was aborted.
LossReported(t) ==
    /\ Stands(t, "lost") \/ Stands(t, "aborted")
    /\ Post(frame[t].on, IF at[t] = "lost" THEN "superseded" ELSE "aborted")
    /\ Leave(t)
    /\ UNCHANGED <<allVars, world, fsaVars, pollVars, status, cancelledSeen, inForce, left, handed>>

ReceivedReported(t) ==
    /\ Stands(t, "received")
    /\ Post(frame[t].on, "received")
    /\ activeDefault' = None
    /\ Become(frame[t].on, "active")
    /\ GoOn(t, "started")
    /\ UNCHANGED <<allVars, world, fsaVars, pollVars, lists, byMode, frame, left, handed>>

\* Mutant: the handler is called before STARTED is sent.
StartUnreported(t) ==
    /\ Stands(t, "started")
    /\ GoOn(t, "call")
    /\ UNCHANGED <<allVars, world, fsaVars, pollVars, status, lists, inForce, frame, left,
                   responses, handed>>

StartedReported(t) ==
    /\ Stands(t, "started")
    /\ Post(frame[t].on, "started")
    /\ GoOn(t, "call")
    /\ UNCHANGED <<allVars, world, fsaVars, pollVars, status, lists, inForce, frame, left, handed>>

\* Mutant: a control that has been executed is not recorded.
HoldingNothing(c) == byMode

\* _track_active_control.
Holding(c) == [m \in Modes |-> IF m \in ModesOf(c) THEN c ELSE byMode[m]]

\* Mutants: every outcome is reported as completed; the outcome is not recorded.
AlwaysCompleted(t, outcome) ==
    /\ Become(frame[t].on, "completed")
    /\ GoOn(t, "completed")
    /\ UNCHANGED <<byMode, processed, frame>>
    /\ UNCHANGED <<world, fsaVars, pollVars, cancelledSeen, activeDefault, left, responses>>

OutcomeForgotten(t, outcome) ==
    /\ byMode' = Holding(frame[t].on)
    /\ Leave(t)
    /\ UNCHANGED <<world, fsaVars, pollVars, status, cancelledSeen, activeDefault, left, responses>>

\* What _execute_control does with the event the handler returns.
AfterHandling(t, outcome) ==
    /\ Become(frame[t].on, outcome)
    /\ IF outcome = "completed"
       THEN GoOn(t, "completed") /\ UNCHANGED <<byMode, processed, frame>>
       ELSE byMode' = Holding(frame[t].on) /\ Leave(t)
    /\ UNCHANGED <<world, fsaVars, pollVars, cancelledSeen, activeDefault, left, responses>>

\* Mutant: the handler is only called while the interval of the control is open.
CallHandlerWhileOpen(t) ==
    /\ Stands(t, "call") /\ interval[frame[t].on] = "open"
    /\ HandleControl(t, frame[t].on, ControlOf[frame[t].on], "open")
    /\ UNCHANGED todo
    /\ handed' = [handed EXCEPT ![frame[t].on] = @ + 1]
    /\ IF pc'[t] = "power"
       THEN /\ GoOn(t, "handling")
            /\ UNCHANGED <<world, fsaVars, pollVars, status, lists, inForce, frame, left, responses>>
       ELSE AfterHandling(t, events'[Len(events')].status)

CallHandler(t) ==
    /\ Stands(t, "call")
    /\ HandleControl(t, frame[t].on, ControlOf[frame[t].on], "open")
    /\ UNCHANGED todo
    /\ handed' = [handed EXCEPT ![frame[t].on] = @ + 1]
    /\ IF pc'[t] = "power"
       THEN /\ GoOn(t, "handling")
            /\ UNCHANGED <<world, fsaVars, pollVars, status, lists, inForce, frame, left, responses>>
       ELSE AfterHandling(t, events'[Len(events')].status)

HandlerReturned(t) ==
    /\ Stands(t, "handling")
    /\ PowerReturned(t)
    /\ AfterHandling(t, events'[job[t].event].status)
    /\ UNCHANGED handed

\* A control that cut the power, and still counts as completed, cancels all others.
CompletedReported(t) ==
    LET c == frame[t].on
    IN  /\ Stands(t, "completed")
        /\ Post(c, "completed")
        /\ byMode' = Holding(c)
        /\ IF status[c] = "completed" /\ CutsPower(ControlOf[c])
           THEN /\ GoOn(t, "sweep")
                /\ frame' = [frame EXCEPT ![t].modes = {m \in Modes : byMode'[m] # None}]
                /\ UNCHANGED processed
           ELSE Leave(t)
        /\ UNCHANGED <<allVars, world, fsaVars, pollVars, status, cancelledSeen, activeDefault,
                       left, handed>>

-----------------------------------------------------------------------------
(***************************************************************************)
(* _cancel_all_active_controls.  A dictionary that another task changed    *)
(* during an await makes it raise; _execute_control then reports the       *)
(* control, which has been executed, as aborted.                           *)
(***************************************************************************)
SweepRaises(t) ==
    /\ Become(frame[t].on, "failed")
    /\ Enter(t, frame[t].on)
    /\ GoOn(t, "aborted")

\* The modes it saw when it began, one after the other.
SweepModes(t) ==
    LET c    == frame[t].on
        work == {m \in frame[t].modes :
                    \/ byMode[m] = None
                    \/ byMode[m] # c /\ status[byMode[m]] \in {"active", "completed"}}
    IN  /\ Stands(t, "sweep")
        /\ \/ /\ work = {}
              /\ GoOn(t, "sweepScheduled")
              /\ frame' = [frame EXCEPT ![t].modes = {}, ![t].sweep = TrackedControls,
                                        ![t].seen = Cardinality(TrackedControls)]
              /\ UNCHANGED status
           \/ \E m \in work : byMode[m] = None /\ SweepRaises(t)
           \/ \E m \in work :
                /\ byMode[m] # None
                /\ Become(byMode[m], "superseded")
                /\ frame' = [frame EXCEPT ![t].modes = @ \ {m}, ![t].mode = m,
                                          ![t].other = byMode[m]]
                /\ GoOn(t, "sweptMode")
        /\ UNCHANGED <<allVars, world, fsaVars, pollVars, lists, inForce, left, responses, handed>>

\* The entry is deleted after the POST, whoever holds the mode by then.
SweptModeReported(t) ==
    LET m == frame[t].mode
    IN  /\ Stands(t, "sweptMode")
        /\ Post(frame[t].other, "superseded")
        /\ IF byMode[m] = None
           THEN SweepRaises(t)
           ELSE GoOn(t, "sweep") /\ UNCHANGED <<status, frame>>
        /\ byMode' = [byMode EXCEPT ![m] = None]
        /\ UNCHANGED <<allVars, world, fsaVars, pollVars, lists, activeDefault, left, handed>>

\* Then the scheduled controls, and at the end the default control and the
\* event in force in the handler.
SweepScheduled(t) ==
    LET work == {c \in frame[t].sweep : c # frame[t].on /\ status[c] = "scheduled"}
    IN  /\ Stands(t, "sweepScheduled")
        /\ \/ /\ Cardinality(TrackedControls) # frame[t].seen
              /\ SweepRaises(t)
              /\ UNCHANGED <<activeDefault, processed>>
           \/ /\ Cardinality(TrackedControls) = frame[t].seen
              /\ \E c \in work :
                    /\ Become(c, "superseded")
                    /\ frame' = [frame EXCEPT ![t].sweep = @ \ {c}, ![t].other = c]
              /\ GoOn(t, "sweptControl")
              /\ UNCHANGED <<activeDefault, processed>>
           \/ /\ Cardinality(TrackedControls) = frame[t].seen /\ work = {}
              /\ activeDefault' = None
              /\ IF active # 0 /\ events[active].id # frame[t].on
                 THEN /\ frame' = [frame EXCEPT ![t].sweep = {}, ![t].other = events[active].id]
                      /\ GoOn(t, "sweepHandler")
                      /\ UNCHANGED processed
                 ELSE Leave(t)
              /\ UNCHANGED status
        /\ UNCHANGED <<allVars, world, fsaVars, pollVars, cancelledSeen, byMode, left, responses,
                       handed>>

SweptControlReported(t) ==
    /\ Stands(t, "sweptControl")
    /\ Post(frame[t].other, "superseded")
    /\ GoOn(t, "sweepScheduled")
    /\ UNCHANGED <<allVars, world, fsaVars, pollVars, status, lists, inForce, frame, left, handed>>

Cancellable(i) ==
    /\ i \in DOMAIN tracked
    /\ events[tracked[i]].status \in {"pending", "scheduled", "active", "completed"}

SweepHandler(t) ==
    LET i == frame[t].other
    IN  /\ Stands(t, "sweepHandler") /\ lock = Free
        /\ IF Cancellable(i) THEN CancelControl(t, i) ELSE UNCHANGED allVars
        /\ IF Cancellable(i) /\ tracked[i] = active
           THEN GoOn(t, "sweepCancelling") /\ UNCHANGED <<frame, processed>>
           ELSE Leave(t)
        /\ UNCHANGED <<world, fsaVars, pollVars, status, cancelledSeen, inForce, left,
                       responses, handed>>

SweepCancelled(t) ==
    /\ Stands(t, "sweepCancelling")
    /\ CancelReturned(t)
    /\ Leave(t)
    /\ UNCHANGED <<world, fsaVars, pollVars, status, cancelledSeen, inForce, left,
                   responses, handed>>

-----------------------------------------------------------------------------
(***************************************************************************)
(* _scheduler_loop, every second.                                          *)
(***************************************************************************)
Started(c) == interval[c] \in {"open", "past"}

\* The controls whose start has come by the time the loop began.
Tick ==
    /\ Stands(Scheduler, "idle")
    /\ \E c \in Mrids : status[c] = "scheduled" /\ Started(c)
    /\ left' = [left EXCEPT ![Scheduler] = {c \in TrackedControls : Started(c)}]
    /\ GoOn(Scheduler, "next")
    /\ UNCHANGED <<allVars, world, fsaVars, pollVars, status, lists, inForce, frame,
                   responses, handed>>

\* Mutant: a control is only started while its interval is open.
RunScheduledWhileOpen ==
    LET work == {c \in left[Scheduler] : status[c] = "scheduled" /\ interval[c] = "open"}
    IN  /\ Stands(Scheduler, "next")
        /\ IF work = {}
           THEN /\ left' = [left EXCEPT ![Scheduler] = {}]
                /\ GoOn(Scheduler, "idle")
                /\ UNCHANGED <<status, frame>>
           ELSE \E c \in work :
                /\ left' = [left EXCEPT ![Scheduler] = @ \ {c}]
                /\ ExecuteControl(Scheduler, c, status)
        /\ UNCHANGED <<allVars, world, fsaVars, pollVars, lists, inForce, responses, handed>>

\* The interval may be over by now: only the start is looked at.
RunScheduled ==
    LET work == {c \in left[Scheduler] : status[c] = "scheduled"}
    IN  /\ Stands(Scheduler, "next")
        /\ IF work = {}
           THEN /\ left' = [left EXCEPT ![Scheduler] = {}]
                /\ GoOn(Scheduler, "idle")
                /\ UNCHANGED <<status, frame>>
           ELSE \E c \in work :
                /\ left' = [left EXCEPT ![Scheduler] = @ \ {c}]
                /\ ExecuteControl(Scheduler, c, status)
        /\ UNCHANGED <<allVars, world, fsaVars, pollVars, lists, inForce, responses, handed>>

-----------------------------------------------------------------------------
(***************************************************************************)
(* _control_poll_loop.                                                     *)
(***************************************************************************)
StartRound ==
    /\ Stands(Poller, "idle")
    /\ visited' = {}
    /\ size' = Cardinality(programs)
    /\ GoOn(Poller, "round")
    /\ UNCHANGED <<allVars, world, fsaVars, batch, status, lists, inForce, frame, left,
                   responses, handed>>

\* _poll_controls iterates over _tracked_programs itself: when the FSA task has
\* changed it the round ends in a RuntimeError, without the retries.
EndRound ==
    /\ Stands(Poller, "round")
    /\ \/ /\ Cardinality(programs) # size
          /\ GoOn(Poller, "idle")
          /\ UNCHANGED left
       \/ /\ Cardinality(programs) = size /\ programs \subseteq visited
          /\ IF \A c \in Mrids : pending[c] = None
             THEN GoOn(Poller, "idle") /\ UNCHANGED left
             ELSE /\ GoOn(Poller, "retry")
                  /\ left' = [left EXCEPT ![Poller] = TrackedControls]
    /\ visited' = {} /\ size' = 0
    /\ UNCHANGED <<allVars, world, fsaVars, batch, status, lists, inForce, frame,
                   responses, handed>>

\* What the server lists under a program: its controls, with EventStatus 2 for
\* those it has cancelled.
Listed(p) == {c \in Mrids : ProgramOf[c] = p /\ server[c] \in {"listed", "cancelled"}}

\* _poll_program_controls: the GET, which skips the program when it fails.
PollProgram ==
    /\ Stands(Poller, "round") /\ Cardinality(programs) = size
    /\ \E p \in programs \ visited :
        /\ visited' = visited \cup {p}
        /\ frame' = [frame EXCEPT ![Poller].other = p]
    /\ GoOn(Poller, "get")
    /\ UNCHANGED <<allVars, world, fsaVars, size, batch, status, lists, inForce, left,
                   responses, handed>>

\* _check_default_control, when the list is empty.
Highest == {p \in programs : \A q \in programs : Primacy[p] <= Primacy[q]}

DefaultWanted(p) ==
    /\ \A c \in Mrids : status[c] # "active"
    /\ DefaultPower[p] # NoPower /\ activeDefault # p

CheckDefaultControl ==
    \/ \E p \in Highest :
           /\ DefaultWanted(p)
           /\ Begin(Poller, [op |-> "set", value |-> DefaultPower[p]])
           /\ frame' = [frame EXCEPT ![Poller].other = p]
           /\ GoOn(Poller, "default")
           /\ UNCHANGED <<stopped, pset, handlerVars>>
    \/ /\ programs = {} \/ \E p \in Highest : ~DefaultWanted(p)
       /\ GoOn(Poller, "round")
       /\ Forget(Poller)
       /\ UNCHANGED allVars

Fetched ==
    LET found == Listed(frame[Poller].other)
    IN  /\ Stands(Poller, "get")
        /\ \/ /\ "network" \in Happenings
              /\ GoOn(Poller, "round")
              /\ Forget(Poller)
              /\ UNCHANGED <<allVars, batch>>
           \/ found = {} /\ CheckDefaultControl /\ UNCHANGED batch
           \/ /\ found # {}
              /\ batch' = [c \in found |-> server[c] = "cancelled"]
              /\ GoOn(Poller, "next")
              /\ Forget(Poller)
              /\ UNCHANGED allVars
        /\ UNCHANGED <<world, fsaVars, visited, size, status, lists, inForce, left,
                       responses, handed>>

DefaultReturned ==
    /\ Stands(Poller, "default")
    /\ Take(Poller)
    /\ activeDefault' = IF stage[Poller] = "ok" THEN frame[Poller].other ELSE activeDefault
    /\ GoOn(Poller, "round")
    /\ Forget(Poller)
    /\ UNCHANGED <<stopped, pset, handlerVars, world, fsaVars, pollVars, status, lists, byMode,
                   left, responses, handed>>

\* _process_control of a control processed before: a cancellation is handled once.
ProcessKnown(c) ==
    /\ c \in processed
    /\ cancelledSeen' = cancelledSeen \cup {c}
    /\ Enter(Poller, c)
    /\ GoOn(Poller, "cancel")
    /\ UNCHANGED status

\* _process_control of a new one.  An indefinite interval ends when it starts.
Expired(c) == interval[c] = "past" \/ (interval[c] = "open" /\ c \in Indefinite)

ProcessNew(c) ==
    /\ c \notin processed
    /\ IF interval[c] = "future" \/ Expired(c)
       THEN /\ Enter(Poller, c)
            /\ Become(c, IF Expired(c) THEN "cancelled" ELSE "pending")
            /\ GoOn(Poller, IF Expired(c) THEN "expired" ELSE "future")
       ELSE ExecuteControl(Poller, c, [status EXCEPT ![c] = "pending"])
    /\ UNCHANGED cancelledSeen

\* Mutant: a processed control is never looked at again.
ProcessNewOnly ==
    LET work == DOMAIN batch \ processed
    IN  /\ Stands(Poller, "next")
        /\ \/ /\ work = {}
              /\ batch' = << >>
              /\ GoOn(Poller, "round")
              /\ UNCHANGED <<status, cancelledSeen, frame>>
           \/ \E c \in work :
              /\ batch' = Restrict(batch, DOMAIN batch \ {c})
              /\ ProcessNew(c)
        /\ UNCHANGED <<allVars, world, fsaVars, visited, size, processed, inForce, left,
                       responses, handed>>

ProcessNext ==
    LET work == {c \in DOMAIN batch : c \in processed => batch[c] /\ c \notin cancelledSeen}
    IN  /\ Stands(Poller, "next")
        /\ \/ /\ work = {}
              /\ batch' = << >>
              /\ GoOn(Poller, "round")
              /\ UNCHANGED <<status, cancelledSeen, frame>>
           \/ \E c \in work :
              /\ batch' = Restrict(batch, DOMAIN batch \ {c})
              /\ ProcessKnown(c) \/ ProcessNew(c)
        /\ UNCHANGED <<allVars, world, fsaVars, visited, size, processed, inForce, left,
                       responses, handed>>

\* The future control becomes scheduled only after its POST.
FutureReported ==
    /\ Stands(Poller, "future")
    /\ Post(frame[Poller].on, "received")
    /\ Become(frame[Poller].on, "scheduled")
    /\ Leave(Poller)
    /\ UNCHANGED <<allVars, world, fsaVars, pollVars, cancelledSeen, inForce, left, handed>>

ExpiryReported ==
    /\ Stands(Poller, "expired")
    /\ Post(frame[Poller].on, "expired")
    /\ Leave(Poller)
    /\ UNCHANGED <<allVars, world, fsaVars, pollVars, status, cancelledSeen, inForce, left, handed>>

\* _handle_server_cancel: the handler's cancel_control, then _cancel_control.
CancelCall ==
    LET c == frame[Poller].on
    IN  /\ Stands(Poller, "cancel") /\ lock = Free
        /\ IF Cancellable(c) THEN CancelControl(Poller, c) ELSE UNCHANGED allVars
        /\ IF Cancellable(c) /\ tracked[c] = active
           THEN GoOn(Poller, "cancelling") /\ UNCHANGED status
           ELSE GoOn(Poller, "cancelled") /\ Become(c, "cancelled")
        /\ UNCHANGED <<world, fsaVars, pollVars, lists, inForce, frame, left, responses, handed>>

CancelCallReturned ==
    /\ Stands(Poller, "cancelling")
    /\ CancelReturned(Poller)
    /\ GoOn(Poller, "cancelled")
    /\ Become(frame[Poller].on, "cancelled")
    /\ UNCHANGED <<world, fsaVars, pollVars, lists, inForce, frame, left, responses, handed>>

CancelReported ==
    /\ Stands(Poller, "cancelled")
    /\ Post(frame[Poller].on, "cancelled")
    /\ GoOn(Poller, "next")
    /\ Forget(Poller)
    /\ UNCHANGED <<allVars, world, fsaVars, pollVars, status, lists, inForce, left, handed>>

\* _retry_pending_responses.
RetryNext ==
    LET owing == {c \in left[Poller] : pending[c] # None}
    IN  /\ Stands(Poller, "retry")
        /\ IF owing = {}
           THEN /\ GoOn(Poller, "idle")
                /\ left' = [left EXCEPT ![Poller] = {}]
                /\ UNCHANGED frame
           ELSE \E c \in owing :
                /\ left' = [left EXCEPT ![Poller] = @ \ {c}]
                /\ frame' = [frame EXCEPT ![Poller].on = c, ![Poller].other = pending[c]]
                /\ GoOn(Poller, "retrying")
        /\ UNCHANGED <<allVars, world, fsaVars, pollVars, status, lists, inForce, responses, handed>>

Retried ==
    /\ Stands(Poller, "retrying")
    /\ Post(frame[Poller].on, frame[Poller].other)
    /\ GoOn(Poller, "retry")
    /\ Forget(Poller)
    /\ UNCHANGED <<allVars, world, fsaVars, pollVars, status, lists, inForce, left, handed>>

-----------------------------------------------------------------------------
(***************************************************************************)
(* _fsa_poll_loop.                                                         *)
(***************************************************************************)
\* _poll_fsa: the list is fetched; new assignments, and those whose version has
\* changed, have their programs fetched; then the vanished ones are handled.
PollFsa ==
    LET listed == {f \in Fsas : fsas[f] = "listed"}
    IN  /\ Stands(FsaTask, "idle")
        /\ \E changed \in SUBSET (listed \cap trackedFsa) :
               /\ changed = {} \/ "fsa" \in Happenings
               /\ fsaJob' = [NoFsaJob EXCEPT !.fetch = (listed \ trackedFsa) \cup changed,
                                             !.gone = trackedFsa \ listed]
        /\ fsaJob' # NoFsaJob
        /\ GoOn(FsaTask, "fetch")
        /\ UNCHANGED <<allVars, world, trackedFsa, programs, pollVars, status, lists, inForce,
                       frame, left, responses, handed>>

\* _process_fsa_programs: a failed GET is logged, and the assignment is tracked.
ProcessFsaPrograms ==
    /\ Stands(FsaTask, "fetch")
    /\ \E f \in fsaJob.fetch :
           /\ fsaJob' = [fsaJob EXCEPT !.fetch = @ \ {f}]
           /\ trackedFsa' = trackedFsa \cup {f}
           /\ \/ programs' = programs \cup ProgramsOf[f]
              \/ "network" \in Happenings /\ UNCHANGED programs
    /\ UNCHANGED <<allVars, world, pollVars, status, lists, inForce, control, responses, handed>>

\* _handle_fsa_removed: whichever assignment has vanished, all programs go.
HandleFsaRemoved ==
    /\ Stands(FsaTask, "fetch") /\ fsaJob.fetch = {}
    /\ IF fsaJob.gone = {}
       THEN GoOn(FsaTask, "idle") /\ fsaJob' = NoFsaJob
       ELSE GoOn(FsaTask, "untrack") /\ fsaJob' = [fsaJob EXCEPT !.untrack = programs]
    /\ UNCHANGED <<allVars, world, trackedFsa, programs, pollVars, status, lists, inForce,
                   frame, left, responses, handed>>

\* _untrack_program: the controls of the program are cancelled one by one, but
\* the handler is not told, and then the program is forgotten.
UntrackProgram ==
    /\ Stands(FsaTask, "untrack")
    /\ \E p \in fsaJob.untrack :
           /\ fsaJob' = [fsaJob EXCEPT !.untrack = @ \ {p}, !.program = p]
           /\ left' = [left EXCEPT ![FsaTask] = {c \in TrackedControls : ProgramOf[c] = p}]
    /\ GoOn(FsaTask, "untracking")
    /\ UNCHANGED <<allVars, world, trackedFsa, programs, pollVars, status, lists, inForce,
                   frame, responses, handed>>

\* Mutant: the program stays tracked.
CancelKeepingProgram ==
    /\ Stands(FsaTask, "untracking")
    /\ left[FsaTask] = {}
    /\ GoOn(FsaTask, "untrack")
    /\ UNCHANGED <<status, frame, left, programs>>
    /\ UNCHANGED <<allVars, world, trackedFsa, fsaJob, pollVars, lists, inForce, responses, handed>>

CancelNext ==
    /\ Stands(FsaTask, "untracking")
    /\ IF left[FsaTask] = {}
       THEN /\ programs' = programs \ {fsaJob.program}
            /\ GoOn(FsaTask, "untrack")
            /\ UNCHANGED <<status, frame, left>>
       ELSE \E c \in left[FsaTask] :
            /\ Become(c, "cancelled")
            /\ left' = [left EXCEPT ![FsaTask] = @ \ {c}]
            /\ Enter(FsaTask, c)
            /\ GoOn(FsaTask, "cancelled")
            /\ UNCHANGED programs
    /\ UNCHANGED <<allVars, world, trackedFsa, fsaJob, pollVars, lists, inForce, responses, handed>>

UntrackReported ==
    /\ Stands(FsaTask, "cancelled")
    /\ Post(frame[FsaTask].on, "cancelled")
    /\ GoOn(FsaTask, "untracking")
    /\ Forget(FsaTask)
    /\ UNCHANGED <<allVars, world, fsaVars, pollVars, status, lists, inForce, left, handed>>

FsaPolled ==
    /\ Stands(FsaTask, "untrack") /\ fsaJob.untrack = {}
    /\ trackedFsa' = trackedFsa \ fsaJob.gone
    /\ fsaJob' = NoFsaJob
    /\ GoOn(FsaTask, "idle")
    /\ UNCHANGED <<allVars, world, programs, pollVars, status, lists, inForce, frame, left,
                   responses, handed>>

-----------------------------------------------------------------------------
(***************************************************************************)
(* The server and the clock.  Controls and assignments come and go once.   *)
(***************************************************************************)
ServerStep ==
    /\ \E c \in Mrids :
           \/ server[c] = "unlisted" /\ server' = [server EXCEPT ![c] = "listed"]
           \/ /\ "cancel" \in Happenings /\ server[c] = "listed"       \* currentStatus = 2
              /\ server' = [server EXCEPT ![c] = "cancelled"]
           \/ /\ "remove" \in Happenings /\ server[c] \in {"listed", "cancelled"}
              /\ server' = [server EXCEPT ![c] = "removed"]
    /\ UNCHANGED <<allVars, fsas, interval, fsaVars, pollVars, status, lists, inForce, control,
                   responses, handed>>

FsaChanges ==
    /\ "fsa" \in Happenings
    /\ \E f \in Fsas :
           \/ fsas[f] = "absent" /\ fsas' = [fsas EXCEPT ![f] = "listed"]
           \/ fsas[f] = "listed" /\ fsas' = [fsas EXCEPT ![f] = "removed"]
    /\ UNCHANGED <<allVars, server, interval, fsaVars, pollVars, status, lists, inForce, control,
                   responses, handed>>

AdvanceTime ==
    /\ \E c \in Mrids :
           \/ interval[c] = "future" /\ interval' = [interval EXCEPT ![c] = "open"]
           \/ /\ interval[c] = "open" /\ c \notin Indefinite
              /\ interval' = [interval EXCEPT ![c] = "past"]
    /\ UNCHANGED <<allVars, server, fsas, fsaVars, pollVars, status, lists, inForce, control,
                   responses, handed>>

\* A local emergency stop, from the power writer or an operator.
LocalStop ==
    /\ "stop" \in Happenings /\ ~stopped
    /\ EmergencyStopTriggered
    /\ UNCHANGED clientVars

ControllerStep(t) == MayRun(t) /\ InController(t) /\ UNCHANGED clientVars

SchedulerStep == Tick \/ RunScheduled

PollerStep ==
    \/ StartRound \/ EndRound \/ PollProgram \/ Fetched \/ DefaultReturned
    \/ ProcessNext \/ FutureReported \/ ExpiryReported
    \/ CancelCall \/ CancelCallReturned \/ CancelReported
    \/ RetryNext \/ Retried

FsaStep ==
    \/ PollFsa \/ ProcessFsaPrograms \/ HandleFsaRemoved
    \/ UntrackProgram \/ CancelNext \/ UntrackReported \/ FsaPolled

\* _execute_control, in either of the tasks that run it.
ExecutionStep(t) ==
    \/ SupersededReported(t) \/ LossReported(t) \/ ReceivedReported(t) \/ StartedReported(t)
    \/ CallHandler(t) \/ HandlerReturned(t) \/ CompletedReported(t)
    \/ SweepModes(t) \/ SweptModeReported(t) \/ SweepScheduled(t) \/ SweptControlReported(t)
    \/ SweepHandler(t) \/ SweepCancelled(t)

ClientNext ==
    \/ \E t \in Requesters : ExecutionStep(t) \/ ControllerStep(t)
    \/ SchedulerStep \/ PollerStep \/ FsaStep
    \/ ServerStep \/ FsaChanges \/ AdvanceTime \/ LocalStop

ClientSpec == ClientInit /\ [][ClientNext]_everything

-----------------------------------------------------------------------------
(***************************************************************************)
(* Fairness: each task goes on when it can, the handler's lock is granted  *)
(* in the order it is asked for, every request to the server ends in an    *)
(* answer or a timeout, and the power controller answers every call.       *)
(***************************************************************************)
ClientFairSpec ==
    /\ ClientSpec
    /\ SF_everything(PollerStep \/ ExecutionStep(Poller))
    /\ SF_everything(SchedulerStep \/ ExecutionStep(Scheduler))
    /\ SF_everything(FsaStep)
    /\ \A t \in Requesters :
           SF_everything(ControllerStep(t) /\ stage'[t] \in {"ok", "error"})

-----------------------------------------------------------------------------
(***************************************************************************)
(* Properties.                                                             *)
(***************************************************************************)
ClientStatuses == Statuses \cup {"untracked"}
Responses == {"received", "started", "completed", "cancelled", "superseded", "aborted", "expired"}

\* The values the client's variables range over.
ClientTypeOK ==
    /\ HandlerTypeOK
    /\ server \in [Mrids -> {"unlisted", "listed", "cancelled", "removed"}]
    /\ interval \in [Mrids -> Intervals]
    /\ trackedFsa \subseteq Fsas /\ programs \subseteq Programs
    /\ status \in [Mrids -> ClientStatuses]
    /\ processed \subseteq TrackedControls /\ cancelledSeen \subseteq processed
    /\ byMode \in [Modes -> Mrids \cup {None}]
    /\ activeDefault \in Programs \cup {None}
    /\ sent \in [Mrids -> SUBSET Responses] /\ pending \in [Mrids -> Responses \cup {None}]

\* A control is handed to the handler at most once, whichever of the poll task
\* and the scheduler task gets to it, and however often the server lists it
\* (_processed_mRIDs).
HandedOnce == \A c \in Mrids : handed[c] <= 1

\* A control is reported completed only if the handler executed it and its call
\* of the power controller succeeded (the response after handle_control).
CompletedIsTrue ==
    \A c \in Mrids :
        "completed" \in sent[c] \cup owed[c] =>
            \E k \in DOMAIN events :
                /\ events[k].id = c /\ events[k].executed
                /\ events[k].status \in {"completed", "superseded", "cancelled"}

\* No control stays ACTIVE after its execution: the branch of _scheduler_loop
\* that completes active controls when their interval ends is never taken.
NeverActiveWhenIdle ==
    \A c \in Mrids :
        status[c] = "active" =>
            \E t \in Requesters : frame[t].on = c /\ at[t] \in {"started", "call", "handling"}

\* The responses of a control come in the order of the protocol, over the two
\* tasks that send them: STARTED after RECEIVED, COMPLETED after STARTED, and
\* EXPIRED only for a control that was never started.
ResponsesInOrder ==
    \A c \in Mrids :
        LET said == sent[c] \cup owed[c]
        IN  /\ "completed" \in said => "started" \in said
            /\ "started" \in said => "received" \in said
            /\ "expired" \in said => "started" \notin said

\* A function set assignment is forgotten after its programs, so that no program
\* is polled for an assignment the client no longer has (_untrack_program).
ProgramsComeFromFsas ==
    programs \subseteq UNION {ProgramsOf[f] : f \in trackedFsa}

Shares(c, e) == c # e /\ ModesOf(c) \cap ModesOf(e) # {}

\* A control is not executed over one of higher priority in the same mode that
\* counts as completed (_resolve_conflict: "higher priority first").
HigherPriorityWins ==
    [][\A c, e \in Mrids :
           handed'[c] > handed[c] /\ Shares(c, e) /\ status[e] = "completed"
               => Beats(c, e)]_everything

\* A scheduled control does not wait beyond its start for ever (_scheduler_loop).
ScheduledControlsStart ==
    \A c \in Mrids :
        (status[c] = "scheduled" /\ Started(c)) ~> status[c] # "scheduled"

\* Whoever begins to execute a control ends it (_execute_control).
Executing(t) ==
    at[t] \in {"conflict", "lost", "aborted", "received", "started", "call", "handling",
               "completed", "sweep", "sweptMode", "sweepScheduled", "sweptControl",
               "sweepHandler", "sweepCancelling"}
ExecutionsEnd == \A t \in Requesters : Executing(t) ~> ~Executing(t)

\* A control the server has cancelled is cancelled here, unless the server or the
\* client stops having it (_process_control: currentStatus=2).
CancellationsAreSeen ==
    \A c \in Mrids :
        server[c] = "cancelled" /\ ProgramOf[c] \in programs
            ~> \/ c \in cancelledSeen \/ server[c] = "removed"
               \/ ProgramOf[c] \notin programs

-----------------------------------------------------------------------------
(***************************************************************************)
(* What the repository says and the code does not do.                      *)
(***************************************************************************)
\* handler.py, _execute_control: recovery commands are evaluated before the
\* emergency stop gate, so that the server can lift an emergency stop.
RecoveryNeverBlocked ==
    \A t \in Requesters :
        at[t] = "aborted" => ControlOf[frame[t].on].connect # "true"

=============================================================================
