--------------------------- MODULE RegisterWriters --------------------------
(***************************************************************************)
(* ModbusWriter (blocking) and ModbusRegisterWriter (asynchronous): a value*)
(* is scaled, made an integer, limited to its type and split into words,   *)
(* and the words are written with one request.  Callers of the second share*)
(* its client under an asyncio lock, which is first come, first served.  In*)
(* simulation, which is the default of both, a write is reported done and  *)
(* nothing is written.                                                     *)
(***************************************************************************)
EXTENDS Integers, Sequences, Functions

CONSTANTS
    WordSize,       \* how many values a register has: 65536 in the code
    RwValues,       \* the values written
    RwCallers       \* who calls write() of the asynchronous writer

ASSUME RegisterAssumption ==
    /\ WordSize \in Nat \ {0} /\ WordSize % 2 = 0
    /\ RwValues \subseteq Int /\ "close" \notin RwCallers

VARIABLES
    rwWriter,       \* which of the two writers
    rwSimulated,    \* simulation_mode
    rwDevice,       \* the two registers at the address
    rwUp,           \* _connected
    rwClient,       \* whether there is a _client
    rwLock,         \* who holds _lock and who waits for it
    rwCall,         \* for each caller: where it is, and the words it writes
    rwLast,         \* the last write that the blocking writer reported done, if nothing followed
    rwPut           \* History: the callers whose words reached the device during the call

rwConfig == <<rwWriter, rwSimulated>>
rwVars == <<rwConfig, rwDevice, rwUp, rwClient, rwLock, rwCall, rwLast, rwPut>>

Size(words) == IF words = 1 THEN WordSize ELSE WordSize * WordSize
Word == 0..Size(1) - 1

Types == [u16 |-> [words |-> 1, low |-> 0, high |-> Size(1) - 1],
          s16 |-> [words |-> 1, low |-> -(Size(1) \div 2), high |-> Size(1) \div 2 - 1],
          u32 |-> [words |-> 2, low |-> 0, high |-> Size(2) - 1],
          s32 |-> [words |-> 2, low |-> -(Size(2) \div 2), high |-> Size(2) \div 2 - 1]]

\* Scales as ratios; a scale of 0 is left out by the blocking writer only.
Scales == {<<1, 1>>, <<2, 1>>, <<1, 2>>, <<0, 1>>}
Inputs == [value : RwValues, scale : Scales, offset : {0, 1}, type : DOMAIN Types]

-----------------------------------------------------------------------------
(***************************************************************************)
(* Conversion.  What is scaled is counted in halves, so that there are ties.*)
(***************************************************************************)
\* (value - offset) / scale, by the blocking writer.
Divided(in) == IF in.scale[1] = 0 THEN 2 * in.value
               ELSE (2 * (in.value - in.offset) * in.scale[2]) \div in.scale[1]
\* (value + offset) * scale, by the asynchronous one.
Multiplied(in) == (2 * (in.value + in.offset) * in.scale[1]) \div in.scale[2]

\* round(): ties go to the even neighbour.
Rounded(halves) == LET n == halves \div 2
                   IN  IF halves % 2 = 0 \/ n % 2 = 0 THEN n ELSE n + 1
\* int(): towards zero.
Truncated(halves) == IF halves >= 0 THEN halves \div 2 ELSE -((-halves) \div 2)

Clamped(type, n) == LET t == Types[type]
                    IN  CASE n < t.low -> t.low [] n > t.high -> t.high [] OTHER -> n

Split(type, n) ==
    LET t == Types[type]
        unsigned == IF n < 0 THEN n + Size(t.words) ELSE n
    IN  IF t.words = 1 THEN <<unsigned>>
        ELSE <<unsigned \div Size(1), unsigned % Size(1)>>

ToRegisters(type, n) == Split(type, Clamped(type, n))

\* to_signed() and to_int32() of the models that read registers.
FromRegisters(type, words) ==
    LET t == Types[type]
        n == IF t.words = 1 THEN words[1] ELSE words[1] * Size(1) + words[2]
    IN  IF n > t.high THEN n - Size(t.words) ELSE n

\* A request writes all its words or none.
Written(words) == [i \in 1..2 |-> IF i \in DOMAIN words THEN words[i] ELSE rwDevice[i]]

-----------------------------------------------------------------------------

Idle == [step |-> "idle", words |-> << >>]
NoWrite == << >>

RwTypeOK ==
    /\ rwWriter \in {"blocking", "asynchronous"} /\ rwSimulated \in BOOLEAN
    /\ rwDevice \in [1..2 -> Word] /\ rwUp \in BOOLEAN /\ rwClient \in BOOLEAN
    /\ rwLock \in Seq(RwCallers \cup {"close"}) /\ IsInjective(rwLock)
    /\ \A c \in RwCallers : /\ rwCall[c].step \in {"idle", "connect", "lock", "done", "failed"}
                            /\ rwCall[c].words \in Seq(Word)
    /\ rwLast \in {NoWrite} \cup [of : Inputs] /\ rwPut \subseteq RwCallers

RwInit ==
    /\ rwWriter \in {"blocking", "asynchronous"} /\ rwSimulated \in BOOLEAN
    /\ rwDevice = <<0, 0>> /\ rwUp = FALSE /\ rwClient = FALSE
    /\ rwLock = << >> /\ rwCall = [c \in RwCallers |-> Idle]
    /\ rwLast = NoWrite /\ rwPut = {}

\* connect() of the blocking writer, and of either in simulation.
SyncConnect ==
    /\ \/ rwSimulated /\ rwUp' = TRUE /\ UNCHANGED rwClient
       \/ /\ ~rwSimulated /\ rwWriter = "blocking"
          /\ rwUp' \in BOOLEAN /\ rwClient' = TRUE
    /\ UNCHANGED <<rwConfig, rwDevice, rwLock, rwCall, rwLast, rwPut>>

SyncClose ==
    /\ rwWriter = "blocking"
    /\ rwUp' = FALSE /\ rwClient' = FALSE
    /\ UNCHANGED <<rwConfig, rwDevice, rwLock, rwCall, rwLast, rwPut>>

\* write_register(): a failure leaves the connection as it is; the words may have been
\* written though no good answer came.
WriteRegister ==
    /\ rwWriter = "blocking" /\ (rwSimulated \/ (rwUp /\ rwClient))
    /\ \E in \in Inputs :
           LET device == Written(ToRegisters(in.type, Rounded(Divided(in))))
           IN  \/ rwDevice' = (IF rwSimulated THEN rwDevice ELSE device) /\ rwLast' = [of |-> in]
               \/ ~rwSimulated /\ rwDevice' \in {device, rwDevice} /\ rwLast' = NoWrite
    /\ UNCHANGED <<rwConfig, rwUp, rwClient, rwLock, rwCall, rwPut>>

-----------------------------------------------------------------------------

\* The words that the callers write here: one and two of them.
Samples == {[value |-> -1, scale |-> <<1, 1>>, offset |-> 0, type |-> t] : t \in {"s16", "s32"}}

\* write() in simulation is done; one that finds itself connected asks for the lock at once.
WriteBegins(c) ==
    /\ rwWriter = "asynchronous" /\ rwCall[c].step = "idle"
    /\ \E in \in Samples :
           LET words == ToRegisters(in.type, Truncated(Multiplied(in)))
               step == IF rwSimulated THEN "done" ELSE IF rwUp THEN "lock" ELSE "connect"
           IN  rwCall' = [rwCall EXCEPT ![c] = [step |-> step, words |-> words]]
    /\ rwLock' = IF rwSimulated THEN rwLock ELSE Append(rwLock, c)
    /\ rwPut' = rwPut \ {c}
    /\ UNCHANGED <<rwConfig, rwDevice, rwUp, rwClient, rwLast>>

\* connect() under the lock, which it leaves before the write takes it.
Connected(c) ==
    /\ rwCall[c].step = "connect" /\ rwLock # << >> /\ Head(rwLock) = c
    /\ rwClient' = TRUE
    /\ \/ /\ rwUp' = TRUE
          /\ rwCall' = [rwCall EXCEPT ![c].step = "lock"]
          /\ rwLock' = Append(Tail(rwLock), c)
       \/ /\ ~rwUp /\ UNCHANGED rwUp
          /\ rwCall' = [rwCall EXCEPT ![c].step = "failed"]
          /\ rwLock' = Tail(rwLock)
    /\ UNCHANGED <<rwConfig, rwDevice, rwLast, rwPut>>

\* The request under the lock: close() may have taken the client since it was looked at,
\* which raises and is reported as a failure.
WriteReturns(c) ==
    /\ rwCall[c].step = "lock" /\ rwLock # << >> /\ Head(rwLock) = c
    /\ rwLock' = Tail(rwLock)
    /\ \/ /\ rwClient
          /\ rwDevice' = Written(rwCall[c].words) /\ rwPut' = rwPut \cup {c}
          /\ \E step \in {"done", "failed"} : rwCall' = [rwCall EXCEPT ![c].step = step]
       \/ /\ rwCall' = [rwCall EXCEPT ![c].step = "failed"]
          /\ UNCHANGED <<rwDevice, rwPut>>
    /\ rwLast' = IF rwDevice' = rwDevice THEN rwLast ELSE NoWrite
    /\ UNCHANGED <<rwConfig, rwUp, rwClient>>

\* The caller has its result.
Reported(c) ==
    /\ rwCall[c].step \in {"done", "failed"}
    /\ rwCall' = [rwCall EXCEPT ![c] = Idle]
    /\ UNCHANGED <<rwConfig, rwDevice, rwUp, rwClient, rwLock, rwLast, rwPut>>

\* close() of the asynchronous writer waits for the lock like the others.
CloseAsked ==
    /\ rwWriter = "asynchronous" /\ "close" \notin Range(rwLock)
    /\ rwLock' = Append(rwLock, "close")
    /\ UNCHANGED <<rwConfig, rwDevice, rwUp, rwClient, rwCall, rwLast, rwPut>>

Closed ==
    /\ rwLock # << >> /\ Head(rwLock) = "close"
    /\ rwLock' = Tail(rwLock)
    /\ rwUp' = FALSE /\ rwClient' = FALSE
    /\ UNCHANGED <<rwConfig, rwDevice, rwCall, rwLast, rwPut>>

RwNext ==
    \/ SyncConnect \/ SyncClose \/ WriteRegister \/ CloseAsked \/ Closed
    \/ \E c \in RwCallers : WriteBegins(c) \/ Connected(c) \/ WriteReturns(c) \/ Reported(c)

-----------------------------------------------------------------------------

\* Outside simulation, what the device holds after a write that was reported done reads back,
\* the way the models read registers, as the scaled value within half a unit, or as the limit of
\* the type that the value is beyond.
ReadsBack ==
    rwLast # NoWrite /\ ~rwSimulated =>
        LET in == rwLast.of
            n == FromRegisters(in.type, rwDevice)
            t == Types[in.type]
        IN  \/ 2 * n - Divided(in) \in -1..1
            \/ n = t.low /\ Divided(in) < 2 * n
            \/ n = t.high /\ Divided(in) > 2 * n

\* A write that reports success has put its words into the device, though others wrote and
\* closed the connection while it waited; or else nothing is ever written, as in simulation.
SuccessIsTrue ==
    /\ \A c \in RwCallers : rwCall[c].step = "done" => c \in rwPut \/ rwSimulated
    /\ rwSimulated => rwDevice = <<0, 0>>

WritersSafe == ReadsBack /\ SuccessIsTrue
=============================================================================
