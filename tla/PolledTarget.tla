---------------------------- MODULE PolledTarget ----------------------------
(***************************************************************************)
(* What PollingWorker does with one target: the page is got by SepClient,  *)
(* the first text at the XPath is read, made a number, transformed, limited*)
(* and written to a register.  How the words are written is in             *)
(* RegisterWriters; when the worker runs is in PollingWorker.              *)
(***************************************************************************)
EXTENDS Integers, Sequences

CONSTANTS
    PtNumbers,      \* the numbers that pages show
    PtLimits,       \* clamp_min and clamp_max
    PtPolls         \* bound: polls

ASSUME TargetAssumption ==
    /\ PtNumbers \subseteq Int /\ PtPolls \in Nat
    /\ PtLimits \in Int \X Int /\ PtLimits[1] <= PtLimits[2]

VARIABLES
    ptLimited,      \* whether the target has limits
    ptWrites,       \* whether it is written to a register
    ptClient,       \* whether its profile's client could be made
    ptSimulated,    \* simulation_mode of the worker, and so of its writer
    ptEnabled,
    ptAt,           \* what _poll_target awaits
    ptValue,        \* transformed_value of the poll
    ptCounts,       \* poll_count and error_count
    ptResult,       \* last_result: its status and its value
    ptRegister,     \* the number in the register
    ptDelivered     \* History: polls whose value was read, and is in the register if it is to be

ptConfig == <<ptLimited, ptWrites, ptClient, ptSimulated>>
ptVars == <<ptConfig, ptEnabled, ptAt, ptValue, ptCounts, ptResult, ptRegister, ptDelivered>>

\* float() accepts these beside the numbers.
Infinite == "inf"
NotANumber == "nan"
\* A text of blanks is stripped and a word is not a number; None where the element has no text.
Texts == {<<"number", n>> : n \in PtNumbers} \cup {<<Infinite>>, <<NotANumber>>, <<"word">>, <<"none">>}
None == <<"none">>
Pages == {<< >>} \cup {<<t>> : t \in Texts} \cup (Texts \X Texts)

Failures == {"http_error", "timeout", "connection_error", "parse_error", "write_error"}
Result(status, value) == [status |-> status, value |-> value]

PtTypeOK ==
    /\ ptLimited \in BOOLEAN /\ ptWrites \in BOOLEAN /\ ptClient \in BOOLEAN
    /\ ptSimulated \in BOOLEAN /\ ptEnabled \in BOOLEAN
    /\ ptAt \in {"sleep", "get", "write"}
    /\ ptValue \in Int /\ ptRegister \in Int
    /\ ptCounts.polls \in 0..PtPolls /\ ptCounts.errors \in 0..ptCounts.polls
    /\ ptResult.status \in Failures \cup {"none", "success"} /\ ptResult.value \in Int
    /\ ptDelivered \in 0..PtPolls

PtInit ==
    /\ ptLimited \in BOOLEAN /\ ptWrites \in BOOLEAN /\ ptClient \in BOOLEAN
    /\ ptSimulated \in BOOLEAN /\ ptEnabled \in BOOLEAN
    /\ ptAt = "sleep" /\ ptValue = 0 /\ ptCounts = [polls |-> 0, errors |-> 0]
    /\ ptResult = Result("none", 0) /\ ptRegister = 0 /\ ptDelivered = 0

-----------------------------------------------------------------------------

\* XPathParser.parse(): the first element that has a text, None when there is none.
Parsed(page) == LET found == {i \in DOMAIN page : page[i] # None}
                IN  IF found = {} THEN None ELSE page[CHOOSE i \in found : \A j \in found : i <= j]

Limited(n) == CASE n < PtLimits[1] -> PtLimits[1] [] n > PtLimits[2] -> PtLimits[2] [] OTHER -> n

\* TransformConfig.apply(): the limits make infinity a number and leave what is not a number
\* as it is; a scale and an offset are left out.  What is left is no number for the register.
Transformed(text) ==
    CASE text[1] = "number" -> {IF ptLimited THEN Limited(text[2]) ELSE text[2]}
      [] text[1] = Infinite /\ ptLimited -> {PtLimits[2]}
      [] OTHER -> {}

\* _poll_cycle() takes the result.
Ends(status, value) ==
    /\ ptAt' = "sleep"
    /\ ptCounts' = [polls |-> ptCounts.polls + 1,
                    errors |-> ptCounts.errors + IF status = "success" THEN 0 ELSE 1]
    /\ ptResult' = Result(status, value)

\* should_poll.  A client that could not be made when the worker started is never made.
PtDue ==
    /\ ptAt = "sleep" /\ ptEnabled /\ ptCounts.polls < PtPolls
    /\ IF ptClient
       THEN ptAt' = "get" /\ UNCHANGED <<ptCounts, ptResult>>
       ELSE Ends("connection_error", 0)
    /\ UNCHANGED <<ptConfig, ptEnabled, ptValue, ptRegister, ptDelivered>>

\* SepClient.get() raises, or the status is no success.
GetFails ==
    /\ ptAt = "get"
    /\ \E status \in {"http_error", "timeout", "connection_error"} : Ends(status, 0)
    /\ UNCHANGED <<ptConfig, ptEnabled, ptValue, ptRegister, ptDelivered>>

\* What is not finite raises when the register value is made, which counts as an HTTP error;
\* without a register it is shown as it is.
GetReturns ==
    /\ ptAt = "get"
    /\ \E page \in Pages :
           LET text == Parsed(page) IN
           \/ /\ text \in {None, <<"word">>}
              /\ Ends("parse_error", 0) /\ UNCHANGED <<ptValue, ptDelivered>>
           \/ /\ text \in {<<Infinite>>, <<NotANumber>>} /\ Transformed(text) = {}
              /\ IF ptWrites
                 THEN Ends("http_error", 0) /\ UNCHANGED ptDelivered
                 ELSE Ends("success", 0) /\ ptDelivered' = ptDelivered + 1
              /\ UNCHANGED ptValue
           \/ \E v \in Transformed(text) :
                  /\ ptValue' = v
                  /\ IF ptWrites
                     THEN ptAt' = "write" /\ UNCHANGED <<ptCounts, ptResult, ptDelivered>>
                     ELSE Ends("success", v) /\ ptDelivered' = ptDelivered + 1
    /\ UNCHANGED <<ptConfig, ptEnabled, ptRegister>>

\* A write that is reported failed may have reached the register; in simulation one that is
\* reported done has not.
WriteEnds ==
    /\ ptAt = "write"
    /\ \/ /\ Ends("success", ptValue)
          /\ IF ptSimulated THEN UNCHANGED <<ptRegister, ptDelivered>>
             ELSE ptRegister' = ptValue /\ ptDelivered' = ptDelivered + 1
       \/ /\ Ends("write_error", ptValue) /\ UNCHANGED ptDelivered
          /\ ptRegister' \in {ptRegister} \cup IF ptSimulated THEN {} ELSE {ptValue}
    /\ UNCHANGED <<ptConfig, ptEnabled, ptValue>>

\* set_target_enabled(), from the web interface.
PtSetEnabled ==
    /\ ptEnabled' = ~ptEnabled
    /\ UNCHANGED <<ptConfig, ptAt, ptValue, ptCounts, ptResult, ptRegister, ptDelivered>>

PtNext == PtDue \/ GetFails \/ GetReturns \/ WriteEnds \/ PtSetEnabled

-----------------------------------------------------------------------------

\* Outside simulation the register holds the value that is shown for as long as the page shows
\* a success, and every poll that did not deliver its value is counted as an error; in
\* simulation nothing is delivered to a register, whatever is shown; and no page can take the
\* register out of the limits of its target.
PolledSafe ==
    /\ ptResult.status = "success" /\ ptWrites /\ ~ptSimulated /\ ptAt # "write" =>
           ptRegister = ptResult.value
    /\ IF ptWrites /\ ptSimulated THEN ptDelivered = 0 /\ ptRegister = 0
       ELSE ptCounts.polls - ptCounts.errors = ptDelivered
    /\ ptLimited => ptRegister = 0 \/ ptRegister \in PtLimits[1]..PtLimits[2]
=============================================================================
