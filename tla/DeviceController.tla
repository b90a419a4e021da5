-------------------------- MODULE DeviceController --------------------------
(***************************************************************************)
(* The device controller (DeviceControllerImpl.cc): requests that are made  *)
(* without a session and whose answer is a text of lines, or a packet for   *)
(* the ping.  An operation is the set of what it may return to its caller;  *)
(* "crash" among them is the use of a port that Connect did not open.       *)
(*                                                                         *)
(* A line of text is a record of what the line is about and the numbers it  *)
(* says; of a line that came cut it is not known what it says.              *)
(***************************************************************************)
EXTENDS Integers, Sequences

SerialStatus == {"Ok", "SendFailed", "RecvFailed", "RecvTimeout", "VersionMismatch", "CrcError",
                 "SecurityError"}

\* The host's status for that of the port; whatever has no status of its own is a SerialError.
ToStatus(status) ==
    IF status \in {"Ok", "SecurityError", "VersionMismatch", "CrcError"} THEN status
    ELSE "SerialError"

\* The modules whose versions are looked for; any other line is passed over.
VersionModules == {"OPFW", "NNLED", "NNLAS", "DNET", "RECOG", "YOLO", "AS2DLR"}

\* Connect gives up the port it had; opening a serial port may throw.
Connect == {"Ok", "Error"}

\* What RecvBytes takes byte by byte until no more comes: the text up to any place, where the
\* last line may be cut inside of what it says, or an error.
Unknown == <<>>
Cut(line) == [line EXCEPT !.says = Unknown]
Readable(text) ==
    {SubSeq(text, 1, n) : n \in 0..Len(text)}
    \cup {SubSeq(text, 1, n - 1) \o <<Cut(text[n])>> : n \in 1..Len(text)}

\* Lines of a text, at their places in it.
NoText == <<>>
LinesOf(lines, wanted) == [i \in {j \in DOMAIN lines : lines[j].of \in wanted} |-> lines[i]]
FirstLine(lines) == [i \in {j \in DOMAIN lines : \A k \in DOMAIN lines : j <= k} |-> lines[i]]

Failures == {ToStatus(s) : s \in SerialStatus \ {"Ok"}}

\* A text query over the port: send the command, read, and look for the lines wanted.  Without
\* one the query fails, and the output was cleared at the start.
Query(connected, text, wanted) ==
    IF connected # "Ok" THEN {[status |-> "crash", lines |-> NoText]}
    ELSE [status : Failures, lines : {NoText}]
         \cup {[status |-> IF LinesOf(read, wanted) = NoText THEN "Error" ELSE "Ok",
                lines |-> LinesOf(read, wanted)] : read \in Readable(text)}

QueryFirmwareVersion(connected, text) == Query(connected, text, VersionModules)

\* The first serial number is taken.
QuerySerialNumber(connected, text) ==
    {[q EXCEPT !.lines = FirstLine(@)] : q \in Query(connected, text, {"SN"})}

\* Ping looks at the port before it uses it: random bytes are sent, and the reply has to be a
\* ping with the same bytes.
Ping(connected) ==
    IF connected # "Ok" THEN {"Error"} ELSE {"Ok", "Error"} \cup Failures

\* What the lines found by a query say of a module (or "SN", the serial number).
ModuleVersion(lines, name) ==
    LET said == FirstLine(LinesOf(lines, {name})) IN
    IF said = NoText THEN Unknown ELSE said[CHOOSE i \in DOMAIN said : TRUE].says

=============================================================================
