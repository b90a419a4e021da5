------------------------------- MODULE FwLine -------------------------------
(***************************************************************************)
(* The text line of a firmware update (FwUpdate/FwUpdaterComm.cc): a reader *)
(* thread puts what the device says into a buffer, and the updating thread   *)
(* looks in it for the answers to its commands, in the order in which        *)
(* FwUpdateEngine.cc gives them.  They share the buffer and two indexes, of  *)
(* which each thread writes both.                                           *)
(*                                                                         *)
(* A text that is looked for is one symbol of the buffer, and knows which    *)
(* call it answers.  Memory nobody has written is "junk": a search that      *)
(* runs into it may find anything.                                          *)
(***************************************************************************)
EXTENDS Integers, Sequences

CONSTANTS
    NModules,       \* modules that are looked at
    Outdated,       \* those that may have to be burnt
    NBlocks,        \* blocks of each that are sent, at most
    ReadBufferSize, \* of the buffer
    Mute            \* what the device may leave without an answer

ASSUME LineAssumption ==
    NModules \in Nat \ {0} /\ Outdated \subseteq 1..NModules /\ NBlocks \in Nat /\ ReadBufferSize \in Nat /\ ReadBufferSize > 3

-----------------------------------------------------------------------------
(* The calls of the engine, in the parts it is written in.                  *)

Cmd(word) == [op |-> "cmd", text |-> word]        \* WriteCmd with its wait for the ack
QuietCmd(word) == [op |-> "quiet", text |-> word] \* WriteCmd without
Binary(what) == [op |-> "binary", text |-> what]  \* WriteBinary
Wait(text) == [op |-> "wait", text |-> text]      \* WaitForStr
Parse(text) == [op |-> "parse", text |-> text]    \* ConsumeDlVerResponse, GetBlockUpdateList, ...
IdleParse(text) == [op |-> "idleParse", text |-> text] \* ... after WaitForIdle
Check == [op |-> "check", text |-> "report"]      \* ... of the last report, which must be right
Consume == [op |-> "consume", text |-> "none"]
Stop == [op |-> "stop", text |-> "none"]          \* StopReaderThread

Calls == [
    connect  |-> <<Cmd("dlspd"), Cmd("dlver")>>,
    look     |-> <<Cmd("dlver"), Parse("versions"), Cmd("dlinfo"), Wait("dlinfoEnd"), Parse("report")>>,
    open     |-> <<Cmd("dlinit"), Binary("crcs"), Consume>>,
    block    |-> <<Cmd("dl"), IdleParse("blk"), Binary("block"), Wait("dlRet"), Parse("dlRet")>>,
    verify   |-> <<Cmd("dlinfo"), Wait("dlinfoEnd"), Check>>,
    activate |-> <<Cmd("dlact"), Wait("validationOk")>>,
    leave    |-> <<Stop, QuietCmd("dlact")>>]

AckOf == [dlspd |-> "dlspdAck", dlver |-> "dlverAck", dlinfo |-> "dlinfoAck", dlinit |-> "dlinitAck",
          dl |-> "dlAck", dlact |-> "dlactAck"]
Ack(call) == IF call.op = "wait" THEN call.text ELSE AckOf[call.text]

\* What the device says to a command or to what is sent after one.
Answer(call) ==
    CASE call.text = "dlver"  -> <<"dlverAck", "versions">>
      [] call.text = "dlinfo" -> <<"dlinfoAck", "report", "dlinfoEnd">>
      [] call.text = "dl"     -> <<"dlAck", "blk">>
      [] call.text = "block"  -> <<"dlRet">>
      [] call.text = "crcs"   -> <<>>
      [] call.text = "dlact"  -> <<"dlactAck", "validationOk">>
      [] OTHER                -> <<AckOf[call.text]>>

-----------------------------------------------------------------------------
VARIABLES
    module,   \* modules begun
    sent,     \* blocks of this module that were sent
    part,     \* the calls that are made
    step,     \* the one that runs
    pc,       \* where the updating thread is in it
    after,    \* where WaitForIdle returns to
    prevIndex,\* the local variable of WaitForIdle, and the one ConsumeScanned loads
    scanFrom, \* scan_idx of WaitForStr
    good,     \* what the parse found
    ret,      \* how the burning ended
    buffer,   \* _read_buffer
    readIndex, scanIndex,
    stop,     \* _should_stop_thread
    rpc,      \* where the reader thread is
    line,     \* what the device has said and the reader has not read
    asked,    \* history: commands and data given to the device
    doubt     \* history: a wait returned without its text, a search ran into junk, or the
              \* indexes were set back

planVars == <<module, sent, part, step>>
callVars == <<planVars, pc, after, prevIndex, scanFrom, good, ret>>
readerVars == <<buffer, readIndex, rpc>>
vars == <<callVars, readerVars, scanIndex, stop, line, asked, doubt>>

End == [text |-> "nul", of |-> 0]
Junk == [text |-> "junk", of |-> 0]
Cells == 0..(ReadBufferSize - 1)

Init ==
    /\ module = 0 /\ sent = 0 /\ part = "connect" /\ step = 0 /\ pc = "idle" /\ after = "next"   \* BurnModules: WaitForIdle
    /\ prevIndex = 0 /\ scanFrom = 0 /\ good = TRUE /\ ret = "None"
    /\ buffer = [i \in Cells |-> Junk] /\ readIndex = 0 /\ scanIndex = 0
    /\ stop = FALSE /\ rpc = "top" /\ line = <<>> /\ asked = 0
    /\ doubt = FALSE

\* strstr from a place of the buffer: the texts before the terminator, if there is one.
Text(from) == {j \in Cells : j >= from /\ \A k \in from..j : buffer[k] \notin {End, Junk}}
Terminated(from) ==
    \E j \in Cells : j >= from /\ buffer[j] = End /\ \A k \in from..j : buffer[k] # Junk
Found(from, text) == \E j \in Text(from) : buffer[j].text = text

-----------------------------------------------------------------------------
(* The updating thread. *)

Call == Calls[part][step]
Go(where) == pc' = where
NextCall == Go("next")
\* (Variant: the reader thread is not told.)
ThrowQuietly == pc' = "closing" /\ ret' = "Error" /\ UNCHANGED stop
Throw == pc' = "closing" /\ ret' = "Error" /\ stop' = TRUE    \* _comm.reset()

\* What the engine does after a part: it looks at the next module, burns it or skips it, sends a
\* block, and activates what it burnt, or leaves with the last module.
Made == pc = "next" /\ step = Len(Calls[part])
Turn(next) ==
    /\ part' = next /\ step' = 0
    /\ UNCHANGED <<pc, after, prevIndex, scanFrom, good, ret, readerVars, scanIndex, stop, line,
                   asked, doubt>>

LookAtModule ==
    /\ Made /\ part \in {"connect", "look", "activate"} /\ module < NModules
    /\ module' = module + 1 /\ sent' = 0 /\ Turn("look")
OpenModule == Made /\ part = "look" /\ module \in Outdated /\ Turn("open") /\ UNCHANGED <<module, sent>>
SendBlock ==
    /\ Made /\ part \in {"open", "block"} /\ sent < NBlocks
    /\ sent' = sent + 1 /\ Turn("block") /\ UNCHANGED module
VerifyModule == Made /\ part \in {"open", "block"} /\ Turn("verify") /\ UNCHANGED <<module, sent>>
ActivateModule ==
    Made /\ part = "verify" /\ module < NModules /\ Turn("activate") /\ UNCHANGED <<module, sent>>
Leave ==
    Made /\ part \in {"look", "verify"} /\ module = NModules /\ Turn("leave") /\ UNCHANGED <<module, sent>>

\* The next call begins, or BurnModules returns, and its engine is destroyed.
Begin ==
    /\ pc = "next" /\ step < Len(Calls[part]) /\ step' = step + 1
    /\ LET op == Calls[part][step + 1].op IN
       /\ pc' = CASE op \in {"cmd", "quiet", "idleParse"} -> "idle"
                  [] op = "binary" -> "send" [] op = "wait" -> "enter"
                  [] op = "stop" -> "join" [] op = "check" -> "parse"
                  [] OTHER -> op
       /\ after' = IF op = "idleParse" THEN "parse" ELSE "send"
       /\ stop' = (stop \/ op = "stop")
       /\ good' = TRUE /\ prevIndex' = 0 /\ scanFrom' = 0
    /\ UNCHANGED <<module, sent, part, ret, readerVars, scanIndex, line, asked, doubt>>

Finish ==
    /\ Made /\ part = "leave"
    /\ ret' = "Ok" /\ Go("closing") /\ stop' = TRUE
    /\ UNCHANGED <<planVars, after, prevIndex, scanFrom, good, readerVars, scanIndex, line,
                   asked, doubt>>

\* WaitForIdle: the index before the sleep and after it.
Sample ==
    /\ pc = "idle" /\ Go("slept") /\ prevIndex' = readIndex
    /\ UNCHANGED <<planVars, after, scanFrom, good, ret, readerVars, scanIndex, stop, line,
                   asked, doubt>>

Slept ==
    /\ pc = "slept" /\ Go(IF prevIndex = readIndex THEN after ELSE "idle") /\ prevIndex' = 0
    /\ UNCHANGED <<planVars, after, scanFrom, good, ret, readerVars, scanIndex,
                   stop, line, asked, doubt>>

Said(texts) == [i \in DOMAIN texts |-> [text |-> texts[i], of |-> asked + 1]]

\* SendBytes of a command or of binary data, which may fail; the device may be silent.
Send ==
    /\ pc = "send" /\ asked' = asked + 1
    /\ LET said == Answer(Call) IN
       \/ /\ \/ line' = line \o Said(said)
             \/ Call.text \in Mute /\ UNCHANGED line
          /\ Go(IF Call.op = "cmd" THEN "enter" ELSE "next") /\ UNCHANGED <<ret, stop>>
       \/ Throw /\ UNCHANGED line
    /\ UNCHANGED <<planVars, after, prevIndex, scanFrom, good, readerVars, scanIndex, doubt>>

\* WaitForStr: the scan index is read, once; then the loop, which looks at its timer at its head,
\* where the wait then ends in silence, and after a search, where it throws.
WaitEnter ==
    /\ pc = "enter" /\ Go("head") /\ scanFrom' = scanIndex
    /\ UNCHANGED <<planVars, after, prevIndex, good, ret, readerVars, scanIndex, stop, line, asked,
                   doubt>>

WaitGoesOn ==
    /\ pc = "head" /\ Go("idle") /\ after' = "search"
    /\ UNCHANGED <<planVars, prevIndex, scanFrom, good, ret, readerVars, scanIndex, stop, line, asked, doubt>>

WaitEnds ==
    /\ pc = "head" /\ NextCall /\ doubt' = TRUE
    /\ UNCHANGED <<planVars, after, prevIndex, scanFrom, good, ret, readerVars, scanIndex, stop, line,
                   asked>>

Search ==
    /\ pc = "search"
    /\ \/ Found(scanFrom, Ack(Call)) /\ NextCall /\ UNCHANGED doubt
       \/ ~Found(scanFrom, Ack(Call)) /\ Go("missed") /\ UNCHANGED doubt
       \/ ~Terminated(scanFrom) /\ doubt' = TRUE /\ (NextCall \/ Go("missed"))
    /\ UNCHANGED <<planVars, after, prevIndex, scanFrom, good, ret, readerVars, scanIndex, stop,
                   line, asked>>

Missed ==
    /\ pc = "missed" /\ Go("head")
    /\ UNCHANGED <<planVars, after, prevIndex, scanFrom, good, ret, readerVars, scanIndex, stop, line,
                   asked, doubt>>

WaitThrows ==
    /\ pc = "missed" /\ Go("consume") /\ good' = FALSE
    /\ UNCHANGED <<planVars, after, prevIndex, scanFrom, ret, readerVars, scanIndex, stop, line, asked, doubt>>

\* The timer has reached its timeout.
Expire == WaitEnds \/ WaitThrows

\* A parser looks for its text from the scan pointer on; all but that of the report need it, and
\* all but that of the first report may refuse what it says.  A report with a line that is not of
\* the form is parsed for ever.
ParseText ==
    /\ pc = "parse"
    /\ \/ /\ Go("consume")
          /\ \/ good' = (Call.text = "report" \/ Found(scanIndex, Call.text)) /\ UNCHANGED doubt
             \/ (Call.text = "report" => Call.op = "check") /\ good' = FALSE /\ UNCHANGED doubt
             \/ ~Terminated(scanIndex) /\ good' \in BOOLEAN /\ doubt' = TRUE
       \/ Call.text = "report" /\ Go("looping") /\ UNCHANGED <<good, doubt>>
    /\ UNCHANGED <<planVars, after, prevIndex, scanFrom, ret, readerVars, scanIndex, stop, line,
                   asked>>

\* ConsumeScanned: _read_index is loaded, then stored.
ConsumeLoad ==
    /\ pc = "consume" /\ Go("consumed") /\ prevIndex' = readIndex
    /\ UNCHANGED <<planVars, after, scanFrom, good, ret, readerVars, scanIndex, stop, line,
                   asked, doubt>>

\* (Variant: nothing is consumed.)
ConsumeNothing ==
    /\ pc = "consumed"
    /\ IF good THEN NextCall /\ UNCHANGED <<ret, stop>> ELSE Throw
    /\ UNCHANGED <<planVars, after, prevIndex, scanFrom, good, readerVars, scanIndex, line,
                   asked, doubt>>

ConsumeStore ==
    /\ pc = "consumed" /\ scanIndex' = prevIndex
    /\ IF good THEN NextCall /\ UNCHANGED <<ret, stop>> ELSE Throw
    /\ UNCHANGED <<planVars, after, prevIndex, scanFrom, good, readerVars, line, asked, doubt>>

\* StopReaderThread waits for the thread: in the middle of the calls, and in the destructor.
Join ==
    /\ pc \in {"join", "closing"} /\ rpc = "ended"
    /\ Go(IF pc = "join" THEN "next" ELSE "over")
    /\ UNCHANGED <<planVars, after, prevIndex, scanFrom, good, ret, readerVars, scanIndex, stop,
                   line, asked, doubt>>

Updater ==
    \/ LookAtModule \/ OpenModule \/ SendBlock \/ VerifyModule \/ ActivateModule \/ Leave
    \/ Begin \/ Finish \/ Sample \/ Slept \/ Send \/ WaitEnter \/ WaitGoesOn \/ Search \/ Missed
    \/ ParseText \/ ConsumeLoad \/ ConsumeStore \/ Join

-----------------------------------------------------------------------------
(* The reader thread. *)

\* (Variant: the check leaves no room for the text and the terminator.)
HasRoomLate == readIndex < ReadBufferSize
HasRoom == readIndex < ReadBufferSize - 2

\* The head of its loop.
ReaderStop ==
    /\ rpc = "top" /\ stop /\ rpc' = "ended"
    /\ UNCHANGED <<callVars, buffer, readIndex, scanIndex, stop, line, asked, doubt>>

\* The buffer is full: the indexes go back one after the other.  (A debug build asserts before that
\* this does not happen.)
ReaderFull ==
    /\ rpc = "top" /\ ~stop /\ ~HasRoom /\ rpc' = "back"
    /\ readIndex' = 0 /\ doubt' = TRUE
    /\ UNCHANGED <<callVars, buffer, scanIndex, stop, line, asked>>

ReaderBack ==
    /\ rpc = "back" /\ rpc' = "recv" /\ scanIndex' = 0
    /\ UNCHANGED <<callVars, buffer, readIndex, stop, line, asked, doubt>>

\* RecvBytes: into the buffer, a which from the head of the loop leads back to it, or an
\* error, which ends the thread.
Receiving == rpc = "recv" \/ (rpc = "top" /\ ~stop /\ HasRoom)

ReaderRecv ==
    /\ Receiving /\ line # <<>> /\ line' = Tail(line)
    /\ buffer' = [buffer EXCEPT ![readIndex] = Head(line)] /\ rpc' = "count"
    /\ UNCHANGED <<callVars, readIndex, scanIndex, stop, asked, doubt>>

ReaderTimeout ==
    /\ rpc = "recv" /\ rpc' = "top"
    /\ UNCHANGED <<callVars, buffer, readIndex, scanIndex, stop, line, asked, doubt>>

ReaderFails ==
    /\ Receiving /\ rpc' = "ended"
    /\ UNCHANGED <<callVars, buffer, readIndex, scanIndex, stop, line, asked, doubt>>

\* _read_buffer[++_read_index] = '\0'
ReaderCount ==
    /\ rpc = "count" /\ rpc' = "terminate" /\ readIndex' = readIndex + 1
    /\ UNCHANGED <<callVars, buffer, scanIndex, stop, line, asked, doubt>>

ReaderTerminate ==
    /\ rpc = "terminate" /\ rpc' = "top"
    /\ buffer' = [buffer EXCEPT ![readIndex] = End]
    /\ UNCHANGED <<callVars, readIndex, scanIndex, stop, line, asked, doubt>>

Reader ==
    \/ ReaderStop \/ ReaderFull \/ ReaderBack \/ ReaderRecv \/ ReaderTimeout \/ ReaderCount \/ ReaderTerminate

\* The updating thread has left, and the program goes on elsewhere; or it tries one line for ever.
Over == pc \in {"over", "looping"} /\ UNCHANGED vars

Next == Updater \/ Expire \/ Reader \/ ReaderFails \/ Over

\* Both threads run, and a wait does not look at its timer for ever in time; nothing makes the line
\* fail.
Spec == Init /\ [][Next]_vars /\ WF_vars(Updater) /\ WF_vars(Reader) /\ SF_vars(Expire)

-----------------------------------------------------------------------------
Texts == {"dlspdAck", "dlverAck", "versions", "dlinfoAck", "report", "dlinfoEnd", "dlinitAck", "dlAck",
          "blk", "dlRet", "dlactAck", "validationOk"}
Tokens == [text : Texts \cup {End.text, Junk.text}, of : Nat]

\* The type invariant: the reader never writes outside of the buffer, neither a text nor its
\* terminator, and the updating thread never looks behind it.
LineTypeOK ==
    /\ module \in 0..NModules /\ sent \in 0..NBlocks
    /\ part \in DOMAIN Calls /\ step \in 0..Len(Calls[part])
    /\ pc \in {"next", "idle", "slept", "send", "enter", "head", "search", "missed", "parse", "consume",
               "consumed", "join", "closing", "over", "looping"}
    /\ after \in {"next", "send", "search", "parse"}
    /\ good \in BOOLEAN /\ ret \in {"None", "Ok", "Error"}
    /\ buffer \in [Cells -> Tokens]
    /\ {readIndex, scanIndex, scanFrom, prevIndex} \subseteq Cells
    /\ rpc = "count" => readIndex + 1 \in Cells
    /\ stop \in BOOLEAN /\ rpc \in {"top", "back", "recv", "count", "terminate", "ended"}
    /\ line \in Seq(Tokens) /\ asked \in Nat /\ doubt \in BOOLEAN

\* What a parser finds was said to the call before it, not to an earlier one, and a report is there
\* from its records to its end.  The versions are left out: the first two commands ask for them
\* twice, and nothing is consumed in between.
AnswerIsOwn ==
    pc = "parse" /\ ~doubt /\ Call.text # "versions" =>
        /\ \A j \in Text(scanIndex) : buffer[j].text = Call.text => buffer[j].of = asked
        /\ Call.text = "report" => \E k, j \in Text(scanIndex) :
             /\ k < j /\ buffer[k] = [text |-> "report", of |-> asked]
             /\ buffer[j] = [text |-> "dlinfoEnd", of |-> asked]

\* A burning ends, whatever the device leaves without an answer and whenever the line is late or
\* the buffer full, and with it the reader thread; but for a report that is parsed for ever.  (The
\* device of the model only answers: one that never falls silent keeps WaitForIdle, which has no
\* timeout, waiting.)
CallsEnd == <>(pc \in {"over", "looping"})

=============================================================================
