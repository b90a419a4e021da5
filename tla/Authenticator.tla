--------------------------- MODULE Authenticator ---------------------------
(***************************************************************************)
(* The operations of FaceAuthenticatorImpl.cc that hold a conversation with  *)
(* the camera: Enroll, Authenticate, ExtractFaceprintsForEnroll and          *)
(* ExtractFaceprintsForAuth, the two endless loops over Authenticate and     *)
(* ExtractFaceprintsForAuth, their session timer, and Cancel, which another  *)
(* thread may call at any moment.                                           *)
(*                                                                         *)
(* The session is used at the level of what its calls do (module Session     *)
(* models them step by step): Start clears the cancel flag, a receive first  *)
(* sends a pending cancel.  A packet is its kind and whether it belongs to   *)
(* an earlier operation; the device and the line are external.              *)
(***************************************************************************)
EXTENDS Integers, Sequences

CONSTANTS
    Secure,    \* TRUE: built with RSID_SECURE
    Ops,       \* the operations the application uses
    Loops,     \* those of them it also runs in a loop
    MaxDown,   \* bound: messages on their way to the device
    MaxLine    \* bound: packets on their way to the host

Operations == {"Enroll", "Authenticate", "ExtractEnroll", "ExtractAuth"}

ASSUME AuthenticatorAssumption ==
    /\ Secure \in BOOLEAN
    /\ Ops \subseteq Operations
    /\ Loops \subseteq Ops \cap {"Authenticate", "ExtractAuth"}
    /\ MaxDown \in Nat \ {0} /\ MaxLine \in Nat \ {0}

VARIABLES
    pc,         \* where the application thread is
    op,         \* the operation it runs
    looping,    \* it runs it in a loop
    cancelLoop, \* _cancel_loop
    cancelReq,  \* _cancel_required, of the session
    expired,    \* session_timer has reached its timeout
    synced,     \* the reply Start read belongs to this session
    completed,  \* faceprints_extraction_completed_on_device
    received,   \* received_faceprints_in_host
    ret,        \* what the operation returned
    cpc,        \* where the thread in Cancel is
    toDev,      \* host to device
    toHost,     \* device to host
    dev,        \* the device
    told,       \* history: the last callback of this operation
    intact      \* history: the line was silent as this operation began and has lost nothing since

hostVars == <<pc, op, looping, expired, synced, completed, received, ret>>
flags == <<cancelLoop, cancelReq>>
lineVars == <<toDev, toHost, dev>>
vars == <<hostVars, flags, cpc, lineVars, told, intact>>

Kinds == {"start", "faces", "hint", "good", "bad", "faceprints", "reply"}
Packet == [id : Kinds, stale : BOOLEAN]
DataKinds == {"faces", "faceprints"}      \* DataPacket ids; the others are FaPackets

Locations == {"idle", "enter", "begin", "startReply", "send", "top", "recvBegin", "recv",
              "loopCheck", "sleep"}
Callbacks == {"none", "faces", "hint", "success", "failure"}

Init ==
    /\ pc = "idle" /\ op = "Authenticate" /\ looping = FALSE
    /\ expired = FALSE /\ synced = FALSE /\ completed = FALSE /\ received = FALSE
    /\ ret = "None" /\ cpc = "idle"
    /\ cancelLoop = FALSE /\ cancelReq = FALSE
    /\ toDev = <<>> /\ toHost = <<>>
    /\ dev = [mode |-> "idle", fresh |-> FALSE, op |-> "Authenticate", owes |-> FALSE]
    /\ told = "none" /\ intact = FALSE

-----------------------------------------------------------------------------
(* Callbacks and returns. *)

OnResult(good) == told' = IF good THEN "success" ELSE "failure"
OnOther(kind) == told' = kind

\* The operation returns to its loop, or to the application.
Return(status) ==
    /\ ret' = status
    /\ pc' = IF looping THEN "loopCheck" ELSE "idle"

Extracting == op \in {"ExtractEnroll", "ExtractAuth"}
Enrolling == op \in {"Enroll", "ExtractEnroll"}

\* (Variant: the session's own status code is returned, not a Status.)
SessionFailedRaw ==
    /\ IF op = "ExtractEnroll" THEN OnOther("hint") ELSE OnResult(FALSE)
    /\ Return("SendFailed")

\* A session call failed before or while the operation ran: OnResult, or OnHint in
\* ExtractFaceprintsForEnroll.
SessionFailed ==
    /\ IF op = "ExtractEnroll" THEN OnOther("hint") ELSE OnResult(FALSE)
    /\ Return("Error")

\* std::exception out of the operation's body: caught, Failure reported.
Thrown ==
    /\ IF op = "ExtractAuth" THEN OnOther("hint") ELSE OnResult(FALSE)
    /\ Return("Error")

-----------------------------------------------------------------------------
(* The application thread. *)

\* The application calls the operation or its loop; Enroll refuses a malformed user id.
Enter(o, l) ==
    /\ pc = "idle" /\ (l => o \in Loops)
    /\ op' = o /\ looping' = l
    /\ \/ pc' = (IF l THEN "enter" ELSE "begin") /\ UNCHANGED ret
       \/ o = "Enroll" /\ pc' = "idle" /\ ret' = "BadArgument"
    /\ UNCHANGED <<expired, synced, completed, received, flags, cpc, lineVars, told, intact>>

\* AuthenticateLoop / ExtractFaceprintsForAuthLoop: _cancel_loop = false.
LoopEnter ==
    /\ pc = "enter" /\ pc' = "begin"
    /\ cancelLoop' = FALSE
    /\ UNCHANGED <<op, looping, expired, synced, completed, received, ret, cancelReq, cpc,
                   lineVars, told, intact>>

Aged(s) == [i \in 1..Len(s) |-> [s[i] EXCEPT !.stale = TRUE]]

\* A write that succeeded; when the line is full it fails.
Write(m) == Len(toDev) < MaxDown /\ toDev' = Append(toDev, m)

\* _session.Start up to its receive: the cancel flag falls; without a connection it throws;
\* the write may fail.  Whatever is on the line now belongs to the past.
StartSession ==
    /\ pc = "begin"
    /\ cancelReq' = FALSE /\ expired' = FALSE /\ completed' = FALSE /\ received' = FALSE
    /\ intact' = (toDev = <<>> /\ toHost = <<>> /\ dev.mode = "idle")
    /\ toHost' = Aged(toHost) /\ dev' = [dev EXCEPT !.fresh = FALSE]
    /\ \/ /\ Write("start") /\ pc' = "startReply"
          /\ told' = "none"
          /\ UNCHANGED ret
       \/ SessionFailed /\ UNCHANGED toDev
       \/ Thrown /\ UNCHANGED toDev
    /\ UNCHANGED <<op, looping, synced, cancelLoop, cpc>>

\* The rest of Start: the secure build refuses any other packet than a start reply.
StartReply ==
    /\ pc = "startReply" /\ toHost # <<>>
    /\ toHost' = Tail(toHost)
    /\ synced' = (Secure => Head(toHost) = [id |-> "start", stale |-> FALSE])
    /\ \/ pc' = "send" /\ (Secure => Head(toHost).id = "start") /\ UNCHANGED <<ret, told>>
       \/ Secure /\ SessionFailed
    /\ UNCHANGED <<op, looping, expired, completed, received, flags, cpc, toDev, dev, intact>>

StartTimeout ==
    /\ pc = "startReply" /\ SessionFailed
    /\ UNCHANGED <<op, looping, expired, synced, completed, received, flags, cpc, lineVars, intact>>

\* SendPacket of the request; the session timer starts.
SendRequest ==
    /\ pc = "send"
    /\ \/ Write(op) /\ pc' = "top" /\ UNCHANGED <<ret, told>>
       \/ SessionFailed /\ UNCHANGED toDev
    /\ UNCHANGED <<op, looping, expired, synced, completed, received, flags, cpc, toHost, dev, intact>>

\* The head of the receive loop.
TopInTime ==
    /\ pc = "top" /\ ~expired
    /\ pc' = "recvBegin"
    /\ UNCHANGED <<op, looping, expired, synced, completed, received, ret, flags, cpc, lineVars,
                   told, intact>>

\* (Variants of TopTimedOut for the mutant runs: without the call of Cancel ...)
TopTimedOutOnlyTells ==
    /\ pc = "top" /\ expired
    /\ pc' = "recvBegin" /\ OnResult(FALSE)
    /\ UNCHANGED <<op, looping, expired, synced, completed, received, ret, flags, cpc, lineVars, intact>>

\* session_timer.ReachedTimeout(): the failure is reported, then Cancel() of this class.
TopTimedOut ==
    /\ pc = "top" /\ expired
    /\ pc' = "recvBegin" /\ OnResult(FALSE)
    /\ cancelLoop' = TRUE /\ cancelReq' = TRUE
    /\ UNCHANGED <<op, looping, expired, synced, completed, received, ret, cpc, lineVars, intact>>

\* The extracting operations wait for faceprints as a data packet.
WantsData == Extracting /\ completed /\ ~received

\* (Variant: a failed receive is only logged.)
RecvFailedSilent == Return("Error") /\ UNCHANGED told

\* A receive failed: the extracting operations report a hint, except ExtractFaceprintsForAuth
\* while it waits for faceprints.
RecvFailed ==
    /\ IF op = "ExtractEnroll" \/ (op = "ExtractAuth" /\ ~WantsData)
       THEN OnOther("hint") ELSE OnResult(FALSE)
    /\ Return("Error")

\* RecvPacket / RecvDataPacket: HandleCancelFlag first.
RecvBegin ==
    /\ pc = "recvBegin"
    /\ IF cancelReq
       THEN /\ cancelReq' = FALSE
            /\ \/ Write("cancel") /\ pc' = "recv" /\ UNCHANGED <<ret, told>>
               \/ RecvFailed /\ UNCHANGED toDev
       ELSE pc' = "recv" /\ UNCHANGED <<cancelReq, toDev, ret, told>>
    /\ UNCHANGED <<op, looping, expired, synced, completed, received, cancelLoop, cpc, toHost, dev, intact>>

RecvTimeout ==
    /\ pc = "recv" /\ RecvFailed
    /\ UNCHANGED <<op, looping, expired, synced, completed, received, flags, cpc, lineVars, intact>>

\* The session lets a packet through: in a secure build only one of this session; without
\* security an old one may pass the sequence check.  A start reply carries no number.
Accepts(p) == p.id # "start" /\ (Secure => synced /\ ~p.stale)

\* Received, but refused by the session, or not a data packet where one is due.
RecvRefused ==
    /\ pc = "recv" /\ toHost # <<>>
    /\ toHost' = Tail(toHost)
    /\ \/ ~Accepts(Head(toHost)) \/ Head(toHost).stale
       \/ WantsData /\ Head(toHost).id \notin DataKinds
    /\ RecvFailed
    /\ UNCHANGED <<op, looping, expired, synced, completed, received, flags, cpc, toDev, dev, intact>>

-----------------------------------------------------------------------------
(* What the operation does with a packet it accepts. *)

Accepted(p) ==
    /\ pc = "recv" /\ toHost # <<>> /\ p = Head(toHost) /\ Accepts(p)
    /\ toHost' = Tail(toHost)
    /\ UNCHANGED <<op, looping, expired, synced, flags, cpc, toDev, dev, intact>>

\* Faceprints after a successful extraction: Success with the faceprints, or an unexpected data
\* packet, on which the operation returns with no callback.
RecvFaceprints(p) ==
    /\ Accepted(p) /\ WantsData /\ p.id \in DataKinds
    /\ IF p.id = "faceprints"
       THEN received' = TRUE /\ OnResult(TRUE) /\ pc' = "top" /\ UNCHANGED ret
       ELSE Return("Error") /\ UNCHANGED <<received, told>>
    /\ UNCHANGED completed

\* FaceDetected; a malformed face count throws.
RecvFaces(p) ==
    /\ Accepted(p) /\ ~WantsData /\ p.id = "faces"
    /\ \/ OnOther("faces") /\ pc' = "top" /\ UNCHANGED ret
       \/ Thrown
    /\ UNCHANGED <<completed, received>>

RecvReply(p) ==
    /\ Accepted(p) /\ ~WantsData /\ p.id = "reply"
    /\ Return("Ok") /\ UNCHANGED <<completed, received, told>>

\* (Variant: ExtractFaceprintsForAuth does not wait for the next faceprints.)
RecvResultKeepsReceived(p) ==
    /\ Accepted(p) /\ ~WantsData /\ p.id \in {"good", "bad"}
    /\ IF Extracting /\ p.id = "good"
       THEN completed' = TRUE /\ UNCHANGED <<told, received>>
       ELSE OnResult(p.id = "good") /\ UNCHANGED <<completed, received>>
    /\ pc' = "top" /\ UNCHANGED ret

\* Result: reported, or remembered until the faceprints arrive; ExtractFaceprintsForAuth then
\* waits for new ones, ExtractFaceprintsForEnroll takes only the first.
RecvResult(p) ==
    /\ Accepted(p) /\ ~WantsData /\ p.id \in {"good", "bad"}
    /\ IF Extracting /\ p.id = "good"
       THEN /\ completed' = TRUE /\ UNCHANGED told
            /\ received' = IF op = "ExtractAuth" THEN FALSE ELSE received
       ELSE OnResult(p.id = "good") /\ UNCHANGED <<completed, received>>
    /\ pc' = "top" /\ UNCHANGED ret

RecvHint(p) ==
    /\ Accepted(p) /\ ~WantsData /\ p.id = "hint"
    /\ OnOther("hint") /\ pc' = "top" /\ UNCHANGED <<ret, completed, received>>

\* Any other packet ends the operation: OnResult when enrolling, OnHint when authenticating.
RecvUnexpected(p) ==
    /\ Accepted(p) /\ ~WantsData /\ p.id = "faceprints"
    /\ IF Enrolling THEN OnResult(FALSE) ELSE OnOther("hint")
    /\ Return("Error") /\ UNCHANGED <<completed, received>>

Receive(p) ==
    \/ RecvFaceprints(p) \/ RecvFaces(p) \/ RecvReply(p) \/ RecvResult(p)
    \/ RecvHint(p) \/ RecvUnexpected(p)

-----------------------------------------------------------------------------
(* The loops. *)

\* After an iteration: out on the first error and when cancelled, else to sleep.
LoopCheck ==
    /\ pc = "loopCheck"
    /\ pc' = IF ret # "Ok" \/ cancelLoop THEN "idle" ELSE "sleep"
    /\ UNCHANGED <<op, looping, expired, synced, completed, received, ret, flags, cpc, lineVars,
                   told, intact>>

\* (Variant: _cancel_loop is reset in every iteration.)
LoopSleepResets ==
    /\ pc = "sleep"
    /\ pc' = "begin" /\ cancelLoop' = FALSE
    /\ UNCHANGED <<op, looping, expired, synced, completed, received, ret, cancelReq, cpc, lineVars,
                   told, intact>>

\* AuthLoopSleep ends with its timer or a cancel; then while (!_cancel_loop).
LoopSleep ==
    /\ pc = "sleep"
    /\ pc' = IF cancelLoop THEN "idle" ELSE "begin"
    /\ UNCHANGED <<op, looping, expired, synced, completed, received, ret, flags, cpc, lineVars,
                   told, intact>>

-----------------------------------------------------------------------------
(* Cancel, in another thread: _cancel_loop first, the session's flag second. *)

CancelLoop ==
    /\ cpc = "idle" /\ cpc' = "session"
    /\ cancelLoop' = TRUE
    /\ UNCHANGED <<hostVars, cancelReq, lineVars, told, intact>>

CancelSession ==
    /\ cpc = "session" /\ cpc' = "idle"
    /\ cancelReq' = TRUE
    /\ UNCHANGED <<hostVars, cancelLoop, lineVars, told, intact>>

\* The session timer runs out.
Expire ==
    /\ pc \in {"top", "recvBegin", "recv"} /\ ~expired
    /\ expired' = TRUE
    /\ UNCHANGED <<pc, op, looping, synced, completed, received, ret, flags, cpc, lineVars, told,
                   intact>>

-----------------------------------------------------------------------------
(* The device and the line (external): a busy device reports what it likes for as long as it *)
(* likes; after a successful extraction its faceprints come next; a cancel ends it.          *)

\* The line delivers or loses what the device sends.
Emit(id) ==
    \/ /\ Len(toHost) < MaxLine
       /\ toHost' = Append(toHost, [id |-> id, stale |-> ~dev'.fresh])
       /\ UNCHANGED intact
    \/ UNCHANGED toHost /\ intact' = FALSE

\* A start message: the device is in the host's session when no later one is under way.
DeviceStart ==
    /\ toDev # <<>> /\ Head(toDev) = "start" /\ toDev' = Tail(toDev)
    /\ dev' = [dev EXCEPT !.mode = "idle", !.owes = FALSE,
                          !.fresh = \A i \in 2..Len(toDev) : toDev[i] # "start"]
    /\ Emit("start")
    /\ UNCHANGED <<hostVars, flags, cpc, told>>

DeviceTake ==
    /\ toDev # <<>> /\ Head(toDev) # "start" /\ toDev' = Tail(toDev)
    /\ dev' = IF Head(toDev) # "cancel"
              THEN [dev EXCEPT !.mode = "busy", !.op = Head(toDev), !.owes = FALSE]
              ELSE [dev EXCEPT !.mode = IF @ = "busy" THEN "ending" ELSE @, !.owes = FALSE]
    /\ UNCHANGED <<hostVars, flags, cpc, toHost, told, intact>>

DeviceReport ==
    /\ dev.mode = "busy" /\ ~dev.owes
    /\ \E id \in {"faces", "hint", "good", "bad"} :
        /\ dev' = [dev EXCEPT !.owes = (id = "good" /\ dev.op \in {"ExtractEnroll", "ExtractAuth"})]
        /\ Emit(id)
    /\ UNCHANGED <<hostVars, flags, cpc, toDev, told>>

\* Faceprints; those of an enrollment are the last thing but the reply.
DeviceFaceprints ==
    /\ dev.mode = "busy" /\ dev.owes
    /\ dev' = [dev EXCEPT !.owes = FALSE, !.mode = IF dev.op = "ExtractEnroll" THEN "ending" ELSE @]
    /\ Emit("faceprints")
    /\ UNCHANGED <<hostVars, flags, cpc, toDev, told>>

\* The end of the operation, by itself or because it was cancelled.
DeviceEnd ==
    /\ dev.mode \in {"busy", "ending"} /\ ~dev.owes
    /\ dev' = [dev EXCEPT !.mode = "idle"]
    /\ Emit("reply")
    /\ UNCHANGED <<hostVars, flags, cpc, toDev, told>>

-----------------------------------------------------------------------------
\* The application thread inside an operation or its loop.
Host ==
    \/ LoopEnter \/ StartSession \/ StartReply \/ StartTimeout \/ SendRequest
    \/ TopInTime \/ TopTimedOut \/ RecvBegin \/ RecvTimeout \/ RecvRefused
    \/ (\E p \in Packet : Receive(p))
    \/ LoopCheck \/ LoopSleep

Device == DeviceStart \/ DeviceTake \/ DeviceReport \/ DeviceFaceprints \/ DeviceEnd

Next ==
    \/ (\E o \in Ops, l \in BOOLEAN : Enter(o, l))
    \/ Host \/ CancelLoop \/ CancelSession \/ Expire \/ Device

\* The application thread runs (every receive has a timeout); a call of Cancel completes; the
\* clock advances; the device reads what it is sent and ends what was cancelled.
Fairness ==
    /\ WF_vars(Host) /\ WF_vars(CancelSession) /\ WF_vars(Expire)
    /\ WF_vars(DeviceStart \/ DeviceTake) /\ WF_vars(dev.mode = "ending" /\ DeviceEnd)

Spec == Init /\ [][Next]_vars /\ Fairness

-----------------------------------------------------------------------------
\* The type invariant.
TypeOK ==
    /\ pc \in Locations /\ op \in Operations /\ looping \in BOOLEAN
    /\ expired \in BOOLEAN /\ synced \in BOOLEAN /\ completed \in BOOLEAN /\ received \in BOOLEAN
    /\ ret \in {"None", "Ok", "Error", "BadArgument"} /\ cpc \in {"idle", "session"}
    /\ cancelLoop \in BOOLEAN /\ cancelReq \in BOOLEAN
    /\ toDev \in Seq({"start", "cancel"} \cup Operations) /\ toHost \in Seq(Packet)
    /\ dev \in [mode : {"idle", "busy", "ending"}, fresh : BOOLEAN, op : Operations, owes : BOOLEAN]
    /\ told \in Callbacks /\ intact \in BOOLEAN

Ended == pc \in {"idle", "loopCheck"}

\* Enroll and Authenticate never return an error from a session without having told the
\* callback: the last callback of such an operation is an error or the hint of one.
ErrorIsTold ==
    Ended /\ ret = "Error" /\ op \in {"Enroll", "Authenticate"} => told \in {"failure", "hint"}

\* When nothing was lost, faceprints arrive where the host waits for them: the two flags of
\* ExtractFaceprintsForAuth follow the device from face to face.
FaceprintsAreExpected ==
    intact /\ pc = "recv" /\ toHost # <<>> /\ Head(toHost).id = "faceprints" => WantsData

\* Every operation ends, though the device may report without end and a call of Cancel may be
\* forgotten by Start: the session timer cancels it.
OperationEnds == pc \notin {"idle", "loopCheck", "sleep"} ~> pc \in {"idle", "loopCheck", "sleep"}

\* Once _cancel_loop is set inside a loop, the loop returns.
LoopStops == cancelLoop /\ looping /\ pc \notin {"idle", "enter"} ~> pc = "idle"

=============================================================================
