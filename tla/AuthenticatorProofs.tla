------------------------ MODULE AuthenticatorProofs ------------------------
(***************************************************************************)
(* Proofs about the conversations of the face authenticator, for any set of *)
(* operations, either build and any length of the line.                     *)
(***************************************************************************)
EXTENDS Authenticator, TLAPS

\* The inductive invariant: a loop that sleeps did so after an operation that went well.
AuthInv ==
    /\ TypeOK
    /\ ErrorIsTold
    /\ pc = "sleep" => ret = "Ok"

\* How an operation ends.
LEMMA ReturnIs ==
    ASSUME NEW status, Return(status)
    PROVE  ret' = status /\ pc' \in {"loopCheck", "idle"}
BY DEF Return

LEMMA CallbackIs ==
    /\ \A good \in BOOLEAN : OnResult(good) => told' \in {"success", "failure"}
    /\ OnResult(FALSE) => told' = "failure"
    /\ OnOther("hint") => told' = "hint"
    /\ OnOther("faces") => told' = "faces"
BY DEF OnResult, OnOther

\* An operation that fails by itself says so, and returns an error.
LEMMA FailureIs ==
    SessionFailed \/ Thrown \/ RecvFailed =>
        /\ ret' = "Error" /\ pc' \in {"loopCheck", "idle"} /\ told' \in {"failure", "hint"}
BY ReturnIs, CallbackIs DEF SessionFailed, Thrown, RecvFailed

LEMMA AuthInvInit == Init => AuthInv
<1> SUFFICES ASSUME Init PROVE AuthInv
  OBVIOUS
<1>1. /\ pc = "idle" /\ op = "Authenticate" /\ ret = "None" /\ cpc = "idle" /\ told = "none"
      /\ toDev \in Seq({"start", "cancel"} \cup Operations) /\ toHost \in Seq(Packet)
  BY DEF Init
<1>2. dev \in [mode : {"idle", "busy", "ending"}, fresh : BOOLEAN, op : Operations, owes : BOOLEAN]
  BY DEF Init, Operations
<1>3. /\ looping \in BOOLEAN /\ expired \in BOOLEAN /\ synced \in BOOLEAN /\ completed \in BOOLEAN
      /\ received \in BOOLEAN /\ cancelLoop \in BOOLEAN /\ cancelReq \in BOOLEAN /\ intact \in BOOLEAN
  BY DEF Init
<1> QED
  BY <1>1, <1>2, <1>3 DEF AuthInv, TypeOK, ErrorIsTold, Locations, Operations, Callbacks

\* The lines keep their types.
LEMMA WriteIs ==
    ASSUME TypeOK, NEW msg \in {"start", "cancel"} \cup Operations, Write(msg)
    PROVE  toDev' \in Seq({"start", "cancel"} \cup Operations)
BY DEF TypeOK, Write

LEMMA AgedIs == ASSUME NEW s \in Seq(Packet) PROVE Aged(s) \in Seq(Packet)
<1>1. ASSUME NEW p \in Packet PROVE [p EXCEPT !.stale = TRUE] \in Packet
  BY DEF Packet
<1>2. \A i \in 1..Len(s) : [s[i] EXCEPT !.stale = TRUE] \in Packet
  BY <1>1
<1> QED
  BY <1>2 DEF Aged

LEMMA EmitIs ==
    ASSUME TypeOK, NEW id \in Kinds, dev'.fresh \in BOOLEAN, Emit(id)
    PROVE  toHost' \in Seq(Packet) /\ intact' \in BOOLEAN
<1> DEFINE sent == [id |-> id, stale |-> ~dev'.fresh]
<1>1. sent \in Packet
  BY DEF Packet
<1> HIDE DEF sent
<1>2. CASE toHost' = Append(toHost, sent) /\ UNCHANGED intact
  BY <1>1, <1>2 DEF TypeOK
<1>3. CASE UNCHANGED toHost /\ intact' = FALSE
  <2>1. intact' \in BOOLEAN
    BY <1>3
  <2> QED
    BY <1>3, <2>1 DEF TypeOK
<1> QED
  BY <1>2, <1>3 DEF Emit, sent

LEMMA HeadIs ==
    ASSUME TypeOK
    PROVE  /\ toHost # <<>> => Head(toHost) \in Packet /\ Tail(toHost) \in Seq(Packet)
           /\ toDev # <<>> => /\ Head(toDev) \in {"start", "cancel"} \cup Operations
                              /\ Tail(toDev) \in Seq({"start", "cancel"} \cup Operations)
BY DEF TypeOK

-----------------------------------------------------------------------------
(* The steps of the application thread, of Cancel, and of the device.        *)

LEMMA EnterStep ==
    ASSUME AuthInv, NEW o \in Ops, NEW l \in BOOLEAN, Enter(o, l) PROVE AuthInv'
<1>1. o \in Operations
  BY AuthenticatorAssumption
<1> QED
  BY <1>1 DEF AuthInv, TypeOK, ErrorIsTold, Enter, Ended, Locations, flags, lineVars

LEMMA StartSessionStep == ASSUME AuthInv, StartSession PROVE AuthInv'
<1> USE DEF AuthInv, StartSession
<1>1. toHost' \in Seq(Packet)
  BY AgedIs DEF TypeOK
<1>2. dev' \in [mode : {"idle", "busy", "ending"}, fresh : BOOLEAN, op : Operations, owes : BOOLEAN]
  BY DEF TypeOK
<1>3. CASE Write("start") /\ pc' = "startReply" /\ told' = "none" /\ UNCHANGED ret
  BY <1>1, <1>2, <1>3, WriteIs DEF TypeOK, ErrorIsTold, Ended, Locations, Callbacks
<1>4. CASE (SessionFailed \/ Thrown) /\ UNCHANGED toDev
  BY <1>1, <1>2, <1>4, FailureIs DEF TypeOK, ErrorIsTold, Ended, Locations, Callbacks
<1> QED
  BY <1>3, <1>4

LEMMA StartReplyStep == ASSUME AuthInv, StartReply \/ StartTimeout PROVE AuthInv'
<1> USE DEF AuthInv
<1>1. CASE StartTimeout
  BY <1>1, FailureIs DEF StartTimeout, TypeOK, ErrorIsTold, Ended, Locations, Callbacks, flags, lineVars
<1>2. CASE StartReply
  <2>1. synced' \in BOOLEAN /\ toHost' \in Seq(Packet)
    BY <1>2, HeadIs, AuthenticatorAssumption DEF StartReply
  <2>2. CASE pc' = "send" /\ UNCHANGED <<ret, told>>
    BY <1>2, <2>1, <2>2 DEF StartReply, TypeOK, ErrorIsTold, Ended, Locations, flags
  <2>3. CASE SessionFailed
    BY <1>2, <2>1, <2>3, FailureIs DEF StartReply, TypeOK, ErrorIsTold, Ended, Locations, Callbacks, flags
  <2> QED
    BY <1>2, <2>2, <2>3 DEF StartReply
<1> QED
  BY <1>1, <1>2

LEMMA SendRequestStep == ASSUME AuthInv, SendRequest PROVE AuthInv'
<1> USE DEF AuthInv, SendRequest
<1>1. CASE Write(op) /\ pc' = "top" /\ UNCHANGED <<ret, told>>
  <2>1. toDev' \in Seq({"start", "cancel"} \cup Operations)
    BY <1>1, WriteIs DEF TypeOK
  <2> QED
    BY <1>1, <2>1 DEF TypeOK, ErrorIsTold, Ended, Locations, flags
<1>2. CASE SessionFailed /\ UNCHANGED toDev
  BY <1>2, FailureIs DEF TypeOK, ErrorIsTold, Ended, Locations, Callbacks, flags
<1> QED
  BY <1>1, <1>2

LEMMA TopStep == ASSUME AuthInv, TopInTime \/ TopTimedOut PROVE AuthInv'
<1>1. CASE TopInTime
  BY <1>1 DEF AuthInv, TopInTime, TypeOK, ErrorIsTold, Ended, Locations, flags, lineVars
<1>2. CASE TopTimedOut
  BY <1>2, CallbackIs DEF AuthInv, TopTimedOut, TypeOK, ErrorIsTold, Ended, Locations, Callbacks, lineVars
<1> QED
  BY <1>1, <1>2

LEMMA RecvBeginStep == ASSUME AuthInv, RecvBegin PROVE AuthInv'
<1>1. /\ cancelReq' \in BOOLEAN
      /\ UNCHANGED <<op, looping, expired, synced, completed, received, cancelLoop, cpc, toHost, dev, intact>>
  BY DEF RecvBegin, AuthInv, TypeOK
<1>2. \/ (Write("cancel") \/ UNCHANGED toDev) /\ pc' = "recv" /\ UNCHANGED <<ret, told>>
      \/ RecvFailed /\ UNCHANGED toDev
  BY DEF RecvBegin
<1>3. toDev' \in Seq({"start", "cancel"} \cup Operations)
  BY <1>2, WriteIs DEF AuthInv, TypeOK
<1>4. CASE pc' = "recv" /\ UNCHANGED <<ret, told>>
  BY <1>1, <1>3, <1>4 DEF AuthInv, TypeOK, ErrorIsTold, Ended, Locations
<1>5. CASE RecvFailed
  BY <1>1, <1>3, <1>5, FailureIs DEF AuthInv, TypeOK, ErrorIsTold, Ended, Locations, Callbacks
<1> QED
  BY <1>2, <1>4, <1>5

LEMMA RecvFailedStep == ASSUME AuthInv, RecvTimeout \/ RecvRefused PROVE AuthInv'
<1>1. RecvFailed /\ toHost' \in Seq(Packet)
  BY HeadIs DEF AuthInv, RecvTimeout, RecvRefused, TypeOK, lineVars
<1> QED
  BY <1>1, FailureIs DEF AuthInv, RecvTimeout, RecvRefused, TypeOK, ErrorIsTold, Ended, Locations,
     Callbacks, flags, lineVars

\* What every accepted packet leaves as it is.
LEMMA AcceptedIs ==
    ASSUME AuthInv, NEW p, Accepted(p)
    PROVE  /\ toHost' \in Seq(Packet) /\ pc = "recv"
           /\ UNCHANGED <<op, looping, expired, synced, flags, cpc, toDev, dev, intact>>
BY HeadIs DEF AuthInv, Accepted

LEMMA ReceiveStep == ASSUME AuthInv, NEW p \in Packet, Receive(p) PROVE AuthInv'
<1> USE DEF AuthInv
<1>1. Accepted(p)
  BY DEF Receive, RecvFaceprints, RecvFaces, RecvReply, RecvResult, RecvHint, RecvUnexpected
<1>2. SUFFICES /\ completed' \in BOOLEAN /\ received' \in BOOLEAN
               /\ \/ pc' = "top" /\ ret' = ret /\ told' \in Callbacks
                  \/ /\ pc' \in {"loopCheck", "idle"} /\ ret' = "Error" /\ told' \in Callbacks
                     /\ op \in {"Enroll", "Authenticate"} => told' \in {"failure", "hint"}
                  \/ pc' \in {"loopCheck", "idle"} /\ ret' = "Ok" /\ told' \in Callbacks
  BY <1>1, AcceptedIs DEF TypeOK, ErrorIsTold, Ended, Locations, flags
<1>3. CASE RecvFaceprints(p)
  <2>1. op \notin {"Enroll", "Authenticate"}
    BY <1>3 DEF RecvFaceprints, WantsData, Extracting
  <2> QED
    BY <1>3, <2>1, ReturnIs, CallbackIs DEF RecvFaceprints, TypeOK, Callbacks
<1>4. CASE RecvFaces(p)
  BY <1>4, FailureIs, CallbackIs DEF RecvFaces, TypeOK, Callbacks
<1>5. CASE RecvReply(p)
  BY <1>5, ReturnIs DEF RecvReply, TypeOK
<1>6. CASE RecvResult(p)
  BY <1>6, CallbackIs DEF RecvResult, TypeOK, Callbacks
<1>7. CASE RecvHint(p)
  BY <1>7, CallbackIs DEF RecvHint, TypeOK, Callbacks
<1>8. CASE RecvUnexpected(p)
  BY <1>8, ReturnIs, CallbackIs DEF RecvUnexpected, TypeOK, Callbacks
<1> QED
  BY <1>3, <1>4, <1>5, <1>6, <1>7, <1>8 DEF Receive

LEMMA LoopStep == ASSUME AuthInv, LoopEnter \/ LoopCheck \/ LoopSleep PROVE AuthInv'
<1>1. CASE LoopEnter
  <2>1. /\ pc' = "begin" /\ cancelLoop' \in BOOLEAN
        /\ UNCHANGED <<op, looping, expired, synced, completed, received, ret, cancelReq, cpc,
                       lineVars, told, intact>>
    BY <1>1 DEF LoopEnter
  <2> QED
    BY <2>1 DEF AuthInv, TypeOK, ErrorIsTold, Ended, Locations, lineVars
<1>2. CASE LoopCheck
  BY <1>2 DEF AuthInv, LoopCheck, TypeOK, ErrorIsTold, Ended, Locations, flags, lineVars
<1>3. CASE LoopSleep
  BY <1>3 DEF AuthInv, LoopSleep, TypeOK, ErrorIsTold, Ended, Locations, flags, lineVars
<1> QED
  BY <1>1, <1>2, <1>3

LEMMA OtherThreadStep == ASSUME AuthInv, CancelLoop \/ CancelSession \/ Expire PROVE AuthInv'
<1>1. /\ cancelLoop' \in BOOLEAN /\ cancelReq' \in BOOLEAN /\ expired' \in BOOLEAN
      /\ cpc' \in {"idle", "session"}
  BY DEF AuthInv, TypeOK, CancelLoop, CancelSession, Expire, hostVars, flags
<1>2. UNCHANGED <<pc, op, looping, synced, completed, received, ret, lineVars, told, intact>>
  BY DEF CancelLoop, CancelSession, Expire, hostVars
<1> QED
  BY <1>1, <1>2 DEF AuthInv, TypeOK, ErrorIsTold, Ended, lineVars

LEMMA DeviceStep == ASSUME AuthInv, Device PROVE AuthInv'
<1> USE DEF AuthInv
<1> DEFINE DevType == [mode : {"idle", "busy", "ending"}, fresh : BOOLEAN, op : Operations, owes : BOOLEAN]
<1>1. SUFFICES /\ toDev' \in Seq({"start", "cancel"} \cup Operations) /\ toHost' \in Seq(Packet)
               /\ dev' \in DevType /\ intact' \in BOOLEAN /\ UNCHANGED <<hostVars, flags, cpc, told>>
  BY DEF TypeOK, ErrorIsTold, Ended, hostVars, flags
<1>2. dev \in DevType
  BY DEF TypeOK
<1>3. CASE DeviceStart
  <2>1. dev' \in DevType
    BY <1>2, <1>3 DEF DeviceStart
  <2> QED
    BY <1>3, <2>1, HeadIs, EmitIs DEF DeviceStart, Kinds
<1>4. CASE DeviceTake
  <2>1. Head(toDev) # "cancel" => Head(toDev) \in Operations
    BY <1>4, HeadIs DEF DeviceTake
  <2>2. dev' \in DevType
    BY <1>2, <1>4, <2>1 DEF DeviceTake
  <2> QED
    BY <1>4, <2>2, HeadIs DEF DeviceTake, TypeOK
<1>5. CASE DeviceReport
  <2>1. dev' \in DevType
    BY <1>2, <1>5 DEF DeviceReport
  <2> QED
    BY <1>5, <2>1, EmitIs DEF DeviceReport, Kinds, TypeOK
<1>6. CASE DeviceFaceprints
  <2>1. dev' \in DevType
    BY <1>2, <1>6 DEF DeviceFaceprints
  <2> QED
    BY <1>6, <2>1, EmitIs DEF DeviceFaceprints, Kinds, TypeOK
<1>7. CASE DeviceEnd
  <2>1. dev' \in DevType
    BY <1>2, <1>7 DEF DeviceEnd
  <2> QED
    BY <1>7, <2>1, EmitIs DEF DeviceEnd, Kinds, TypeOK
<1> QED
  BY <1>3, <1>4, <1>5, <1>6, <1>7 DEF Device

LEMMA AuthInvStep == AuthInv /\ [Next]_vars => AuthInv'
<1> SUFFICES ASSUME AuthInv, [Next]_vars PROVE AuthInv'
  OBVIOUS
<1>1. CASE UNCHANGED vars
  BY <1>1 DEF AuthInv, TypeOK, ErrorIsTold, Ended, vars, hostVars, flags, lineVars
<1>2. CASE Next
  BY <1>2, EnterStep, StartSessionStep, StartReplyStep, SendRequestStep, TopStep, RecvBeginStep,
     RecvFailedStep, ReceiveStep, LoopStep, OtherThreadStep, DeviceStep DEF Next, Host
<1> QED
  BY <1>1, <1>2

-----------------------------------------------------------------------------
(* The theorems.                                                            *)

\* The conversations keep their invariant, whatever the device reports, the line loses and
\* another thread cancels.
THEOREM AuthInvariant == Spec => []AuthInv
<1> QED
  BY AuthInvInit, AuthInvStep, PTL DEF Spec

\* The type invariant.
THEOREM AuthTypeCorrect == Spec => []TypeOK
<1>1. AuthInv => TypeOK
  BY DEF AuthInv
<1> QED
  BY <1>1, AuthInvariant, PTL

\* Enroll and Authenticate never return an error from a session that the callback was not told.
THEOREM ErrorIsToldHolds == Spec => []ErrorIsTold
<1>1. AuthInv => ErrorIsTold
  BY DEF AuthInv
<1> QED
  BY <1>1, AuthInvariant, PTL

-----------------------------------------------------------------------------
(* While nothing is lost: what the device, the line and the two flags of an  *)
(* extraction have to do with each other.                                   *)

\* The host waits for the device's report.
Active == pc \in {"top", "recvBegin", "recv"}

\* Until the session is open the device has not heard of the operation.
Opening ==
    /\ pc \in {"startReply", "send"} => dev.mode = "idle" /\ ~completed /\ ~received
    /\ pc = "startReply" =>
         \/ toDev = <<"start">> /\ toHost = <<>>
         \/ toDev = <<>> /\ Len(toHost) = 1 /\ toHost[1].id = "start"
    /\ pc = "send" => toDev = <<>> /\ toHost = <<>>

\* Then the request is on its way, alone or before cancels, or the device has it.
Asked ==
    Active =>
        /\ dev.mode = "busy" => dev.op = op
        /\ \A i \in 1..Len(toDev) :
             \/ toDev[i] = "cancel"
             \/ /\ i = 1 /\ toDev[i] = op
                /\ dev.mode = "idle" /\ toHost = <<>> /\ ~completed /\ ~received

\* The i-th packet on the line may be faceprints: the host waits for them, or will when it has
\* read the packet before.
MayBeFaceprints(i) ==
    IF i = 1 THEN WantsData ELSE Extracting /\ toHost[i - 1].id = "good"

Announced ==
    Active =>
        /\ \A i \in 1..Len(toHost) : toHost[i].id = "faceprints" => MayBeFaceprints(i)
        /\ dev.owes => MayBeFaceprints(Len(toHost) + 1)

\* An enrollment has its faceprints once, and no success after them.
EnrolledOnce ==
    Active /\ op = "ExtractEnroll" =>
        /\ received => dev.mode # "busy" /\ \A i \in 1..Len(toHost) : toHost[i].id \notin {"good", "faceprints"}
        /\ \A i \in 1..Len(toHost) : toHost[i].id = "faceprints" =>
             /\ dev.mode # "busy"
             /\ \A j \in (i + 1)..Len(toHost) : toHost[j].id \notin {"good", "faceprints"}

FlowInv ==
    /\ dev.owes => dev.mode = "busy"
    /\ intact => Opening /\ Asked /\ Announced /\ EnrolledOnce

flowVars == <<pc, op, completed, received, toDev, toHost, dev>>

\* A step away from the conversation has nothing to keep.
LEMMA LeaveStep ==
    ASSUME FlowInv, dev'.owes = dev.owes, dev'.mode = dev.mode,
           pc' \in {"idle", "enter", "begin", "loopCheck", "sleep"}
    PROVE  FlowInv'
BY DEF FlowInv, Opening, Asked, Announced, EnrolledOnce, Active

LEMMA StillStep == ASSUME FlowInv, UNCHANGED flowVars, intact' => intact PROVE FlowInv'
BY DEF FlowInv, Opening, Asked, Announced, EnrolledOnce, Active, flowVars, MayBeFaceprints, WantsData,
   Extracting

LEMMA FlowInit == Init => FlowInv
BY DEF Init, FlowInv

LEMMA FlowStart == ASSUME AuthInv, FlowInv, StartSession PROVE FlowInv'
<1>1. dev'.owes = dev.owes /\ dev'.mode = dev.mode
  BY DEF StartSession, AuthInv, TypeOK
<1>2. CASE SessionFailed \/ Thrown
  BY <1>1, <1>2, FailureIs, LeaveStep
<1>3. CASE Write("start") /\ pc' = "startReply"
  <2>1. ~completed' /\ ~received'
    BY DEF StartSession
  <2>2. intact' => /\ toDev = <<>> /\ toHost = <<>> /\ dev.mode = "idle"
    BY DEF StartSession
  <2>3. toDev' = Append(toDev, "start") /\ toHost' = Aged(toHost)
    BY <1>3 DEF Write, StartSession
  <2>4. intact' => toDev' = <<"start">> /\ toHost' = <<>>
    BY <2>2, <2>3 DEF Aged
  <2> QED
    BY <1>1, <1>3, <2>1, <2>2, <2>4 DEF FlowInv, Opening, Asked, Announced, EnrolledOnce, Active
<1> QED
  BY <1>2, <1>3 DEF StartSession

LEMMA FlowOpen == ASSUME AuthInv, FlowInv, StartReply \/ StartTimeout \/ SendRequest PROVE FlowInv'
<1>1. UNCHANGED <<op, completed, received, dev, intact>>
  BY DEF StartReply, StartTimeout, SendRequest, lineVars
<1>2. CASE SessionFailed
  BY <1>1, <1>2, FailureIs, LeaveStep
<1>3. CASE StartReply /\ pc' = "send"
  <2>1. intact => toDev = <<>> /\ Len(toHost) = 1
    BY <1>3 DEF FlowInv, Opening, StartReply
  <2>2. intact => toDev' = <<>> /\ toHost' = <<>>
    BY <1>3, <2>1 DEF StartReply, AuthInv, TypeOK
  <2> QED
    BY <1>1, <1>3, <2>2 DEF StartReply, FlowInv, Opening, Asked, Announced, EnrolledOnce, Active
<1>4. CASE SendRequest /\ Write(op) /\ pc' = "top"
  <2>1. intact => toDev = <<>> /\ toHost = <<>> /\ dev.mode = "idle" /\ ~completed /\ ~received
    BY <1>4 DEF FlowInv, Opening, SendRequest
  <2>2. toHost' = toHost
    BY <1>4 DEF SendRequest
  <2>3. intact => toDev' = <<op>>
    BY <1>4, <2>1 DEF Write
  <2>4. ASSUME intact PROVE Asked'
    <3> DEFINE request == <<op>>
    <3>0. toDev' = request /\ Len(request) = 1 /\ request[1] = op
      BY <2>3, <2>4
    <3> HIDE DEF request
    <3>1. \A i \in 1..Len(toDev') : i = 1 /\ toDev'[i] = op
      BY <3>0
    <3>2. dev'.mode = "idle" /\ toHost' = <<>> /\ ~completed' /\ ~received'
      BY <1>1, <2>1, <2>2, <2>4
    <3> QED
      BY <1>1, <3>1, <3>2 DEF Asked
  <2> QED
    BY <1>1, <1>4, <2>1, <2>2, <2>4 DEF FlowInv, Opening, Announced, EnrolledOnce, Active
<1> QED
  BY <1>2, <1>3, <1>4 DEF StartReply, StartTimeout, SendRequest

LEMMA FlowTop == ASSUME FlowInv, TopInTime \/ TopTimedOut PROVE FlowInv'
<1>1. /\ pc = "top" /\ pc' = "recvBegin"
      /\ UNCHANGED <<op, completed, received, toDev, toHost, dev, intact>>
  BY DEF TopInTime, TopTimedOut, lineVars
<1> QED
  BY <1>1 DEF FlowInv, Opening, Asked, Announced, EnrolledOnce, Active, MayBeFaceprints, WantsData,
     Extracting

LEMMA FlowRecvBegin == ASSUME AuthInv, FlowInv, RecvBegin PROVE FlowInv'
<1>1. pc = "recvBegin" /\ UNCHANGED <<op, completed, received, toHost, dev, intact>>
  BY DEF RecvBegin
<1>2. CASE RecvFailed
  BY <1>1, <1>2, FailureIs, LeaveStep
<1>3. CASE (Write("cancel") \/ UNCHANGED toDev) /\ pc' = "recv"
  <2>1. \A i \in 1..Len(toDev') : toDev'[i] = "cancel" \/ (i \in 1..Len(toDev) /\ toDev'[i] = toDev[i])
    BY <1>3 DEF Write, AuthInv, TypeOK
  <2>2. intact' => Asked'
    BY <1>1, <1>3, <2>1 DEF FlowInv, Asked, Active
  <2> QED
    BY <1>1, <1>3, <2>2 DEF FlowInv, Opening, Announced, EnrolledOnce, Active, MayBeFaceprints, WantsData,
       Extracting
<1> QED
  BY <1>2, <1>3 DEF RecvBegin

\* The packets behind the one that is taken move up.
LEMMA TailIs ==
    ASSUME AuthInv, toHost # <<>>, toHost' = Tail(toHost)
    PROVE  /\ Len(toHost') = Len(toHost) - 1 /\ Len(toHost) \in Nat \ {0}
           /\ \A i \in 1..Len(toHost') : toHost'[i] = toHost[i + 1] /\ i + 1 \in 2..Len(toHost)
BY DEF AuthInv, TypeOK

\* What the host does with the packet agrees with what may be behind it.
LEMMA ReceiveAgrees ==
    ASSUME AuthInv, FlowInv, intact, NEW p \in Packet, Receive(p), pc' = "top"
    PROVE  /\ p = toHost[1] /\ pc = "recv" /\ toHost # <<>> /\ toHost' = Tail(toHost)
           /\ UNCHANGED <<op, toDev, dev, intact>>
           /\ (p.id = "good" /\ Extracting) => WantsData'
           /\ received' => received \/ p.id = "faceprints"
<1>1. Accepted(p)
  BY DEF Receive, RecvFaceprints, RecvFaces, RecvReply, RecvResult, RecvHint, RecvUnexpected
<1>2. /\ p = toHost[1] /\ pc = "recv" /\ toHost # <<>> /\ toHost' = Tail(toHost)
      /\ UNCHANGED <<op, toDev, dev, intact>>
  BY <1>1 DEF Accepted, AuthInv, TypeOK
<1>3. CASE RecvResult(p)
  <2>1. CASE Extracting /\ p.id = "good"
    <3>1. completed'
      BY <1>3, <2>1 DEF RecvResult
    <3>2. op # "ExtractAuth" => op = "ExtractEnroll" /\ ~received
      BY <1>2, <2>1, TailIs DEF Extracting, FlowInv, EnrolledOnce, Active
    <3>3. ~received'
      BY <1>3, <2>1, <3>2 DEF RecvResult
    <3> QED
      BY <1>2, <2>1, <3>1, <3>3 DEF WantsData, Extracting
  <2>2. CASE ~(Extracting /\ p.id = "good")
    BY <1>2, <1>3, <2>2 DEF RecvResult
  <2> QED
    BY <2>1, <2>2
<1>4. CASE RecvFaceprints(p)
  BY <1>2, <1>4, ReturnIs DEF RecvFaceprints, DataKinds
<1>5. CASE RecvFaces(p) \/ RecvReply(p) \/ RecvHint(p) \/ RecvUnexpected(p)
  <2>1. received' = received /\ p.id # "good"
    BY <1>5 DEF RecvFaces, RecvReply, RecvHint, RecvUnexpected
  <2> QED
    BY <1>2, <2>1
<1> QED
  BY <1>3, <1>4, <1>5 DEF Receive

LEMMA FlowReceive == ASSUME AuthInv, FlowInv, NEW p \in Packet, Receive(p) PROVE FlowInv'
<1>1. Accepted(p)
  BY DEF Receive, RecvFaceprints, RecvFaces, RecvReply, RecvResult, RecvHint, RecvUnexpected
<1>2. UNCHANGED <<dev, intact>>
  BY <1>1 DEF Accepted
<1>3. pc' \in {"idle", "loopCheck", "top"}
  BY ReturnIs, FailureIs DEF Receive, RecvFaceprints, RecvFaces, RecvReply, RecvResult, RecvHint, RecvUnexpected
<1>4. CASE pc' # "top" \/ ~intact
  BY <1>2, <1>3, <1>4, LeaveStep DEF FlowInv
<1>5. CASE pc' = "top" /\ intact
  <2>1. /\ p = toHost[1] /\ pc = "recv" /\ toHost # <<>> /\ toHost' = Tail(toHost)
        /\ UNCHANGED <<op, toDev, dev, intact>>
        /\ (p.id = "good" /\ Extracting) => WantsData'
        /\ received' => received \/ p.id = "faceprints"
    BY <1>5, ReceiveAgrees
  <2>2. /\ Len(toHost') = Len(toHost) - 1 /\ Len(toHost) \in Nat \ {0}
        /\ \A i \in 1..Len(toHost') : toHost'[i] = toHost[i + 1] /\ i + 1 \in 2..Len(toHost)
    BY <2>1, TailIs
  <2>3. Active /\ Asked /\ Announced /\ EnrolledOnce
    BY <1>5, <2>1 DEF FlowInv, Active
  <2>4. Asked'
    BY <1>5, <2>1, <2>3 DEF Asked
  <2>5. \A i \in 1..(Len(toHost') + 1) : MayBeFaceprints(i + 1) => MayBeFaceprints(i)'
    <3> SUFFICES ASSUME NEW i \in 1..(Len(toHost') + 1), MayBeFaceprints(i + 1)
                 PROVE  MayBeFaceprints(i)'
      OBVIOUS
    <3>1. Extracting /\ toHost[i].id = "good"
      BY <2>2 DEF MayBeFaceprints
    <3>2. CASE i = 1
      BY <2>1, <3>1, <3>2 DEF MayBeFaceprints
    <3>3. CASE i # 1
      <4>1. i - 1 \in 1..Len(toHost') /\ toHost'[i - 1] = toHost[i]
        BY <2>2, <3>3
      <4> QED
        BY <2>1, <3>1, <3>3, <4>1 DEF MayBeFaceprints, Extracting
    <3> QED
      BY <3>2, <3>3
  <2>6. Announced'
    BY <2>1, <2>2, <2>3, <2>5 DEF Announced
  <2>7. EnrolledOnce'
    <3> SUFFICES ASSUME op = "ExtractEnroll" PROVE EnrolledOnce'
      BY <2>1 DEF EnrolledOnce
    <3>1. \A i \in 1..Len(toHost') : toHost'[i].id = "faceprints" =>
             /\ dev'.mode # "busy"
             /\ \A j \in (i + 1)..Len(toHost') : toHost'[j].id \notin {"good", "faceprints"}
      <4> SUFFICES ASSUME NEW i \in 1..Len(toHost'), toHost'[i].id = "faceprints"
                   PROVE  /\ dev'.mode # "busy"
                          /\ \A j \in (i + 1)..Len(toHost') : toHost'[j].id \notin {"good", "faceprints"}
        OBVIOUS
      <4>1. i + 1 \in 1..Len(toHost) /\ toHost[i + 1].id = "faceprints"
        BY <2>2
      <4>2. \A j \in (i + 1 + 1)..Len(toHost) : toHost[j].id \notin {"good", "faceprints"}
        BY <2>3, <4>1 DEF EnrolledOnce
      <4>3. \A j \in (i + 1)..Len(toHost') : toHost'[j] = toHost[j + 1] /\ j + 1 \in (i + 1 + 1)..Len(toHost)
        BY <2>2
      <4> QED
        BY <2>1, <2>3, <4>1, <4>2, <4>3 DEF EnrolledOnce
    <3>2. ASSUME received'
          PROVE  dev'.mode # "busy" /\ \A i \in 1..Len(toHost') : toHost'[i].id \notin {"good", "faceprints"}
      <4>1. CASE received
        BY <2>1, <2>2, <2>3, <4>1 DEF EnrolledOnce
      <4>2. CASE p.id = "faceprints"
        <5>1. 1 \in 1..Len(toHost) /\ toHost[1].id = "faceprints"
          BY <2>1, <2>2, <4>2
        <5>2. dev.mode # "busy" /\ \A j \in 2..Len(toHost) : toHost[j].id \notin {"good", "faceprints"}
          BY <2>3, <5>1 DEF EnrolledOnce
        <5> QED
          BY <2>1, <2>2, <5>2
      <4> QED
        BY <2>1, <3>2, <4>1, <4>2
    <3> QED
      BY <3>1, <3>2 DEF EnrolledOnce
  <2> QED
    BY <1>5, <2>1, <2>4, <2>6, <2>7 DEF FlowInv, Opening
<1> QED
  BY <1>4, <1>5

\* What the device sends is the last on the line, or something was lost.
LEMMA EmittedIs ==
    ASSUME AuthInv, NEW id \in Kinds, Emit(id), intact'
    PROVE  /\ intact /\ Len(toHost) \in Nat /\ Len(toHost') = Len(toHost) + 1
           /\ toHost'[Len(toHost) + 1].id = id
           /\ \A i \in 1..Len(toHost) : toHost'[i] = toHost[i]
<1>1. intact /\ toHost' = Append(toHost, [id |-> id, stale |-> ~dev'.fresh])
  BY DEF Emit
<1>2. toHost \in Seq(Packet)
  BY DEF AuthInv, TypeOK
<1> DEFINE sent == [id |-> id, stale |-> ~dev'.fresh]
<1>3. sent.id = id
  OBVIOUS
<1> HIDE DEF sent
<1>4. toHost' = Append(toHost, sent)
  BY <1>1 DEF sent
<1> QED
  BY <1>1, <1>2, <1>3, <1>4

LEMMA TakenIs ==
    ASSUME AuthInv, toDev # <<>>, toDev' = Tail(toDev)
    PROVE  /\ Len(toDev') = Len(toDev) - 1 /\ Len(toDev) \in Nat \ {0} /\ Head(toDev) = toDev[1]
           /\ \A i \in 1..Len(toDev') : toDev'[i] = toDev[i + 1] /\ i + 1 \in 2..Len(toDev)
BY DEF AuthInv, TypeOK

LEMMA FlowDeviceStart == ASSUME AuthInv, FlowInv, DeviceStart PROVE FlowInv'
<1>1. /\ toDev # <<>> /\ toDev[1] = "start" /\ toDev' = Tail(toDev) /\ Emit("start")
      /\ UNCHANGED <<pc, op, completed, received>>
  BY DEF DeviceStart, hostVars, AuthInv, TypeOK
<1>2. ~dev'.owes /\ dev'.mode = "idle"
  BY DEF DeviceStart, AuthInv, TypeOK
<1>3. SUFFICES ASSUME intact' PROVE Opening' /\ Asked' /\ Announced' /\ EnrolledOnce'
  BY <1>2 DEF FlowInv
<1>4. /\ intact /\ Len(toHost) \in Nat /\ Len(toHost') = Len(toHost) + 1
      /\ toHost'[Len(toHost) + 1].id = "start"
  BY <1>1, <1>3, EmittedIs DEF Kinds
<1>5. ~Active /\ pc # "send"
  <2>1. op # "start" /\ 1 \in 1..Len(toDev)
    BY <1>1, TakenIs DEF AuthInv, TypeOK, Operations
  <2> QED
    BY <1>1, <1>4, <2>1 DEF FlowInv, Opening, Asked
<1>6. pc = "startReply" => toDev' = <<>> /\ toHost = <<>>
  BY <1>1, <1>4 DEF FlowInv, Opening
<1> QED
  BY <1>1, <1>2, <1>4, <1>5, <1>6 DEF FlowInv, Opening, Asked, Announced, EnrolledOnce, Active

LEMMA FlowDeviceTake == ASSUME AuthInv, FlowInv, DeviceTake PROVE FlowInv'
<1>1. /\ toDev # <<>> /\ toDev[1] # "start" /\ toDev' = Tail(toDev)
      /\ UNCHANGED <<pc, op, completed, received, toHost, intact>>
  BY DEF DeviceTake, hostVars, AuthInv, TypeOK
<1>2. /\ ~dev'.owes
      /\ toDev[1] # "cancel" => dev'.mode = "busy" /\ dev'.op = toDev[1]
      /\ toDev[1] = "cancel" => dev'.mode # "busy"
  BY DEF DeviceTake, AuthInv, TypeOK
<1>3. SUFFICES ASSUME intact PROVE Opening' /\ Asked' /\ Announced' /\ EnrolledOnce'
  BY <1>1, <1>2 DEF FlowInv
<1>4. pc \notin {"startReply", "send"}
  BY <1>1, <1>3 DEF FlowInv, Opening
<1>5. CASE ~Active
  BY <1>1, <1>4, <1>5 DEF Opening, Asked, Announced, EnrolledOnce, Active
<1>6. CASE Active
  <2>1. /\ Len(toDev') = Len(toDev) - 1 /\ Len(toDev) \in Nat \ {0}
        /\ \A i \in 1..Len(toDev') : toDev'[i] = toDev[i + 1] /\ i + 1 \in 2..Len(toDev)
    BY <1>1, TakenIs
  <2>2. Asked /\ Announced /\ EnrolledOnce
    BY <1>3 DEF FlowInv
  <2>3. \A i \in 1..Len(toDev') : toDev'[i] = "cancel"
    BY <1>6, <2>1, <2>2 DEF Asked
  <2>4. toDev[1] # "cancel" => toDev[1] = op /\ toHost = <<>> /\ ~received
    BY <1>6, <2>1, <2>2 DEF Asked
  <2>5. Asked'
    BY <1>1, <1>2, <2>3, <2>4 DEF Asked
  <2>6. Announced'
    BY <1>1, <1>2, <1>6, <2>2 DEF Announced, Active, MayBeFaceprints, WantsData, Extracting
  <2>7. EnrolledOnce'
    BY <1>1, <1>2, <1>6, <2>2, <2>4 DEF EnrolledOnce, Active
  <2> QED
    BY <1>1, <1>4, <2>5, <2>6, <2>7 DEF Opening
<1> QED
  BY <1>5, <1>6

\* The device reports something when it is busy or ends, and then the request has arrived.
LEMMA ReportIs ==
    ASSUME AuthInv, FlowInv, dev.mode # "idle", NEW id \in Kinds, Emit(id), intact',
           UNCHANGED <<pc, op, completed, received, toDev>>, dev'.mode # "busy" \/ dev'.op = dev.op,
           dev'.mode = "busy" => dev.mode = "busy"
    PROVE  /\ Opening' /\ Asked' /\ Len(toHost) \in Nat /\ Len(toHost') = Len(toHost) + 1
           /\ toHost'[Len(toHost) + 1].id = id
           /\ \A i \in 1..Len(toHost) : toHost'[i] = toHost[i]
           /\ Active' <=> Active
           /\ Announced /\ EnrolledOnce /\ Asked
           /\ \A i \in 1..(Len(toHost) + 1) : MayBeFaceprints(i) => MayBeFaceprints(i)'
<1>1. /\ intact /\ Len(toHost) \in Nat /\ Len(toHost') = Len(toHost) + 1
      /\ toHost'[Len(toHost) + 1].id = id
      /\ \A i \in 1..Len(toHost) : toHost'[i] = toHost[i]
  BY EmittedIs
<1>2. Opening /\ Asked /\ Announced /\ EnrolledOnce
  BY <1>1 DEF FlowInv
<1>3. Opening'
  BY <1>2 DEF Opening
<1>4. Asked'
  BY <1>2 DEF Asked, Active
<1>5. \A i \in 1..(Len(toHost) + 1) : MayBeFaceprints(i) => MayBeFaceprints(i)'
  BY <1>1 DEF MayBeFaceprints, WantsData, Extracting
<1> QED
  BY <1>1, <1>2, <1>3, <1>4, <1>5 DEF Active

LEMMA FlowDeviceReport == ASSUME AuthInv, FlowInv, DeviceReport PROVE FlowInv'
<1>1. PICK id \in {"faces", "hint", "good", "bad"} :
          /\ dev' = [dev EXCEPT !.owes = (id = "good" /\ dev.op \in {"ExtractEnroll", "ExtractAuth"})]
          /\ Emit(id)
  BY DEF DeviceReport
<1>2. /\ dev.mode = "busy" /\ dev'.mode = "busy" /\ dev'.op = dev.op /\ ~dev.owes
      /\ dev'.owes => id = "good" /\ dev.op \in {"ExtractEnroll", "ExtractAuth"}
  BY <1>1 DEF DeviceReport, AuthInv, TypeOK
<1>3. SUFFICES ASSUME intact' PROVE Opening' /\ Asked' /\ Announced' /\ EnrolledOnce'
  BY <1>2 DEF FlowInv
<1>4. UNCHANGED <<pc, op, completed, received, toDev>> /\ id \in Kinds
  BY DEF DeviceReport, hostVars, Kinds
<1>5. /\ Opening' /\ Asked' /\ Len(toHost) \in Nat /\ Len(toHost') = Len(toHost) + 1
      /\ toHost'[Len(toHost) + 1].id = id
      /\ \A i \in 1..Len(toHost) : toHost'[i] = toHost[i]
      /\ Active' <=> Active
      /\ Announced /\ EnrolledOnce /\ Asked
      /\ \A i \in 1..(Len(toHost) + 1) : MayBeFaceprints(i) => MayBeFaceprints(i)'
  BY <1>1, <1>2, <1>3, <1>4, ReportIs
<1>6. Announced'
  <2>1. Active /\ dev'.owes => (MayBeFaceprints(Len(toHost) + 1))'
    <3> SUFFICES ASSUME Active, dev'.owes PROVE (MayBeFaceprints(Len(toHost) + 1))'
      OBVIOUS
    <3>1. id = "good" /\ op \in {"ExtractEnroll", "ExtractAuth"}
      BY <1>2, <1>5 DEF Asked
    <3>2. Len(toHost') + 1 # 1 /\ (Len(toHost') + 1) - 1 = Len(toHost) + 1
      BY <1>5
    <3> QED
      BY <1>4, <1>5, <3>1, <3>2 DEF MayBeFaceprints, Extracting
  <2>2. Active => \A i \in 1..Len(toHost') : toHost'[i].id = "faceprints" => MayBeFaceprints(i)'
    <3> SUFFICES ASSUME Active, NEW i \in 1..Len(toHost'), toHost'[i].id = "faceprints"
                 PROVE  MayBeFaceprints(i)'
      OBVIOUS
    <3>1. i \in 1..Len(toHost) /\ toHost[i].id = "faceprints"
      BY <1>5
    <3> QED
      BY <1>5, <3>1 DEF Announced
  <2> QED
    BY <1>5, <2>1, <2>2 DEF Announced
<1>7. EnrolledOnce'
  <2> SUFFICES ASSUME Active, op = "ExtractEnroll" PROVE EnrolledOnce'
    BY <1>4, <1>5 DEF EnrolledOnce
  <2>1. ~received /\ \A i \in 1..Len(toHost) : toHost[i].id # "faceprints"
    BY <1>2, <1>5 DEF EnrolledOnce
  <2>2. \A i \in 1..Len(toHost') : toHost'[i].id # "faceprints"
    <3> SUFFICES ASSUME NEW i \in 1..Len(toHost') PROVE toHost'[i].id # "faceprints"
      OBVIOUS
    <3>1. i = Len(toHost) + 1 \/ i \in 1..Len(toHost)
      BY <1>5
    <3> QED
      BY <1>5, <2>1, <3>1
  <2> QED
    BY <1>4, <2>1, <2>2 DEF EnrolledOnce
<1> QED
  BY <1>5, <1>6, <1>7

LEMMA FlowDeviceFaceprints == ASSUME AuthInv, FlowInv, DeviceFaceprints PROVE FlowInv'
<1>1. /\ dev.mode = "busy" /\ dev.owes /\ ~dev'.owes /\ dev'.op = dev.op
      /\ dev'.mode = IF dev.op = "ExtractEnroll" THEN "ending" ELSE "busy"
  BY DEF DeviceFaceprints, AuthInv, TypeOK
<1>2. SUFFICES ASSUME intact' PROVE Opening' /\ Asked' /\ Announced' /\ EnrolledOnce'
  BY <1>1 DEF FlowInv
<1>3. UNCHANGED <<pc, op, completed, received, toDev>> /\ "faceprints" \in Kinds /\ Emit("faceprints")
  BY DEF DeviceFaceprints, hostVars, Kinds
<1>4. /\ Opening' /\ Asked' /\ Len(toHost) \in Nat /\ Len(toHost') = Len(toHost) + 1
      /\ toHost'[Len(toHost) + 1].id = "faceprints"
      /\ \A i \in 1..Len(toHost) : toHost'[i] = toHost[i]
      /\ Active' <=> Active
      /\ Announced /\ EnrolledOnce /\ Asked
      /\ \A i \in 1..(Len(toHost) + 1) : MayBeFaceprints(i) => MayBeFaceprints(i)'
  BY <1>1, <1>2, <1>3, ReportIs
<1>5. Announced'
  <2> SUFFICES ASSUME Active, NEW i \in 1..Len(toHost'), toHost'[i].id = "faceprints"
               PROVE  MayBeFaceprints(i)'
    BY <1>1, <1>4 DEF Announced
  <2>1. CASE i = Len(toHost) + 1
    BY <1>1, <1>4, <2>1 DEF Announced
  <2>2. CASE i \in 1..Len(toHost)
    BY <1>4, <2>2 DEF Announced
  <2> QED
    BY <1>4, <2>1, <2>2
<1>6. EnrolledOnce'
  <2> SUFFICES ASSUME Active, op = "ExtractEnroll" PROVE EnrolledOnce'
    BY <1>3, <1>4 DEF EnrolledOnce
  <2>1. ~received /\ \A i \in 1..Len(toHost) : toHost[i].id # "faceprints"
    BY <1>1, <1>4 DEF EnrolledOnce
  <2>2. dev'.mode # "busy"
    BY <1>1, <1>4 DEF Asked
  <2>3. \A i \in 1..Len(toHost') : toHost'[i].id = "faceprints" => i = Len(toHost')
    <3> SUFFICES ASSUME NEW i \in 1..Len(toHost'), i # Len(toHost') PROVE toHost'[i].id # "faceprints"
      OBVIOUS
    <3>1. i \in 1..Len(toHost)
      BY <1>4
    <3> QED
      BY <1>4, <2>1, <3>1
  <2>4. \A i \in 1..Len(toHost') : toHost'[i].id = "faceprints" =>
            \A j \in (i + 1)..Len(toHost') : toHost'[j].id \notin {"good", "faceprints"}
    BY <1>4, <2>3
  <2> QED
    BY <1>3, <2>1, <2>2, <2>4 DEF EnrolledOnce
<1> QED
  BY <1>4, <1>5, <1>6

LEMMA FlowDeviceEnd == ASSUME AuthInv, FlowInv, DeviceEnd PROVE FlowInv'
<1>1. dev.mode # "idle" /\ ~dev.owes /\ ~dev'.owes /\ dev'.mode = "idle" /\ dev'.op = dev.op
  BY DEF DeviceEnd, AuthInv, TypeOK
<1>2. SUFFICES ASSUME intact' PROVE Opening' /\ Asked' /\ Announced' /\ EnrolledOnce'
  BY <1>1 DEF FlowInv
<1>3. UNCHANGED <<pc, op, completed, received, toDev>> /\ "reply" \in Kinds /\ Emit("reply")
  BY DEF DeviceEnd, hostVars, Kinds
<1>4. /\ Opening' /\ Asked' /\ Len(toHost) \in Nat /\ Len(toHost') = Len(toHost) + 1
      /\ toHost'[Len(toHost) + 1].id = "reply"
      /\ \A i \in 1..Len(toHost) : toHost'[i] = toHost[i]
      /\ Active' <=> Active
      /\ Announced /\ EnrolledOnce /\ Asked
      /\ \A i \in 1..(Len(toHost) + 1) : MayBeFaceprints(i) => MayBeFaceprints(i)'
  BY <1>1, <1>2, <1>3, ReportIs
<1>5. \A i \in 1..Len(toHost') : toHost'[i].id \in {"good", "faceprints"} =>
          i \in 1..Len(toHost) /\ toHost'[i] = toHost[i]
  <2> SUFFICES ASSUME NEW i \in 1..Len(toHost'), toHost'[i].id # "reply"
               PROVE  i \in 1..Len(toHost) /\ toHost'[i] = toHost[i]
    OBVIOUS
  <2>1. i = Len(toHost) + 1 \/ i \in 1..Len(toHost)
    BY <1>4
  <2> QED
    BY <1>4, <2>1
<1>6. Announced'
  <2> SUFFICES ASSUME Active, NEW i \in 1..Len(toHost'), toHost'[i].id = "faceprints"
               PROVE  MayBeFaceprints(i)'
    BY <1>1, <1>4 DEF Announced
  <2> QED
    BY <1>4, <1>5 DEF Announced
<1>7. EnrolledOnce'
  <2> SUFFICES ASSUME Active, op = "ExtractEnroll" PROVE EnrolledOnce'
    BY <1>3, <1>4 DEF EnrolledOnce
  <2>1. received => \A i \in 1..Len(toHost') : toHost'[i].id \notin {"good", "faceprints"}
    BY <1>4, <1>5 DEF EnrolledOnce
  <2>2. ASSUME NEW i \in 1..Len(toHost'), toHost'[i].id = "faceprints",
               NEW j \in (i + 1)..Len(toHost'), toHost'[j].id \in {"good", "faceprints"}
        PROVE  FALSE
    <3>1. j \in 1..Len(toHost')
      BY <2>2, <1>4
    <3>2. /\ i \in 1..Len(toHost) /\ toHost[i].id = "faceprints"
          /\ j \in (i + 1)..Len(toHost) /\ toHost[j].id \in {"good", "faceprints"}
      BY <1>4, <1>5, <2>2, <3>1
    <3> QED
      BY <1>4, <3>2 DEF EnrolledOnce
  <2> QED
    BY <1>1, <1>3, <2>1, <2>2 DEF EnrolledOnce
<1> QED
  BY <1>4, <1>6, <1>7

LEMMA FlowStep == AuthInv /\ FlowInv /\ [Next]_vars => FlowInv'
<1> SUFFICES ASSUME AuthInv, FlowInv, [Next]_vars PROVE FlowInv'
  OBVIOUS
<1>1. CASE UNCHANGED vars
  BY <1>1, StillStep DEF vars, hostVars, lineVars, flowVars
<1>2. CASE CancelLoop \/ CancelSession \/ Expire
  BY <1>2, StillStep DEF CancelLoop, CancelSession, Expire, hostVars, lineVars, flowVars
<1>3. CASE (\E o \in Ops, l \in BOOLEAN : Enter(o, l)) \/ LoopEnter \/ LoopCheck \/ LoopSleep
  <2>1. dev' = dev /\ pc' \in {"idle", "enter", "begin", "loopCheck", "sleep"}
    BY <1>3 DEF Enter, LoopEnter, LoopCheck, LoopSleep, lineVars
  <2> QED
    BY <2>1, LeaveStep
<1>4. CASE RecvTimeout \/ RecvRefused
  BY <1>4, FailureIs, LeaveStep DEF RecvTimeout, RecvRefused, lineVars
<1>5. CASE Device
  BY <1>5, FlowDeviceStart, FlowDeviceTake, FlowDeviceReport, FlowDeviceFaceprints, FlowDeviceEnd DEF Device
<1> QED
  BY <1>1, <1>2, <1>3, <1>4, <1>5, FlowStart, FlowOpen, FlowTop, FlowRecvBegin, FlowReceive DEF Next, Host

\* While nothing is lost, faceprints come only where the host waits for them.
THEOREM FaceprintsAreExpectedHolds == Spec => []FaceprintsAreExpected
<1>1. AuthInv /\ FlowInv => FaceprintsAreExpected
  <2> SUFFICES ASSUME AuthInv, FlowInv, intact, pc = "recv", toHost # <<>>, Head(toHost).id = "faceprints"
               PROVE  WantsData
    BY DEF FaceprintsAreExpected
  <2>1. 1 \in 1..Len(toHost) /\ Head(toHost) = toHost[1]
    BY DEF AuthInv, TypeOK
  <2> QED
    BY <2>1 DEF FlowInv, Announced, Active, MayBeFaceprints
<1> QED
  BY <1>1, FlowInit, FlowStep, AuthInvariant, PTL DEF Spec

=============================================================================
