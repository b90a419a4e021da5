------------------------------ MODULE Session ------------------------------
(***************************************************************************)
(* The packet session between the host library and the camera, as          *)
(* SecureSession.cc and NonSecureSession.cc implement it: Start, SendPacket, *)
(* RecvPacket, the cancel flag that any thread may raise, and the           *)
(* destructor.  One application thread runs one operation at a time (Start, *)
(* then any mix of sends and receives); another thread may call Cancel at   *)
(* any moment.  The device and the serial line are outside src/ and are     *)
(* modelled from what the host code relies on: the line may lose, damage,   *)
(* delay or repeat what the device sends.                                   *)
(*                                                                         *)
(* Cryptography is abstracted to what it distinguishes: the shared secret   *)
(* is the pair of key generations that went into it, and the HMAC of a      *)
(* packet verifies exactly when both sides hold the same pair.              *)
(***************************************************************************)
EXTENDS Integers, Sequences

CONSTANTS
    Secure,      \* TRUE: built with RSID_SECURE, FALSE: NonSecureSession
    MaxDelta,    \* MAX_SEQ_NUMBER_DELTA
    SeqMod,      \* sequence numbers are uint32_t: arithmetic is modulo SeqMod
    MaxSessions, \* bound: operations the application starts
    MaxSends,    \* bound: packets the host sends in one session
    MaxEmits,    \* bound: packets the device emits in one session
    MaxCancels,  \* bound: calls of Cancel between two Starts
    MaxLine      \* bound: packets in flight from the device

ASSUME SessionAssumption ==
    /\ Secure \in BOOLEAN
    /\ MaxDelta \in Nat \ {0}
    /\ SeqMod \in Nat /\ SeqMod > MaxDelta
    /\ MaxSessions \in Nat /\ MaxSends \in Nat
    /\ MaxEmits \in Nat /\ MaxEmits < SeqMod
    /\ MaxCancels \in Nat /\ MaxLine \in Nat

VARIABLES
    pc,         \* where the application thread is
    connected,  \* the authenticator holds an open serial connection
    serial,     \* _serial: "null", "live", or "stale" once that connection is closed
    isOpen,     \* _is_open
    cancelReq,  \* _cancel_required
    lastSent,   \* _last_sent_seq_number
    lastRecv,   \* _last_recv_seq_number
    sess,       \* number of Starts so far; in a secure build the host key generation
    peerGen,    \* generation of the device key the shared secret was made with
    ret,        \* status the last session call returned
    toDev,      \* host to device, in order
    toHost,     \* device to host, in order
    dev,        \* the device: its session, key generation, counters
    emitted,    \* history: every session packet the device has sent
    lastAcc,    \* history: the last packet RecvPacket accepted
    reply,      \* history: the packet that answered the last Start
    asked,      \* history: Cancel calls since the last Start cleared the flag
    cancels,    \* history: face_cancel commands sent since then
    owed,       \* history: a Cancel since then that no face_cancel has followed
    quiet       \* history: the line was silent when this operation began, and has not failed since

hostVars == <<pc, connected, serial, isOpen, cancelReq, lastSent, lastRecv, sess, peerGen, ret>>
lineVars == <<toDev, toHost, dev, emitted>>
cancelHist == <<asked, cancels, owed>>
vars == <<hostVars, lineVars, lastAcc, reply, cancelHist, quiet>>

Statuses == {"None", "Ok", "SendFailed", "RecvFailed", "SecurityError", "RecvUnexpectedPacket", "Thrown"}
Locations == {"idle", "begin", "startSend", "startRecv", "ready",
              "cancelClear", "cancelSend", "recv", "dead"}

Packet == [id : {"start", "fa", "data"}, seq : Nat, sess : Nat, gen : Nat, uid : Nat]
Damaged == [id |-> "damaged", seq |-> 0, sess |-> 0, gen |-> 0, uid |-> 0]
NoPacket == [id |-> "none", seq |-> 0, sess |-> 0, gen |-> 0, uid |-> 0]

HostMsg == [id : {"start", "request", "cancel"}, seq : Nat, sess : Nat]

Init ==
    /\ pc = "idle" /\ connected = FALSE /\ serial = "null" /\ isOpen = FALSE
    /\ cancelReq = FALSE /\ lastSent = 0 /\ lastRecv = 0
    /\ sess = 0 /\ peerGen = 0 /\ ret = "None"
    /\ toDev = <<>> /\ toHost = <<>> /\ emitted = {}
    /\ dev = [sess |-> 0, gen |-> 0, sent |-> 0, busy |-> FALSE, uid |-> 0]
    /\ lastAcc = NoPacket /\ reply = NoPacket
    /\ asked = 0 /\ cancels = 0 /\ owed = FALSE /\ quiet = FALSE

-----------------------------------------------------------------------------
(* The owner of the session: FaceAuthenticatorImpl::Connect and Disconnect. *)

Connect ==
    /\ pc = "idle"
    /\ connected' = TRUE
    /\ serial' = IF serial = "live" THEN "stale" ELSE serial   \* the old object is reset
    /\ UNCHANGED <<pc, isOpen, cancelReq, lastSent, lastRecv, sess, peerGen, ret,
                   lineVars, lastAcc, reply, cancelHist, quiet>>

Disconnect ==
    /\ pc = "idle" /\ connected
    /\ connected' = FALSE
    /\ serial' = IF serial = "live" THEN "stale" ELSE serial
    /\ UNCHANGED <<pc, isOpen, cancelReq, lastSent, lastRecv, sess, peerGen, ret,
                   lineVars, lastAcc, reply, cancelHist, quiet>>

\* The application enters an operation (Authenticate, Enroll, ...), not yet in Start.
BeginOperation ==
    /\ pc = "idle" /\ sess < MaxSessions
    /\ pc' = "begin"
    /\ quiet' = (toDev = <<>> /\ toHost = <<>> /\ ~dev.busy)
    /\ UNCHANGED <<connected, serial, isOpen, cancelReq, lastSent, lastRecv, sess, peerGen,
                   ret, lineVars, lastAcc, reply, cancelHist>>

-----------------------------------------------------------------------------
(* Start(serial_conn). *)

\* (Variant of StartReset for the mutant runs: a pending cancel survives.)
StartResetKeepsCancel ==
    /\ pc = "begin" /\ connected
    /\ isOpen' = FALSE /\ asked' = 0 /\ cancels' = 0 /\ owed' = FALSE
    /\ serial' = "live" /\ lastSent' = 0 /\ lastRecv' = 0 /\ sess' = sess + 1
    /\ pc' = "startSend"
    /\ UNCHANGED <<cancelReq, ret, connected, peerGen, lineVars, lastAcc, reply, quiet>>

\* (Variant: the received number is not reset.)
StartResetKeepsNumbers ==
    /\ pc = "begin" /\ connected
    /\ isOpen' = FALSE /\ cancelReq' = FALSE /\ asked' = 0 /\ cancels' = 0 /\ owed' = FALSE
    /\ serial' = "live" /\ lastSent' = 0 /\ sess' = sess + 1 /\ pc' = "startSend"
    /\ UNCHANGED <<lastRecv, ret, connected, peerGen, lineVars, lastAcc, reply, quiet>>

\* Forget any pending cancel; a null connection throws, the secure build signs a new key
\* (the sign callback may refuse).
StartReset ==
    /\ pc = "begin"
    /\ isOpen' = FALSE /\ cancelReq' = FALSE
    /\ asked' = 0 /\ cancels' = 0 /\ owed' = FALSE
    /\ \/ /\ ~connected
          /\ pc' = "idle" /\ ret' = "Thrown"
          /\ UNCHANGED <<serial, lastSent, lastRecv, sess>>
       \/ /\ connected
          /\ serial' = "live" /\ lastSent' = 0 /\ lastRecv' = 0 /\ sess' = sess + 1
          /\ \/ pc' = "startSend" /\ UNCHANGED ret
             \/ Secure /\ pc' = "idle" /\ ret' = "SecurityError"
    /\ UNCHANGED <<connected, peerGen, lineVars, lastAcc, reply, quiet>>

\* SendBinary of StartSession (or of the signed ECDH key) to the device.
StartSend ==
    /\ pc = "startSend"
    /\ \/ /\ toDev' = Append(toDev, [id |-> "start", seq |-> 0, sess |-> sess])
          /\ pc' = "startRecv" /\ UNCHANGED ret
       \/ /\ pc' = "idle" /\ ret' = "SendFailed" /\ UNCHANGED toDev
    /\ UNCHANGED <<connected, serial, isOpen, cancelReq, lastSent, lastRecv, sess, peerGen,
                   toHost, dev, emitted, lastAcc, reply, cancelHist, quiet>>

\* The reply: the non-secure build logs a wrong id and still returns Ok; the secure build
\* refuses it, then lets the verify callback refuse the key, and only then opens.
StartRecvPacket ==
    /\ pc = "startRecv" /\ toHost # <<>>
    /\ LET p == Head(toHost) IN
       /\ toHost' = Tail(toHost)
       /\ reply' = p
       /\ \/ /\ p = Damaged \/ (Secure /\ p.id # "start")
             /\ ret' = IF p = Damaged THEN "RecvFailed" ELSE "SecurityError"
             /\ pc' = "idle"
             /\ UNCHANGED <<isOpen, peerGen>>
          \/ /\ Secure /\ p.id = "start"
             /\ ret' = "SecurityError" /\ pc' = "idle"     \* _verify_callback returned false
             /\ UNCHANGED <<isOpen, peerGen>>
          \/ /\ Secure /\ p.id = "start"
             /\ ret' = "Ok" /\ pc' = "ready"
             /\ isOpen' = TRUE /\ peerGen' = p.gen
          \/ /\ ~Secure /\ p # Damaged
             /\ ret' = "Ok" /\ pc' = "ready"
             /\ UNCHANGED <<isOpen, peerGen>>
    /\ UNCHANGED <<connected, serial, cancelReq, lastSent, lastRecv, sess,
                   toDev, dev, emitted, lastAcc, cancelHist, quiet>>

\* No complete packet within recv_packet_timeout; what is in flight arrives later.
StartRecvTimeout ==
    /\ pc = "startRecv"
    /\ pc' = "idle" /\ ret' = "RecvFailed" /\ quiet' = FALSE
    /\ UNCHANGED <<connected, serial, isOpen, cancelReq, lastSent, lastRecv, sess, peerGen,
                   lineVars, lastAcc, reply, cancelHist>>

-----------------------------------------------------------------------------
(* SendPacket and the RecvPacket family. *)

\* (Variant: a failed send takes back a number that was not taken yet.)
SendPacketTakesBack ==
    /\ pc = "ready" /\ lastSent < MaxSends
    /\ ret' = "SendFailed" /\ lastSent' = lastSent - 1
    /\ UNCHANGED <<pc, connected, serial, isOpen, cancelReq, lastRecv, sess, peerGen,
                   lineVars, lastAcc, reply, cancelHist, quiet>>

\* The number advances before anything that can fail (encryption, HMAC, the serial write).
SendPacket ==
    /\ pc = "ready" /\ lastSent < MaxSends
    /\ lastSent' = (lastSent + 1) % SeqMod
    /\ \/ /\ toDev' = Append(toDev, [id |-> "request", seq |-> lastSent', sess |-> sess])
          /\ ret' = "Ok"
       \/ /\ ret' \in {"SendFailed"} \cup (IF Secure THEN {"SecurityError"} ELSE {})
          /\ UNCHANGED toDev
    /\ UNCHANGED <<pc, connected, serial, isOpen, cancelReq, lastRecv, sess, peerGen,
                   toHost, dev, emitted, lastAcc, reply, cancelHist, quiet>>

\* (Variant: the receive does not look at the flag.)
RecvBeginIgnoresFlag ==
    /\ pc = "ready" /\ pc' = "recv"
    /\ UNCHANGED <<connected, serial, isOpen, cancelReq, lastSent, lastRecv, sess, peerGen, ret,
                   lineVars, lastAcc, reply, cancelHist, quiet>>

\* HandleCancelFlag reads the flag ...
RecvBegin ==
    /\ pc = "ready"
    /\ pc' = IF cancelReq THEN "cancelClear" ELSE "recv"
    /\ UNCHANGED <<connected, serial, isOpen, cancelReq, lastSent, lastRecv, sess, peerGen, ret,
                   lineVars, lastAcc, reply, cancelHist, quiet>>

\* ... clears it in a second step ...
CancelClear ==
    /\ pc = "cancelClear"
    /\ cancelReq' = FALSE /\ pc' = "cancelSend"
    /\ UNCHANGED <<connected, serial, isOpen, lastSent, lastRecv, sess, peerGen, ret,
                   lineVars, lastAcc, reply, cancelHist, quiet>>

\* ... and then sends face_cancel; RecvPacket goes on only when that write succeeded.
CancelSend ==
    /\ pc = "cancelSend"
    /\ \/ /\ toDev' = Append(toDev, [id |-> "cancel", seq |-> 0, sess |-> sess])
          /\ cancels' = cancels + 1 /\ owed' = FALSE
          /\ pc' = "recv" /\ UNCHANGED ret
       \/ /\ pc' = "ready" /\ ret' = "SendFailed"
          /\ owed' = FALSE        \* not retried: the caller is told SendFailed
          /\ UNCHANGED <<toDev, cancels>>
    /\ UNCHANGED <<connected, serial, isOpen, cancelReq, lastSent, lastRecv, sess, peerGen,
                   toHost, dev, emitted, lastAcc, reply, asked, quiet>>

\* (Variant: the last number is accepted again.)
ValidateSeqNumberAgain(last, seq) == last <= seq /\ seq <= (last + MaxDelta) % SeqMod

\* uint32_t arithmetic, as in the code.
ValidateSeqNumber(last, seq) == last < seq /\ seq <= (last + MaxDelta) % SeqMod

\* (Variant: the device's key does not go into the key of the session.)
AuthenticAnyDeviceKey(p) == Secure => p.id # "start" /\ p.sess = sess

\* The HMAC of p verifies under the host's shared secret (always, without security).
Authentic(p) == Secure => p.id # "start" /\ p.sess = sess /\ p.gen = peerGen

\* want: "any" for RecvPacket, "fa" for RecvFaPacket, "data" for RecvDataPacket.
RecvPacket(want) ==
    /\ pc = "recv" /\ toHost # <<>>
    /\ pc' = "ready"
    /\ LET p == Head(toHost) IN
       /\ toHost' = Tail(toHost)
       /\ \/ /\ p = Damaged
             /\ ret' = "RecvFailed" /\ UNCHANGED <<lastRecv, lastAcc>>
          \/ /\ p # Damaged
             /\ ~(Authentic(p) /\ ValidateSeqNumber(lastRecv, p.seq))
             /\ ret' = "SecurityError" /\ UNCHANGED <<lastRecv, lastAcc>>
          \/ /\ p # Damaged
             /\ Authentic(p) /\ ValidateSeqNumber(lastRecv, p.seq)
             /\ lastRecv' = p.seq /\ lastAcc' = p
             /\ ret' = IF want = "any" \/ (want = "fa") = (p.id = "fa") THEN "Ok"
                       ELSE "RecvUnexpectedPacket"
    /\ UNCHANGED <<connected, serial, isOpen, cancelReq, lastSent, sess, peerGen,
                   toDev, dev, emitted, reply, cancelHist, quiet>>

RecvTimeout ==
    /\ pc = "recv"
    /\ pc' = "ready" /\ ret' = "RecvFailed" /\ quiet' = FALSE
    /\ UNCHANGED <<connected, serial, isOpen, cancelReq, lastSent, lastRecv, sess, peerGen,
                   lineVars, lastAcc, reply, cancelHist>>

\* The operation returns to the application, whatever the last status was.
EndOperation ==
    /\ pc = "ready" /\ pc' = "idle"
    /\ UNCHANGED <<connected, serial, isOpen, cancelReq, lastSent, lastRecv, sess, peerGen, ret,
                   lineVars, lastAcc, reply, cancelHist, quiet>>

\* The destructor sends a cancel that nobody has handled yet, if it ever had a connection
\* (a write through a stale pointer has no defined effect on the line).
Destroy ==
    /\ pc = "idle" /\ pc' = "dead"
    /\ cancelReq' = FALSE
    /\ \/ /\ cancelReq /\ serial = "live"
          /\ toDev' = Append(toDev, [id |-> "cancel", seq |-> 0, sess |-> sess])
          /\ cancels' = cancels + 1 /\ owed' = FALSE
       \/ UNCHANGED <<toDev, cancels, owed>>
    /\ UNCHANGED <<connected, serial, isOpen, lastSent, lastRecv, sess, peerGen, ret,
                   toHost, dev, emitted, lastAcc, reply, asked, quiet>>

-----------------------------------------------------------------------------
(* Any other thread. *)

Cancel ==
    /\ pc # "dead" /\ asked < MaxCancels
    /\ cancelReq' = TRUE
    /\ asked' = asked + 1
    /\ owed' = (owed \/ pc \notin {"idle", "begin"})
    /\ UNCHANGED <<pc, connected, serial, isOpen, lastSent, lastRecv, sess, peerGen, ret,
                   lineVars, lastAcc, reply, cancels, quiet>>

-----------------------------------------------------------------------------
(* The device and the line. *)

\* What one emission leaves on the line: the packet, nothing, or damaged bytes.
Carry(p) ==
    \/ toHost' = Append(toHost, p) /\ UNCHANGED quiet
    \/ toHost' \in {toHost, Append(toHost, Damaged)} /\ quiet' = FALSE

SessionPacket(id) ==
    [id |-> id, seq |-> dev.sent + 1, sess |-> dev.sess, gen |-> dev.gen, uid |-> dev.uid + 1]

\* A start message opens a new device session with a fresh key; the reply is outside the
\* session's numbering.
DeviceStart ==
    /\ toDev # <<>> /\ Head(toDev).id = "start" /\ Len(toHost) < MaxLine
    /\ toDev' = Tail(toDev)
    /\ dev' = [sess |-> Head(toDev).sess, gen |-> dev.gen + 1, sent |-> 0, busy |-> FALSE,
               uid |-> dev.uid + 1]
    /\ Carry([id |-> "start", seq |-> 0, sess |-> Head(toDev).sess, gen |-> dev.gen + 1,
              uid |-> dev.uid + 1])
    /\ UNCHANGED <<hostVars, emitted, lastAcc, reply, cancelHist>>

DeviceRequest ==
    /\ toDev # <<>> /\ Head(toDev).id \in {"request", "cancel"}
    /\ toDev' = Tail(toDev)
    /\ dev' = [dev EXCEPT !.busy = (Head(toDev).id = "request" /\ Head(toDev).sess = dev.sess)]
    /\ UNCHANGED <<hostVars, toHost, emitted, lastAcc, reply, cancelHist, quiet>>

\* A busy device reports: hints, results, faceprints, and possibly a last packet.
DeviceEmit ==
    /\ dev.busy /\ dev.sent < MaxEmits /\ Len(toHost) < MaxLine
    /\ \E id \in {"fa", "data"}, more \in BOOLEAN :
        /\ Carry(SessionPacket(id))
        /\ emitted' = emitted \cup {SessionPacket(id)}
        /\ dev' = [dev EXCEPT !.sent = @ + 1, !.uid = @ + 1, !.busy = more]
    /\ UNCHANGED <<hostVars, toDev, lastAcc, reply, cancelHist>>

\* The line repeats a session packet it has carried before.
LineRepeat ==
    /\ Len(toHost) < MaxLine
    /\ \E p \in emitted : toHost' = Append(toHost, p)
    /\ quiet' = FALSE
    /\ UNCHANGED <<hostVars, toDev, dev, emitted, lastAcc, reply, cancelHist>>

Next ==
    \/ Connect \/ Disconnect \/ BeginOperation
    \/ StartReset \/ StartSend \/ StartRecvPacket \/ StartRecvTimeout
    \/ SendPacket \/ RecvBegin \/ CancelClear \/ CancelSend
    \/ (\E want \in {"any", "fa", "data"} : RecvPacket(want))
    \/ RecvTimeout \/ EndOperation \/ Destroy
    \/ Cancel
    \/ DeviceStart \/ DeviceRequest \/ DeviceEmit \/ LineRepeat

Spec == Init /\ [][Next]_vars

-----------------------------------------------------------------------------
HostTypeOK ==
    /\ pc \in Locations
    /\ connected \in BOOLEAN /\ serial \in {"null", "live", "stale"}
    /\ isOpen \in BOOLEAN /\ cancelReq \in BOOLEAN
    /\ lastSent \in 0..(SeqMod - 1) /\ lastRecv \in Nat
    /\ sess \in Nat /\ peerGen \in Nat /\ ret \in Statuses

LineTypeOK ==
    /\ toDev \in Seq(HostMsg)
    /\ toHost \in Seq(Packet \cup {Damaged})
    /\ dev \in [sess : Nat, gen : Nat, sent : 0..MaxEmits, busy : BOOLEAN, uid : Nat]
    /\ emitted \subseteq Packet

HistoryTypeOK ==
    /\ lastAcc \in Packet \cup {NoPacket} /\ reply \in Packet \cup {NoPacket, Damaged}
    /\ asked \in Nat /\ cancels \in Nat
    /\ owed \in BOOLEAN /\ quiet \in BOOLEAN

\* The type invariant: the variables of the host, the line and the history have their types.
TypeOK == HostTypeOK /\ LineTypeOK /\ HistoryTypeOK

\* RecvPacketImpl lets a packet through.
Accepting == pc = "recv" /\ pc' = "ready" /\ ret' \in {"Ok", "RecvUnexpectedPacket"}

\* In a secure build no packet is ever accepted twice or out of the device's order, in this
\* session or any earlier one, however the line loses, delays or repeats packets
\* (RecvPacketImpl: HMAC under the session's key, then ValidateSeqNumber; Start resets both).
AcceptedInOrder == [][Secure /\ Accepting => lastAcc'.uid > lastAcc.uid]_vars

\* Without security nothing ties a packet to a session; an accepted packet still answers the
\* running operation when the line was silent as the operation began and has not failed since.
QuietLineIsFresh ==
    quiet /\ pc \in {"ready", "recv", "cancelClear", "cancelSend"}
        => reply.id = "start" /\ (lastRecv = 0 \/ lastAcc.sess = sess)

\* A secure Start takes any device key for the answer, also one that comes late from an earlier
\* Start, and returns Ok.  In such a session nothing is ever accepted: RecvPacketImpl lets a packet
\* through only after a Start that was answered by the device's answer to this very Start.
AcceptedInSession == [][Secure /\ Accepting => reply.id = "start" /\ reply.sess = sess]_vars

\* A cancel requested after Start cleared the flag is on the line before the host blocks in
\* the next receive: the unlocked read-then-clear of HandleCancelFlag loses no request.
CancelBeforeNextRecv == [][pc' = "recv" /\ pc # "recv" => ~owed']_vars

\* The device is never cancelled more often than asked since the operation began: a request
\* left over from before (or between test and clear) is not sent in a later operation.
NoStaleCancel == cancels <= asked

-----------------------------------------------------------------------------
(* The inductive invariants the proofs use. *)

\* Every pending request for a cancel is accounted for by the flag or by the send under way.
CancelInv ==
    /\ pc = "cancelClear" => cancelReq
    /\ owed => cancelReq \/ pc \in {"cancelSend", "dead"}
    /\ cancels <= asked
    /\ cancelReq \/ pc = "cancelSend" => cancels < asked
    /\ cancelReq /\ pc = "cancelSend" => cancels + 1 < asked

\* Messages reach the device in the order of the sessions they belong to.
ToDevOrder ==
    /\ dev.sess <= sess
    /\ \A i \in 1..Len(toDev) : dev.sess <= toDev[i].sess /\ toDev[i].sess <= sess
    /\ \A i, j \in 1..Len(toDev) : i < j => toDev[i].sess <= toDev[j].sess

\* What the line delivers from a session, the device has emitted.
ToHostEmitted == \A i \in 1..Len(toHost) : toHost[i].id \in {"fa", "data"} => toHost[i] \in emitted

\* The device's emissions: numbered within a key generation, and never ahead of the device.
EmittedBefore ==
    \A p \in emitted : /\ 1 <= p.uid /\ p.uid <= dev.uid
                       /\ p.sess <= dev.sess /\ p.gen <= dev.gen
                       /\ p.gen = dev.gen => p.seq <= dev.sent

\* Older session, or same key and smaller number: emitted earlier.
EmittedInOrder ==
    \A p, q \in emitted :
        p.sess < q.sess \/ (p.gen = q.gen /\ p.seq < q.seq) => p.uid < q.uid

\* What the host remembers of the last packet it accepted.
AcceptedKnown ==
    \/ lastAcc = NoPacket
    \/ /\ lastAcc \in emitted /\ lastAcc.sess <= sess
       /\ lastAcc.sess = sess => /\ pc \notin {"startSend", "startRecv"}
                                 /\ lastAcc.gen = peerGen /\ lastRecv = lastAcc.seq

\* A device key that was issued: the packets of its generation belong to its session.
Issued(p) ==
    /\ p.gen <= dev.gen /\ (p.gen = dev.gen => p.sess = dev.sess)
    /\ \A q \in emitted : q.gen = p.gen => q.sess = p.sess

\* The keys that the line delivers, and the one that Start took.
KeyInv ==
    /\ \A p \in emitted : p.id # "start"
    /\ \A i \in 1..Len(toHost) : toHost[i].id = "start" => Issued(toHost[i])
    /\ Secure /\ pc \in {"ready", "recv", "cancelClear", "cancelSend"} =>
         reply \in Packet /\ reply.id = "start" /\ peerGen = reply.gen /\ Issued(reply)

OrderInv == ToDevOrder /\ ToHostEmitted /\ EmittedBefore /\ EmittedInOrder
            /\ (Secure => AcceptedKnown)

=============================================================================
