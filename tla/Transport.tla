----------------------------- MODULE Transport -----------------------------
(***************************************************************************)
(* How a packet comes out of a stream of bytes: PacketSender::Recv and       *)
(* WaitSyncBytes (PacketSender.cc) over a serial port.  On Linux and Windows *)
(* RecvBytes reads what the driver has (LinuxSerial.cc, WindowsSerial.cc).   *)
(* On Android (AndroidSerial.cc) a worker thread moves bulk transfers into   *)
(* the cyclic buffer from which RecvBytes takes them; the buffer is          *)
(* CyclicBuffer, whose steps are taken by the two threads.  It numbers the   *)
(* bytes it accepts, and the variable accepted says which bytes those were.  *)
(*                                                                         *)
(* A byte is a symbol and the packet it was sent in.  The fields of a packet *)
(* that Recv reads at once and does not look into are one byte: "h" is the   *)
(* rest of the header (id, iv, payload_size), "m" the hmac, "c" the CRC.     *)
(* The CRC is taken to be exact.  Bytes are lost in the worker thread or on  *)
(* the line, or come too late for the RecvBytes that waits for them.  It is   *)
(* assumed that no payload has the sync bytes and the version in a row: the   *)
(* code does not keep the device from sending one, and there a receiver that  *)
(* is out of step can take the place for the beginning of a packet.          *)
(***************************************************************************)
EXTENDS CyclicBuffer

CONSTANTS
    Ports,       \* the ports the program is built for
    Payloads,    \* the payloads of the packets the device sends, in order
    MaxPayload,  \* sizeof(SerialPacket::payload)
    Transfer,    \* read_buffer_size of the worker thread
    MaxLosses    \* bound: transfers of which bytes are lost

Symbols == {"@", "F", "v", "x"}

ASSUME TransportAssumption ==
    /\ Ports \subseteq {"android", "linux", "windows"}
    /\ Payloads \in Seq(Seq(Symbols)) /\ Payloads # <<>>
    /\ MaxPayload \in 1..MaxRequest /\ Transfer \in 1..MaxRequest /\ MaxLosses \in Nat
    /\ \A k \in 1..Len(Payloads) :
        /\ Len(Payloads[k]) \in 1..MaxPayload
        /\ \A i \in 1..(Len(Payloads[k]) - 2) :       \* no payload looks like a header
            SubSeq(Payloads[k], i, i + 2) # <<"@", "F", "v">>

VARIABLES
    port,    \* the build that runs
    pc,      \* where the thread in Recv is: the field it reads
    need,    \* bytes its RecvBytes still waits for
    got,     \* the bytes of the packet it has read
    late,    \* the timer of Recv has reached its timeout
    ret,     \* what Recv returned
    usb,     \* sent by the device and not yet read by the worker thread or from the driver
    sending, \* the bytes of the Write under way
    accepted,\* history: the bytes the cyclic buffer accepted, in order
    losses,  \* history: transfers of which bytes were lost
    received,\* history: the packets Recv has returned
    hurt     \* history: packets that lost a byte, or that came too late for a RecvBytes

recvVars == <<pc, need, got, late, ret>>
workerVars == <<port, usb, sending, accepted, losses>>
portVars == <<recvVars, workerVars, received, hurt>>
vars == <<bufVars, portVars>>

Indices == 1..Len(Payloads)
Byte == [sym : Symbols \cup {"h", "m", "c"}, of : Indices]

\* PacketSender::Send, on the device's side: header, payload, hmac, CRC.
Bytes(k) ==
    LET syms == <<"@", "F", "v", "h">> \o Payloads[k] \o <<"m", "c">>
    IN [i \in 1..Len(syms) |-> [sym |-> syms[i], of |-> k]]

Stream[k \in 0..Len(Payloads)] == IF k = 0 THEN <<>> ELSE Stream[k - 1] \o Bytes(k)

\* The device sends no more than the bound of the cyclic buffer.
ASSUME StreamAssumption ==
    Stream[Len(Payloads)] \in Seq(Byte) /\ Len(Stream[Len(Payloads)]) <= MaxStream

TransportInit ==
    /\ Init /\ port \in Ports
    /\ pc = "idle" /\ need = 0 /\ got = <<>> /\ late = FALSE /\ ret = "None"
    /\ usb = Stream[Len(Payloads)] /\ sending = <<>> /\ accepted = <<>>
    /\ losses = 0 /\ received = {} /\ hurt = {}

Sources(bytes) == {bytes[i].of : i \in DOMAIN bytes}
Rest(s, n) == SubSeq(s, n + 1, Len(s))

-----------------------------------------------------------------------------
(* The worker thread, and the line. *)

Lose(bytes) ==
    /\ losses' = IF bytes = <<>> THEN losses ELSE losses + 1
    /\ losses' <= MaxLosses
    /\ hurt' = hurt \cup Sources(bytes)

\* One bulk transfer of n bytes: a full one is taken for an error and dropped, another one is
\* written, of which a buffer that looks full takes nothing.
WorkerTransfer ==
    \E n \in 1..Smaller(Transfer, Len(usb)) :
        /\ port = "android" /\ sending = <<>> /\ usb' = Rest(usb, n)
        /\ IF n = Transfer \/ bufferFull
           THEN Lose(SubSeq(usb, 1, n)) /\ (n = Transfer \/ WriteRefused) /\ UNCHANGED <<bufVars, sending>>
           ELSE WriteEnter(n) /\ sending' = SubSeq(usb, 1, n) /\ UNCHANGED <<losses, hurt>>
        /\ UNCHANGED <<port, recvVars, accepted, received>>

\* Write takes the mutex: what the buffer has no room for is lost.
WorkerWrite ==
    /\ sending # <<>> /\ WriteBody
    /\ accepted' = accepted \o SubSeq(sending, 1, written' - written)
    /\ Lose(Rest(sending, written' - written)) /\ sending' = <<>>
    /\ UNCHANGED <<port, recvVars, usb, received>>

\* The driver of the other ports had no room.
LineLoses ==
    \E n \in 1..Smaller(Transfer, Len(usb)) :
        /\ port # "android" /\ usb' = Rest(usb, n) /\ Lose(SubSeq(usb, 1, n))
        /\ UNCHANGED <<port, recvVars, bufVars, sending, accepted, received>>

-----------------------------------------------------------------------------
(* RecvBytes: the fields of a packet, each asked for in one call. *)

\* Recv ends.
Return(status) == pc' = "idle" /\ need' = 0 /\ got' = <<>> /\ ret' = status

\* RecvBytes(n) for the field.
Ask(field, n) == pc' = field /\ need' = n /\ UNCHANGED ret

\* What the cyclic buffer returns: its bytes by their numbers.
Nothing == [sym |-> "none", of |-> 1]
ByteAt(k) == IF k \in DOMAIN accepted THEN accepted[k] ELSE Nothing

\* AndroidSerial reads the cyclic buffer, the other ports read the driver's bytes.
TakeBytes ==
    \/ port = "android" /\ Read(need) /\ UNCHANGED workerVars
    \/ /\ port # "android"
       /\ \E n \in 1..Smaller(need, Len(usb)) : usb' = Rest(usb, n)
       /\ UNCHANGED <<bufVars, port, sending, accepted, losses>>

Fresh == IF port = "android" THEN [i \in 1..Len(out') |-> ByteAt(out'[i])]
         ELSE SubSeq(usb, 1, Len(usb) - Len(usb'))

Reading == {"sync1", "sync2", "version", "header", "payload", "hmac", "crc"}

\* There is less than RecvBytes waits for.  (When there is nothing RecvBytes asks again, on
\* Android after a sleep.)
RecvPart ==
    /\ pc \in Reading /\ port # "windows"
    /\ TakeBytes /\ Len(Fresh) \in 1..(need - 1)
    /\ need' = need - Len(Fresh) /\ got' = got \o Fresh
    /\ UNCHANGED <<pc, late, ret, received, hurt>>

\* The packet of the bytes read is given up; in WaitSyncBytes that is only the end of one round.
\* The packet whose bytes they are (of several, the last one) was too slow.
GiveUp(bytes, status) ==
    /\ hurt' = IF bytes = <<>> THEN hurt ELSE hurt \cup {bytes[Len(bytes)].of}
    /\ IF pc \in {"sync1", "sync2"}
       THEN pc' = "sync" /\ need' = 0 /\ got' = <<>> /\ UNCHANGED ret
       ELSE Return(status)
    /\ UNCHANGED <<late, received>>

\* One ReadFile of too few bytes ends RecvBytes.
RecvShort ==
    /\ pc \in Reading /\ port = "windows"
    /\ TakeBytes /\ Len(Fresh) < need
    /\ GiveUp(got \o Fresh, "RecvTimeout")

\* The driver reports an error.
RecvError ==
    /\ pc \in Reading /\ port # "android"
    /\ GiveUp(got, "RecvFailed") /\ UNCHANGED <<bufVars, workerVars>>

\* RecvBytes gives up (on Android perhaps after a sleep, without looking at the buffer again),
\* and the bytes it has read are gone.
RecvBytesTimeout ==
    /\ pc \in Reading
    /\ GiveUp(got, "RecvTimeout") /\ UNCHANGED <<bufVars, workerVars>>

-----------------------------------------------------------------------------
(* WaitSyncBytes and Recv. *)

Call ==
    /\ pc = "idle"
    /\ pc' = "sync" /\ need' = 0 /\ got' = <<>> /\ late' = FALSE /\ ret' = "None"
    /\ UNCHANGED <<bufVars, workerVars, received, hurt>>

\* (Variant for the mutant runs: the timer is not looked at.)
SyncTopForEver ==
    /\ pc = "sync" /\ Ask("sync1", 1) /\ got' = <<>>
    /\ UNCHANGED <<late, bufVars, workerVars, received, hurt>>

\* while (!timer->ReachedTimeout())
SyncTop ==
    /\ pc = "sync"
    /\ IF late THEN Return("RecvTimeout") ELSE Ask("sync1", 1) /\ got' = <<>>
    /\ UNCHANGED <<late, bufVars, workerVars, received, hurt>>

\* The RecvBytes under way gets all it asked for.
Complete(field) ==
    /\ pc = field /\ TakeBytes /\ Len(Fresh) = need
    /\ UNCHANGED late

Now == got \o Fresh      \* the packet with the field just read

\* One of the two sync bytes: another byte in its place is dropped.
RecvSync(field, sym, next) ==
    /\ Complete(field)
    /\ IF Fresh[1].sym = sym
       THEN got' = Now /\ Ask(next, 1)
       ELSE got' = <<>> /\ pc' = "sync" /\ need' = 0 /\ UNCHANGED ret
    /\ UNCHANGED <<received, hurt>>

RecvVersion ==
    /\ Complete("version")
    /\ IF Fresh[1].sym = "v" THEN got' = Now /\ Ask("header", 1) ELSE Return("VersionMismatch")
    /\ UNCHANGED <<received, hurt>>

\* payload_size, 16 bits wide: of a byte that is no header it is anything.
Sizes(b) == IF b \in [sym : {"h"}, of : Indices] THEN {Len(Payloads[b.of])} ELSE 0..(4 * MaxPayload)

\* A payload of 0 bytes: LinuxSerial and AndroidSerial refuse to read it, WindowsSerial reads
\* nothing and Recv goes on to the hmac.
EmptyPayload ==
    IF port = "windows" THEN got' = Now /\ Ask("hmac", 1) ELSE Return("RecvFailed")

\* (Variant: the size is not compared with the size of the payload.)
RecvHeaderAnySize ==
    /\ Complete("header")
    /\ \E size \in Sizes(Fresh[1]) :
        IF size = 0 THEN EmptyPayload ELSE got' = Now /\ Ask("payload", size)
    /\ UNCHANGED <<received, hurt>>

RecvHeader ==
    /\ Complete("header")
    /\ \E size \in Sizes(Fresh[1]) :
        IF size > MaxPayload THEN Return("RecvFailed")
        ELSE IF size = 0 THEN EmptyPayload
        ELSE got' = Now /\ Ask("payload", size)
    /\ UNCHANGED <<received, hurt>>

RecvField(field, next) ==
    /\ Complete(field)
    /\ got' = Now /\ Ask(next, 1)
    /\ UNCHANGED <<received, hurt>>

\* The bytes read have the CRC: they are what was sent in the packet of the CRC byte.
CrcMatches(read) ==
    LET crc == read[Len(read)] IN
    /\ crc.sym = "c" /\ Len(read) = Len(Bytes(crc.of))
    /\ \A i \in 1..Len(read) :
        /\ read[i].sym = Bytes(crc.of)[i].sym
        /\ read[i].sym \in {"h", "m"} => read[i].of = crc.of

RecvCrc ==
    /\ Complete("crc")
    /\ IF CrcMatches(Now)
       THEN Return("Ok") /\ received' = received \cup {Now[4].of}
       ELSE Return("CrcError") /\ UNCHANGED received
    /\ UNCHANGED hurt

\* recv_packet_timeout passes while Recv looks for a packet.
Expire ==
    /\ pc \in {"sync", "sync1", "sync2"} /\ ~late
    /\ late' = TRUE
    /\ UNCHANGED <<pc, need, got, ret, bufVars, workerVars, received, hurt>>

Recv ==
    \/ SyncTop \/ RecvSync("sync1", "@", "sync2") \/ RecvSync("sync2", "F", "version")
    \/ RecvVersion \/ RecvHeader
    \/ RecvField("payload", "hmac") \/ RecvField("hmac", "crc") \/ RecvCrc
    \/ RecvPart \/ RecvShort \/ RecvError \/ RecvBytesTimeout

TransportNext == Call \/ Recv \/ Expire \/ WorkerTransfer \/ WorkerWrite \/ LineLoses

\* The thread in Recv runs, every RecvBytes having a timeout, and the clock advances.
TransportSpec == TransportInit /\ [][TransportNext]_vars /\ WF_vars(Recv) /\ WF_vars(Expire)

-----------------------------------------------------------------------------
\* The type invariant.
TransportTypeOK ==
    /\ TypeOK
    /\ port \in Ports /\ pc \in {"idle", "sync"} \cup Reading /\ need \in 0..MaxPayload
    /\ got \in Seq(Byte) /\ late \in BOOLEAN
    /\ ret \in {"None", "Ok", "RecvTimeout", "RecvFailed", "VersionMismatch", "CrcError"}
    /\ usb \in Seq(Byte) /\ sending \in Seq(Byte) /\ writing = Len(sending)
    /\ accepted \in Seq(Byte) /\ Len(accepted) = written
    /\ losses \in 0..MaxLosses /\ received \subseteq Indices /\ hurt \subseteq Indices

\* Every byte of the packet has left the port, and Recv is not reading it.
Passed(k) ==
    /\ \A s \in {usb, sending, got} : k \notin Sources(s)
    /\ \A i \in 1..Count : ByteAt(buffer[Slot(i - 1)]).of # k

\* The bytes of the packets between j and k.
Between(j, k) == Len(Stream[k - 1]) - Len(Stream[j])
Swallowed == MaxPayload + 3      \* a byte taken for the header, payload, hmac, CRC

\* After a lost or late byte the receiver is in step again within the length of one packet:
\* a packet that Recv did not return was hurt itself or begins that soon after one that was.
\* Recv leaves the rest of a packet it refuses in the buffer, and WaitSyncBytes skips it.
\* (TransportAssumption: no payload looks like a header.)
BackInStep ==
    \A k \in Indices :
        Passed(k) /\ k \notin received =>
            \E j \in hurt : j = k \/ (j < k /\ Between(j, k) < Swallowed)

\* Recv returns, however the bytes come.
RecvReturns == pc # "idle" ~> pc = "idle"

=============================================================================
