# RealSenseID host library: TLA+ models, model checking and proofs

This directory verifies the host side of RealSenseID: the library that talks to
a face recognition camera over a serial line, and the two tools that keep state
of their own around it. It holds TLA+ modules translated from the C++ code under
`src/` (paths below are relative to the repository root), TLC configurations
that check them on small instances, and TLAPS proofs about eleven parts: the
packet session, the byte buffer, the receive path on top of it, the
conversations of the authenticator, the transfers of users and settings, the
firmware file, the update engine, the text line it talks over, the update tool,
the preview, and faceprints kept on the host.

The camera's firmware and the serial line are not in the repository. They are
modelled from what the host code relies on (which replies it waits for, which
numbers and checksums it compares) and marked external in `PROJECT.json`.

## 1. The system

| component | source | state it keeps | operations |
|---|---|---|---|
| session layer | `src/src/PacketManager/SecureSession.cc`, `NonSecureSession.cc`, `Timer.cc` | open flag, cancel flag, last sent and last received sequence number, key pair and shared secret, pointer to the port | Start, SendPacket, RecvPacket/RecvFaPacket/RecvDataPacket, Cancel, destructor |
| packet framing | `PacketSender.cc`, `SerialPacket.cc`, `Crc16.cc` | none between calls; the position in the byte stream | Send, Recv, WaitSyncBytes |
| cyclic buffer | `CyclicBuffer.cc` | array, read index, write index, full flag, mutex | Read, Write |
| Android serial port | `AndroidSerial.cc` | cyclic buffer, reader thread, stop flag | SendBytes, RecvBytes, reader loop |
| Linux and Windows ports | `LinuxSerial.cc`, `WindowsSerial.cc` | a handle | SendBytes, RecvBytes |
| face authenticator | `FaceAuthenticatorImpl.cc` | serial port, session, `_cancel_loop` | Connect, Disconnect, Enroll, Authenticate, their loops, faceprint extraction, Cancel |
| user and configuration transfer | the same file | none beyond the session and its keys | SetDeviceConfig, QueryDeviceConfig, QueryUserIds, QueryNumberOfUsers, GetUsersFaceprints, SetUsersFaceprints, EnrollImage, RemoveUser, RemoveAll, Standby, Pair, Unpair |
| device controller | `DeviceControllerImpl.cc` | serial port | Connect, Disconnect, Ping, Reboot, QueryFirmwareVersion, QuerySerialNumber |
| firmware file | `FwUpdate/Utilities.cc` | none | ParseUfifToModules, the block table |
| firmware update engine | `FwUpdate/FwUpdateEngine.cc` | modules of the file, block update list | ParseDlVer, GetBlockUpdateList, BurnModule, BurnModules |
| firmware update line | `FwUpdate/FwUpdaterComm.cc` | 128 KB read buffer with a read and a scan index, reader thread | WriteCmd, WriteBinary, WaitForStr, WaitForIdle, ConsumeScanned |
| firmware updater and tool | `FwUpdater.cc`, `src/tools/rsid-fw-update/main.cc` | what the tool knows of the device, its policy | ExtractFwInformation, IsEncryptionSupported, DecideUpdatePolicy, UpdateModules, the two burnings of the tool |
| preview and capture | `PreviewImpl.cc`, `Capture/*`, `src/wrappers/c/src/rsid_c_preview.cc` | worker thread, canceled and paused flags, callback; in the wrapper one callback object | StartPreview, PausePreview, ResumePreview, StopPreview, create and destroy |
| matcher | `Matcher/Matcher.cc` | none | match scores, the decision to update, the adaptive update |
| command line tool | `src/tools/rsid-cli/main.cc` | in server mode the map of faceprints | enrol, authenticate with a search, delete; a menu over the interface |
| wrappers | `src/wrappers/{c,csharp,android}` | callback objects | forwarding |
| viewer | `src/tools/rsid-viewer` | list of faceprints with a version | Push, Remove, Save, Load |
| rest | `StatusHelper.cc`, `Logging.cc`, `DiscoverDevices.cc`, `src/3rdparty` | - | tables, text, vendored code |

**How they interact.** An application thread calls one operation of the
authenticator at a time. Each operation calls Start on the session, sends a
request, and receives until the device says it is done, calling the client's
callbacks on the way. The session calls PacketSender, which calls the port. Two
other threads matter. Any thread may call `Cancel`, which sets `_cancel_loop`
and the session's `_cancel_required`; the application thread looks at both. On
Android a reader thread moves bytes from the USB endpoint into the cyclic
buffer from which RecvBytes takes them. The device controller and the firmware
updater have ports of their own and talk text instead of packets; the update
tool uses the first to find and ask the device and the second to burn it, with a
restart of the device in between. Each preview has its thread, independent of
the serial line; in the C interface all of them share one callback object. In
server mode the faceprints that an extraction delivers to the callback are
matched there and then against the map on the host.

**What is hard.** A reply that comes after its receive gave up is read by the
next receive. A session begins while packets of the previous one are on the
line. A cancel can come at every moment, and is tested and cleared without a
lock. Bytes are lost, and the receiver must find the next packet in what is
left. An operation of many exchanges fails in the middle. A device that keeps
talking must be stopped by the host's timer. An update is broken off, and later
taken up again with the same or another file, or its device does not come back.
A preview is stopped, paused or destroyed while its thread is in a read or a
callback. A faceprint is replaced by a blend of itself with what was seen, over
and over. `PROJECT.json` lists these as hazards, each at its line, with the
properties that cover it.

**What makes each component correct.**
- Session: packets are accepted once and in the order sent; nothing of another
  session is taken; a cancel is sent before the next receive blocks, and never
  in a later operation.
- Cyclic buffer: a bounded first-in first-out queue, for two threads.
- Receiving: it ends, and after a loss it is in step again soon.
- Conversations: each ends; a failure is told; the callback's results follow
  the device's.
- Transfers: `Ok` means that every user, chunk, setting and key arrived.
- Update: `Ok` means the device has every block of the file, one activation away
  at most; an attempt without outside failure succeeds; a current module is left
  alone.
- Update tool: success is that of every module the user agreed to; the
  operational firmware is on the device before anything else is written; what
  was refused is not touched.
- Preview: only an object that is alive is called; paused means no picture;
  stopping ends.
- Matcher and server mode: vectors stay in range, and near the enrolled face;
  the best match wins; nothing but the winner changes.

## 2. The modules

| module | models | composes / used by |
|---|---|---|
| `Session` | both session classes, the line and the device's session | `MCSession`, `SessionProofs` |
| `ByteQueue` | abstract specification of a byte buffer | refined by `CyclicBuffer` |
| `CyclicBuffer` | `CyclicBuffer.cc`, two threads | instances `ByteQueue`; `TransportProofs` |
| `Transport` | `PacketSender.cc` (Recv, WaitSyncBytes), the three ports | extends `CyclicBuffer`; `MCTransport`, `TransportProofs` |
| `Authenticator` | conversations and loops of `FaceAuthenticatorImpl.cc` | `MCAuthenticator`, `AuthenticatorProofs` |
| `UserTransfer` | transfers of `FaceAuthenticatorImpl.cc` | `MCUserTransfer`, `UserTransferProofs` |
| `FwUpdate` | `FwUpdateEngine.cc`, waits of `FwUpdaterComm.cc` | `MCFwUpdate`, `FwToolProofs` |
| `FwLine` | the reader thread, buffer and waits of `FwUpdaterComm.cc`, called in the order of `FwUpdateEngine.cc` | `MCFwLine`, `FwLineProofs` |
| `FwFile` | what is read from a firmware file, as operators | used by `FwTool`; `FwToolProofs` |
| `DeviceController` | `DeviceControllerImpl.cc`, as operators | used by `FwTool` |
| `FwTool` | `FwUpdater.cc`, `rsid-fw-update/main.cc` | extends `FwUpdate`, `DeviceController`, `FwFile`; `MCFwTool`, `FwToolProofs` |
| `Matcher` | `Matcher.cc`, as operators | used by `HostMode` |
| `HostMode` | server mode of `rsid-cli/main.cc`, the loop of the adaptive update | extends `Matcher`; `MCHostMode`, `HostModeProofs` |
| `Preview` | `PreviewImpl.cc`, `rsid_c_preview.cc` | `MCPreview`, `PreviewProofs` |

`Transport` and `FwTool` are compositions: their steps include the steps of the
module they extend, with the caller's own variables beside them. The other
levels stack by what they abstract: `Session` works with single packets and the
two halves of HandleCancelFlag; `Authenticator` and `UserTransfer` use a session
call as one or two steps and keep of a packet its kind and whether it is stale,
which is what the theorems and runs of `Session` allow (a secure session
accepts nothing of another session; a plain one may).

### Session

`pc` is where the application thread is inside Start, SendPacket or RecvPacket.
`serial` is the session's copy of the port pointer, which Disconnect turns into
`"stale"`. `isOpen`, `cancelReq`, `lastSent` and `lastRecv` are the members of
the class. The constant `Secure` chooses SecureSession or NonSecureSession; an
action that differs between them tests it. Cryptography is reduced to what it
tells apart: a key is the number of its generation, and the HMAC of a packet
verifies when both sides combined the same two generations (`Authentic`).

| action | code |
|---|---|
| `Connect`, `Disconnect` | FaceAuthenticatorImpl::Connect, Disconnect |
| `StartReset`, `StartSend`, `StartRecvPacket`, `StartRecvTimeout` | Start: reset of the members, the key message or start message, its answer |
| `SendPacket` | SendPacketImpl: increments the number, sends |
| `RecvBegin`, `CancelClear`, `CancelSend` | HandleCancelFlag: test, clear, send `face_cancel` |
| `RecvPacket(want)`, `RecvTimeout` | RecvPacketImpl with its checks, and the id checks of RecvFaPacket and RecvDataPacket |
| `EndOperation`, `Destroy` | the caller returns; the destructor |
| `Cancel` | Cancel, from any thread, at any moment |
| `DeviceStart`, `DeviceRequest`, `DeviceEmit`, `LineRepeat` | external |

`emitted`, `lastAcc`, `reply`, `asked`, `cancels`, `owed` and `quiet`
are history variables: no action's guard reads them except `LineRepeat`, which
repeats a member of `emitted`.

### CyclicBuffer and ByteQueue

A byte is its place in the stream that the writer offers, so order, loss and
repetition show. `Read(n)` is one step, since its body runs under the mutex;
Write is two, because `_buffer_full` is tested before the mutex is taken: a
read may come between. `ByteQueue` is what the reader and writer may rely on;
the refinement mapping takes its queue from the array between the two indexes.

### Transport

`port` is the build: `"android"`, `"linux"` or `"windows"`. `usb` is what the
device has sent and nobody has read: on Android the worker thread takes it from
there, elsewhere RecvBytes does. On Android the bytes go through the steps of
`CyclicBuffer` itself: the worker's Write in two steps (`WorkerWrite`), with the
reads of RecvBytes in between. The buffer numbers the bytes it accepts;
`accepted` says which bytes of the stream those were. One `WorkerTransfer` is
one round of the worker: a transfer that fills its array is dropped, and of
another what the buffer has no room for is lost. `LineLoses` loses bytes before
any of that.

`pc` is the field that Recv asks RecvBytes for, `need` how much of it is
missing, `got` the bytes of the packet so far. The ports differ in how RecvBytes
ends: Linux and Android read on until there is enough (`RecvPart`) or the time
is over (`RecvBytesTimeout`), Windows gives up after one short read
(`RecvShort`), and a read may fail (`RecvError`); what had been read is gone.
`late` is the timer of Recv, which only WaitSyncBytes looks at. The fields Recv
reads at once (id, iv and size; hmac; CRC) are one byte each. Which bytes are
right is decided by their values, not by where they came from: a header made of
two packets is a header. The size in a byte that is no header can be anything.

### Authenticator

`pc` follows an operation: Start, its reply, the request, the head of the
receive loop with the session timer, HandleCancelFlag, the receive. `completed`
and `received` are the two flags of the faceprint extractions. `expired` is the
session timer, which may run out at any step. `cancelLoop` is `_cancel_loop`,
`cancelReq` the session's flag; Cancel of another thread sets them in two steps
(`CancelLoop`, `CancelSession`). One `Recv...` action stands for each branch of
the loops over what was received. The device reports in any order and for as
long as it likes, loses replies, and ends when it is told to.

### UserTransfer

Every operation is a series of exchanges. `phase` is the kind of the exchange,
`item` the loop's counter, and `Failed...` is what each operation does when a
session call of the exchange fails: pass over the user, return, or go on.
`result`, `num`, `well` and `bad` are the local variables of the code. The
device answers, answers late (its reply is stale by then), refuses, answers with a
packet of another kind, loses the request, or reboots. A reply is accepted as the
session accepts it. Users that were set are in `dev.users` at once and in
`dev.saved`, the flash, after Standby (`FaceAuthenticator.h:200`): a reboot keeps
either. Standby has a session of its own, so a reboot may come before it. Pair
and Unpair go over the port without a session: the device reads a host key,
replies with its own, and from then on opens a session only for the host whose
key it has. `GetUser` is the reply of the asked kind or of another one,
`GetThrown` the exception; both are remembered in `bad` with the status of the
receive, which was Ok. `calm` is history: the device has not rebooted since the
call; `clear`: no key or answer to one was on its way at the call.

### FwUpdate

A block is `"new"` when it holds what the file holds, and something else
otherwise. The device has for each module its state as `dlver` reports it, its
active blocks and the blocks of an update under way (`scrap`), which survive
`Interrupt` (the host stops), `Restart` (the device stops) and `OtherUpdate`
(another file's update that was broken off). `AskInfo`, `ParseRecord`,
`ParseEnd` are GetBlockUpdateList; `Decide`, `Skip`, `InitModule`, `SendBlock`,
`Sent`, `Verify` and `Activate` are BurnModule. WaitForStr looks at its timer at
the loop's head and again inside, and when it runs out at the head it returns
without its text instead of throwing: the report is then cut (`Truncated`), or an
activation was not awaited. The dlact of the last module is sent after the reader
thread was stopped, and nobody waits for what becomes of it (`Finish`): it is
carried out, or the module is validated and the device does not restart, or the
command is lost or refused, and UpdateModules returns Ok in each case. So what Ok
promises is that the device has the file's blocks (`Stored`), in the module's
update or active.

### FwLine

The level below: what the waits of `FwUpdate` do with the buffer. `Calls` are the
engine's calls in the parts it is written in: opening the connection, looking at
a module, opening it for burning, a block, the verification, the activation, and
leaving with the last one. `part` and `step` say which of them runs and `pc` the
place in it; `LookAtModule`, `OpenModule`, `SendBlock`, `VerifyModule`,
`ActivateModule` and `Leave` are what BurnModule and its callers do after a part.
A text that is looked for is one symbol: "dlRet" stands for `dl ret=`, "dlinfoEnd"
for `dlinfo end`, and so on. A cell of `buffer` holds such a text, with the call
it answers, or a terminator, or memory nobody has written, in which a search may
find anything. `readIndex`, `scanIndex` and `stop` are the fields the two threads
share; `scanFrom` is the index that WaitForStr loads once. Storing a text, raising
the index and storing the terminator are three steps of the reader, setting the
two indexes back two, and ConsumeScanned two of the updating thread. `Sample` and
`Slept` are the two readings of WaitForIdle: it returns whenever the index stood
still between them, so also before an answer that is late. WaitForStr looks at
its timer at the head of its loop, where the wait ends in silence when the time
is over (`WaitEnds`), and after a search, where it throws (`WaitThrows`). The
answers are what the engine looks for; the device may leave those in `Mute`
without one. `asked` counts what the device was asked, and `doubt` is history: a
wait ended in silence, a search ran into unwritten memory, or the indexes were set
back.

### FwFile, DeviceController and FwTool

`FwFile` says when a file can be read (`ExtractFwInformation`) and which blocks a
module is cut into (`BlockTable`). `DeviceController` gives for each operation
the set of what it may return; `"crash"` among them is the use of a port that
Connect did not open.

`FwTool` is main of the update tool. `step` is how far it is and how it ended.
`CheckFile` reads the file and compares encryptions, `ApplyPolicy` decides
between one burning and two, `Refuse` and `Approve` are the user's answers,
which make `names` out of the modules. `Burnt` is what follows the first
burning; `Redetect` is one round of RedetectDevice, `GiveUp` its end without a
device, and `RestBurnt` follows the second burning. While a burning runs, the
steps are those of `FwUpdate`, the interruptions by the host and the device
among them. A tool that ended may be run again over what it left behind.

### Matcher and HostMode

A vector is a function from features to integers. `Matcher` has the score of two
vectors in 32-bit arithmetic (the product is kept modulo 2^32 and the shifts
depend on the lengths of the norms), the thresholds, the match of a probe with
an entry, the decision to update, and the blend of 30 parts to one. `HostMode`
is server mode: `db` is the map of faceprints; `SearchUser` matches the probe
with one entry; `LimitTurn`, `LimitFails` and `LimitEnds` are the loop of
LimitAdaptiveVector, which blends until the adaptive vector scores as identical
with the enrolled one, or gives up; `ApplyUpdate` replaces the winner's entry.

### Preview

One thread of the application calls the C interface (`call`), and each preview
has a worker (`worker`): it opens the camera, reads, looks at the flags and
calls the callback object. A call is as many steps as it has looks at shared
state: StartPreview stores the callback and clears the flags before it finds out
whether the thread is joinable; StopPreview sets the flag and then waits for the
thread. `object` is the one object of the wrapper that is alive; `using` the one
the worker is in. `overlapped` records that the wrapper replaced or freed the
object while a worker ran, which the code allows; after that nothing is claimed
of who calls what.

## 3. The runs

| run | what it checks and shows |
|---|---|
| `SessionSecure` | `TypeOK`; `AcceptedInSession`: a packet is accepted only when Start took the device's answer to this very Start, although it takes late ones too; `AcceptedInOrder`: no packet is accepted twice or out of order, although the line loses, delays and repeats |
| `SessionPlain` | `QuietLineIsFresh`: without encryption, an operation that began on a silent line takes only its own packets; `CancelInv`, `CancelBeforeNextRecv`: no request for a cancel is lost after Start, and none reaches a later operation |
| `Transport` | `TransportTypeOK`; `ImplementsQueue`: the cyclic buffer between its two threads is a bounded queue; `BackInStep`: a packet that was not returned lost bytes or was late itself, or begins within the bytes Recv may have read by mistake after such a one; `RecvReturns`: every Recv ends |
| `AuthenticatorSafe` | `TypeOK`; `ErrorIsTold`; `FaceprintsAreExpected`: while nothing is lost the two extraction flags follow the device from face to face |
| `AuthenticatorLoop` | `OperationEnds` and `LoopStops`, under fairness |
| `UserTransfer` | `ExportedInPlace`, `IdsInOrder`, `AllImported`, `ImageComplete`, `SettingsTaken`: what Ok means for each transfer, whatever the device refuses, answers late, answers with another packet or forgets |
| `UserTransferExport` | violation: Ok of an export that exported nobody |
| `FwTool` | `ToolTypeOK`; of each burning `CleanAttemptSucceeds` and `NoNeedlessBurn`; of the tool `SuccessIsStored`: success means that the device has every block the user agreed to; `OpfwIsFirst`: with OPFW_FIRST nothing else is written before it has those of OPFW; `RefusedIsKept` |
| `FwLine` | `LineTypeOK`: neither thread leaves the buffer; `AnswerIsOwn`: what a parser finds answers the call before it, and a report that was waited for is whole; `CallsEnd`: a burning and its reader thread end, or a malformed report holds the parser, under fairness |
| `FwUpdateIgnored` | violation: a malformed record is not ignored but tried for ever |
| `HostMode` | `HostTypeOK`; `VectorsInRange` and `AdaptiveNearEnrolled`: no sequence of authentications walks an entry out of range or away from the enrolled face; `WinnerIsBest`; `ScoresAreSound`: the 32-bit score against what a score must be; `AuthenticationKeepsEnrolled` |
| `Preview` | `PreviewTypeOK`; `UsedCallbackIsAlive`; `PausedImageNotShown`; `StopReturns`, under fairness |

The two violations are listed under `findings` with the text they contradict.

### Bounds, and why they are enough

- **Session.** Two sessions (a stale packet needs a session before), three
  packets of the device (two in order and one to replace them), two packets on
  the line (one to overtake), one request of the host, sequence numbers modulo 8
  with a window of 2 (both its edges are reached). The secure run has no Cancel:
  cancel packets do not meet the order of what is accepted, and the theorem
  covers them. The plain run has two Cancels: one before and one inside a
  HandleCancelFlag.
- **Transport.** Three packets, a long one that can swallow others and two short
  ones, with sync bytes in their payloads; payloads of up to four bytes; a
  buffer of three, less than a packet, so that its indexes go around several
  times and it fills up; transfers of up to four, of which four is dropped; one
  loss, on the line, in the worker thread or for want of room. All three ports.
  The bound of `BackInStep` is a byte taken for the header, the longest payload,
  the hmac and the CRC. No payload contains sync bytes followed by the version
  (`TransportAssumption`, which `BackInStep` and its theorem need: behind such
  bytes the receiver may be misled again and again); in the code that is a matter
  of chance, since nothing escapes them. A header made of two packets may have a
  size of 0: Linux and Android refuse to read 0 bytes, Windows reads them and goes
  on to the hmac (`EmptyPayload`).
- **Authenticator.** Two messages towards the device, one packet towards the
  host. Operations repeat without bound, so a packet of one operation meets the
  next. The safety run is the secure build with all four operations; the
  liveness run the plain build with Authenticate and its loop.
- **UserTransfer.** Three users, the last of which may be removed, so that one
  list has two lengths; an import that names it twice, so that it is new and
  known; three asked for in chunks of one; two chunks of a picture; two
  configurations (a late confirmation of the other one exists); two requests in
  flight (a late one and the own), and one reply; one reboot. A chunk of more
  ids than one is covered by the theorem only. A packet of another kind stands
  for a refusal; where the code waits for a confirmation as a data packet (the
  chunks of a picture), the device is taken not to refuse with one of these.
- **FwUpdate, FwTool.** Two modules of two blocks: the first of several and the
  last take different branches in BurnModule; two blocks make every partial
  update. The device holds another version or one with more blocks. Versions
  below, at and above the one that forces OPFW first. Five files, two of them
  usable, with the two encryptions. Another tool's update comes between two runs
  of the tool or while the device is searched for. `LoopAssumption` of `MCFwTool`
  compares the block table with the code's loop for every size of up to five
  blocks.
- **FwLine.** Two modules: the first is burnt with one block or none, or skipped,
  and the second, the last, is up to date. So each part of the calls follows each
  that it can follow, but for a block after a block and the end after a
  verification. A buffer of 14 texts runs
  full during the burning of the first. The device may leave a block without an
  answer; any number of texts are late. The proofs are for any modules, blocks,
  buffer and silences.
- **HostMode.** Vectors of two features, as an angle and a norm are all that the
  scores tell apart; six faces: 45, 60 and 66 degrees apart, one of low norm,
  one out of range and of another version, of both types, with and without mask.
  Two users, three commands; the same face again does not count, up to
  sixteen times, enough for a blend that nothing limits to leave the enrolled
  face.
- **Preview.** Two previews, which share the object; three starts: a start again,
  a start of the other, and a start after a stop.

`CHECK_DEADLOCK FALSE` stands only where the bounds stop the system: in the
session runs there are no more sessions.

### Fairness

- `Transport`: the thread in Recv runs, as every RecvBytes has a timeout, and
  the clock advances; nothing of the worker thread.
- `FwUpdate` (its own run): the updating thread runs, since every wait it makes
  has a timeout.
- `FwLine`: both threads run, RecvBytes returns what is there or times out, and a
  wait that looks at its timer again and again finds the time over at last: this is
  strong fairness of `Expire`, as the timer is only looked at in two places of the
  loop and clocks advance. Nothing makes the line fail. WaitForIdle has no timeout of
  its own: a device that never stops talking would hold it for ever, and the
  device of the model only answers. A report with a malformed record is parsed for
  ever, which is the finding of `FwUpdateIgnored`; `CallsEnd` names that end
  (`looping`) beside the other.
- `Preview`: the workers run, a read from the camera waits for a bounded time,
  and the application's callback returns; a call that is under way proceeds.
  Nothing is assumed of what the application calls.
- `Authenticator`: the application thread runs; a call of Cancel in another
  thread completes; the session timer runs out (clocks advance); and the device
  reads what it was sent and ends an operation it was told to end. Nothing is
  assumed of the device's reports: a device that reports for ever is one of the
  behaviours.

The timer of `FwLine` is the only strong fairness. The other modules have safety properties only and
assume nothing.

## 4. The proofs

The proof modules are checked by TLAPS for every value of the constants that
satisfies the named assumptions (`SessionAssumption`, `BufferAssumption` with
`TransportAssumption` and `StreamAssumption`, `FileAssumption`,
`UpdateAssumption` with `ToolAssumption`, `LineAssumption`, `StartsAssumption`, `UsersAssumption`
with `FeaturesAssumption`, `SamplesAssumption` and `BoundAssumption`): any window
and width of the sequence numbers, any number of sessions, packets, cancels,
modules, blocks, users and previews, any size of buffers, requests and files, and
up to 256 features, which the matcher asserts of its vectors (`Matcher.cc:266`).
TLC evaluates each of them on its instances.

**Session.**
- `TypeCorrect`: `Spec => []TypeOK`, one step per action; the history variables
  are part of it.
- `CancelAccounted`: `CancelInv` is inductive by itself. Each Cancel is in the
  flag, on its way in CancelSend, or was cleared by the next Start. It is needed
  because `NoStaleCancel` (cancels sent are at most those asked for) says
  nothing of a request in the flag. `NoStaleCancelHolds` is its third part;
  `CancelBeforeNextRecvHolds` follows from the second on the only two steps that
  enter a receive.
- `Ordered`: `OrderInv`, five parts, in this order of dependence: messages reach
  the device in the order of the sessions (`ToDevOrder`); what the line delivers
  was emitted (`ToHostEmitted`); an emitted packet is never ahead of the device
  (`EmittedBefore`); an older session, or a smaller number under one key, means
  emitted earlier (`EmittedInOrder`); the last accepted packet is one of those,
  and its number is `lastRecv` while its session lasts (`AcceptedKnown`).
- `AcceptedInOrderHolds`: an accepting step takes a packet with the session's
  keys and a larger number; by `EmittedInOrder` it was emitted later than the
  last accepted one.
- `AcceptedInSessionHolds`: `KeyInv` says that every key on the line, and the one
  Start took, was issued (`Issued`): the packets the device sends under that key
  are those of its session. An accepted packet has the key Start took and the
  host's session number, so the key was issued for this session. It is not a guard
  of Start, which takes any authentic key.
- `QuietLineIsFreshHolds`: `QuietInv` says what a silent line is for each place of
  the host's code: before StartRecv nothing but the start packet or its answer is
  on it (`Silent`, `Answering`); afterwards everything on it is of the running
  session and of the device's same session (`OwnLine`, `Open`), so whatever the
  host takes is of this session. It is needed because a plain session checks
  nothing of the kind when it takes a packet.

**Cyclic buffer.**
- `BufferCorrect`: the invariant `BufInv` says that the bytes between the
  indexes are the consecutive numbers `taken + 1 .. written`, that equal indexes
  with the flag mean a full buffer, and that a Write between its test and its
  body saw a buffer that a Read can only have emptied further.
- `BufferTypeCorrect`, `UnreadStaysIntact` and `ReadsInOrderHolds` follow.
- `BufferImplementsQueue`: `Spec => ImplementsQueue`, with one lemma for the
  bytes a Read takes off the queue and one for those a Write puts on it.

**Transport.**
- `TransportUsesBuffer`: `TransportSpec => Spec` of `CyclicBuffer`. The two
  threads use the buffer only as its specification allows: RecvBytes asks for a
  number of bytes between one and the largest request (`RecvAsks`), and the
  worker offers no more bytes than the stream has (`StreamFits`). Each step is
  one of the buffer's or leaves it as it is.
- `TransportKeepsUnread` and `TransportImplementsQueue` follow from the buffer's
  theorems: the receive path may take the buffer for a queue.
- `TransportTypeCorrect`: in Recv the number of bytes that is still missing is
  within the request, what was read is part of the stream, and what is scanned
  for, the header and the payload stay within the packet (`RecvKnown`,
  `LineKnown`, `PacketsKnown`).
- `BackInStepHolds`: whatever is lost and however late the bytes are, for any
  packets, ports, sizes and transfers, the receiver is in step again within the
  length of one packet. The invariant `StepInv` has a function `a` from the bytes
  that have arrived, those Recv holds and those that wait, to the places in the
  stream they were sent at. It grows, and skips only bytes of hurt packets
  (`Traced`). Every other packet that was not returned has its first byte still to
  come, or Recv is in step with it, or it begins close behind a hurt one
  (`Accounted`). What must be shown is that Recv never passes by the beginning of a
  packet unless a hurt one misled it: bytes that look like a header are one
  (`HeaderIs`, the only use of the assumption on the payloads), or are mixed of two
  packets, of which the first is hurt; and what Recv then reads by mistake is no
  longer than a packet (`BehindSync`, `BehindHeader`). One lemma for each way the
  bytes move, arriving, being taken and being let go of, and one for each step.
  Where packets begin is defined by recursion over them. In place of an induction
  theorem, which would take an operator, the lemmas about it take the least
  counterexample, which exists because the order of the naturals is well founded
  (`LeastExists`); `StreamDef` shows that way that the recursion is well defined.

**Conversations.**
- `AuthInvariant`: `AuthInv` is the types, `ErrorIsTold`, and that a loop sleeps
  only after Ok. It is inductive because every way out of an operation passes
  through one of two returns, and each of them has told the callback before.
  `AuthTypeCorrect` and `ErrorIsToldHolds` are parts of it, for both builds.
- `FaceprintsAreExpectedHolds` needs `FlowInv`, which holds while nothing is lost:
  a session opens on an idle device and an empty line (`Opening`); the request
  then is the first message, and a busy device works on the operation that was
  asked (`Asked`); faceprints on the line, or still owed, come where the flags,
  moved on by the packets before them, will want them (`Announced`); an
  enrollment has them once (`EnrolledOnce`).

**Transfers.** `TransferInvariant` has three parts. `TransferInv`, for both builds, is
the types, with the exchanges each operation has and the loop's counter within
the array it fills (`PhaseKnown`), and the sizes a reply is taken to have
(`Shaped`). `SecureInv`, for the secure build, is why a reply can be believed:
- while Start waits, nothing of this session is on the line but the start packet
  or the answer (`Starting`); nobody but the running operation asked anything in
  this session (`OwnRequests`);
- as long as no exchange of the session failed, its request or its reply is the
  one fresh packet there is, and the reply says what the device has (`Flow` with
  `Answers`);
- so what was collected so far is right: the users exported (`GetKnown`), the ids
  of the chunks (`IdsKnown`), the users imported (`SetKnown`), the chunks the
  device has (`ImageKnown`), the configuration (`ConfigKnown`).

`PairKnown` is of Pair and Unpair, which have no session: when no key was on its
way at the call, there is one at most, the own, and an answer is the one to it.

The properties say something of the end of an operation only; that a late reply
cannot have been taken for another exchange's on the way is what `Flow` adds, and
it must count packets: a second fresh reply would break it.
`TypeCorrect`, `ExportedInPlaceHolds`, `IdsInOrderHolds`, `AllImportedHolds`,
`ImageCompleteHolds` and `SettingsTakenHolds` follow from it.

**Firmware file.**
- `BlocksCoverModule`: for every size, the blocks of the table are sent from the
  module's start to its end without a gap or an overlap, none is empty or longer
  than a block, and none reaches past the aligned buffer. It rests on lemmas
  about rounding up, of products and remainders only.

**Firmware update.** `UpdateInvariant` is inductive; its parts, in this order:
the host's variables (`HostKnown`) and the device's (`DeviceKnown`); in which
place of the code the module's state is which (`PhaseKnown`); the records read so
far are what the device has, and a block is left out only for its record
(`ParseKnown`); so after the report the list has every block that differs
(`ReportKnown`), and what is decided fits (`DecisionKnown`); while blocks are
sent, those no longer on the list are there (`SentKnown`). These four are of
attempts without a cause outside. Of every attempt: whatever report was read, cut
or damaged, was one of the module's blocks, so that a module nothing is to be sent
of any more is stored (`StoredKnown`); those before this one are (`DoneKnown`); an
error without a cause outside is impossible (`ErrorKnown`). None of the properties is
inductive without them: that the last block makes the module whole depends on
what the report said before the first was sent.
- `CleanAttemptSucceedsHolds` is `ErrorKnown`; `NoNeedlessBurnHolds` is in
  `DecisionKnown`; `StoredWhenOkHolds` follows from the step that ends with the
  last module, by `StoredStep`, in each of the three ends of `Finish`.

**Firmware update line.** Three invariants, each on top of the one before.
- `LineInv`: types, where the reader thread writes next (`ReaderKnown`), and which
  call it is that is at each place of the code (`CallKnown`). Both threads write both
  indexes; what keeps them inside is that the reader checks for room at the head of
  its loop and writes at most one text and one terminator before it is there again.
  `LineTypeCorrect` is its first part.
- `MemoryKnown`, until there is doubt: up to the texts stored the buffer holds texts
  of the device, behind them only terminators and unwritten memory, and the scan
  index is not ahead of the read index, also between the two halves of
  ConsumeScanned.
- `AnswersKnown`, until there is doubt: the texts said so far are a stream (`At`), of
  which the buffer holds the first and the line the rest. From the scan index on it
  holds no text a parser looks for but the end of the answer to the last question
  (`Own`), with one exception, which is what makes the proof long: ConsumeScanned may
  load the read index between the storing of the last text and the raising of the
  index, so that this text stays at the scan index (`Old`). It is never the one
  that is looked for next, and before it could be looked for again another text was
  found behind it (`Passed`), or the awaited one, after which the device has nothing
  more to say (`Arrived`).
- `AnswerIsOwnHolds` follows by `ParserSees`.

**Update tool.** `ToolInvariant` is `UpdateInv` and two parts: which modules a
burning was given (`BurningKnown`), and what the device stores at the end of the
first burning and through the second (`ProgressKnown`). That it stays needs a fact
of `FwUpdate` alone (`StoredStays`): a burning touches only the module it is at, a
restart makes a stored update active or leaves it, and another program's
update keeps the active blocks.
- `SuccessIsStoredHolds`, `OpfwIsFirstHolds`, `RefusedIsKeptHolds`; and
  `CleanBurningSucceeds`, `CurrentIsNotBurnt` carry those of the engine over to
  the burnings the tool makes.
- `ToolTypeCorrect` (`ToolTypeOK`), with `BurningTyped` and `MainTyped` beside the
  invariant. What the tool knows of a device comes out of its text, which may be
  cut anywhere: a line found is one of the text or what a cut left of one
  (`QueryFinds`), so a version is the device's own or unknown (`VersionIs`,
  `MetadataFound`).

**Preview.**
- `PreviewInvariant`: besides the types (`PreviewTypeCorrect`) that a worker runs
  only for a preview that exists, that a starting preview has no worker, that the
  object called is alive, and that an image from after a pause is only found in a
  worker whose preview is paused. `UsedCallbackIsAliveHolds` and
  `PausedImageNotShownHolds` are parts of it.

**Server mode.**
- `HostInvariant`: entries are well formed, and in range when enrolled in range;
  what the search and the loop of the adaptive update hold is so too, and the
  winner's new entry keeps the enrolled vector as it may. The one arithmetic
  lemma is `BlendInRange`: a blend of two features in range is in range, although
  the code rounds, because a weighted average lies between the two.
- `VectorsInRangeHolds`, `AuthenticationKeepsEnrolledHolds`: neither depends on what
  the score computes.
- `ScoresAreSoundHolds`: for 256 features in range the 32-bit score is what a score
  must be, where the run of TLC has vectors of two features. The argument:
  a sum over the features is unfolded element by element (`SumDef`,
  `PickedInduction`), which bounds the correlation by the norms and by its own 28
  bits (`DotBounds`), so that no shift is negative or leaves 32 bits (`MsbGrows`,
  `ShiftFits`); the correlation also satisfies the inequality of Cauchy and Schwarz
  (`CauchyStep`, `DotCauchy`), so that the product of the two quotients is at most
  its scale (`DivideMost`, `QuotientsMost`), and shifted back at most 4096
  (`ShiftsBack`, `BackAtMost`). A vector of a norm of at least 17 bits has two exact
  quotients (`MsbSeventeen`, `DivideSelf`), whose product is 4096 (`UnitSquared`);
  with fewer both are 2^16 and the product is 0 in 32 bits (`ScoreSelfLost`).
  The recursion of `GetMsb` and of the sums is shown to be well defined by least
  counterexamples (`LeastExists`), since the induction theorems of the library
  cannot be used.
- `SearchInvariant` adds what the score decides: an adaptive vector that may be
  stored was compared with the enrolled one last (`NearKnown`, `LimitNear`), and
  the winner is the best of the users looked at, who come before the others
  (`BestKnown`). `AdaptiveNearEnrolledHolds`, `WinnerIsBestHolds` and
  `HostTypeCorrect` follow. Of the score they need that it is a number.

**Out of the prover's reach**, and left to TLC: the liveness properties
(`OperationEnds`, `LoopStops`, `RecvReturns`, `StopReturns`, `CallsEnd`,
`AttemptEnds`). Every invariant and action property of the passing runs is a
theorem.

## 5. What is not modelled

- Encryption, keys and the arithmetic of the CRC: a CRC that matches means the
  bytes were sent like that, an HMAC that matches that both sides had the same
  keys. Bytes that arrive damaged are those of a packet `Session` drops;
  `Transport` loses bytes and does not change them.
- SendBytes of the ports and the host's own Send: system calls in a row; the
  opening and closing of a port, and the end of the Android worker thread.
- The opening of the port by the firmware line, and its chunks of binary data: a
  chunk that fails is a write that fails.
- The conversion and the decoding of pictures in the capture classes.
- Cancel from another thread during a transfer.
- The menu of the command line tool but for server mode, the C, C# and Android
  wrappers but for the preview, and the viewer with its database: forwarding,
  user interface, and files in the form of a platform's serializer.
- Device discovery, status tables, logging: text and system calls.
- Use of an object after its end. The session keeps a pointer to a port that
  Disconnect destroyed (`serial = "stale"`), and the model stops there (`Thrown`
  or a failed send) instead of saying what such a use does; a crash of the
  update tool is one of its ends.

**Noticed while modelling**, where no text of the repository says what should
happen, so that there is no property to check:
- An operation whose timer ran out tells its callback a failure, and may
  afterwards tell it the device's late success (`FaceAuthenticatorImpl.cc:253`).
- The timeout of an operation cancels its loop too, as it calls the same Cancel
  as the user (`FaceAuthenticatorImpl.cc:478`).
- The update tool reports success when the device does not come back after the
  first of two burnings (`rsid-fw-update/main.cc:461`).
- QueryDeviceMetadata of the tool ignores that Connect failed, and the query
  then uses a port that is not there (`rsid-fw-update/main.cc:190`).
- A wait for a text can end without it and without an error
  (`FwUpdaterComm.cc:211`).
- "Firmware update finished successfully" (`rsid-fw-update/main.cc:474`) is said
  without knowing that the last dlact arrived: it is sent when the reader thread
  is stopped (`FwUpdateEngine.cc:287`, `:370`). With OPFW_FIRST the old firmware
  may still run when the rest is written: IsDeviceAlive only pings
  (`rsid-fw-update/main.cc:209`).
- In the build without encryption Start takes any packet for the device's answer:
  it logs an error and returns Ok (`NonSecureSession.cc:56`).
- In the secure build Start takes the late answer to an earlier Start for its own
  and returns Ok (`SecureSession.cc:96`). The device then has another session and
  another key, and every receive of the operation fails (`AcceptedInSession`).
- GetUsersFaceprints sets what it will return to the status of the receive when a
  packet is of another kind or an exception is caught
  (`FaceAuthenticatorImpl.cc:1538`, `:1546`): that is Ok, so when this was the last
  trouble Ok is returned with an entry missing or misplaced. It is a second way to
  the finding of `UserTransferExport`.
- SetUsersFaceprints returns Ok when the device rebooted after the last user and
  before Standby, which opens a session of its own: the users that were not saved
  are lost (`FaceAuthenticator.h:200`). `AllImported` is for devices that do not
  reboot on the way.
- Pair and Unpair take the late answer to an earlier key for their own
  (`SecureSession.cc:176`): Ok may come from a device that has another key.
- Two of the faceprint extraction's returns tell the callback nothing
  (`FaceAuthenticatorImpl.cc:1141`, `:1305`); `ErrorIsTold` is of Enroll and
  Authenticate.
- MatchTwoVectors is said to give 4096 for equal vectors whose features and length
  are in range (`Matcher.cc:776`). For a norm below 65536 its product is 2^32,
  which is 0 in 32 bits, and so is the score. `ScoresAreSound`
  states both sides.
- The buffer of the firmware line is not initialised and gets its terminator
  behind a text (`FwUpdaterComm.cc:92`): before the device has said anything a
  wait searches memory that nobody wrote (`Junk` in `FwLine`).
- When the reader thread sets its indexes back, a wait that is under way goes on
  searching from the old index (`FwUpdaterComm.cc:209`); it takes 128 KB of text
  in one connection, and a debug build asserts there.
- Starting a preview that runs, or one while another runs, frees the callback
  object in use (`rsid_c_preview.cc:129`).

## 6. The plan

Done: the session, the cyclic buffer with its abstract queue, the receive path
over the buffer's own steps, conversations, transfers with pairing, the firmware
file, engine, line and tool, the preview, the matcher and server mode; proofs for
all of these.

Left, in this order:
1. `FwLine` as the implementation of the waits of `FwUpdate`.
2. `Transport` with damaged bytes, and the end of the worker thread.
3. Cancel from another thread in `UserTransfer`.
4. The viewer's database: save, load and a change of version.
