---------------------------- MODULE UserTransfer ----------------------------
(***************************************************************************)
(* The operations of FaceAuthenticatorImpl.cc that move data by requests    *)
(* and replies: GetUsersFaceprints (with QueryNumberOfUsers), SetUsersFace-  *)
(* prints (with Standby), QueryUserIds, SetDeviceConfig (with QueryDevice-   *)
(* Config), EnrollImage, RemoveUser, RemoveAll, Pair and Unpair.  Each is a  *)
(* series of exchanges, an exchange being a request and its reply; some open *)
(* a session of their own for every exchange, some keep one for many.       *)
(* Pair and Unpair give the device a host key, or none, outside of sessions; *)
(* it opens a session only for the host whose key it has.                   *)
(*                                                                         *)
(* A packet belongs to the running session or is stale.  A reply that comes  *)
(* after its receive gave up is read by the next receive.  The device and    *)
(* the line are external: requests and replies are lost or late, a request   *)
(* for data may be answered by a data packet of another kind, and the device  *)
(* reboots, perhaps without the users that Standby did not put in its flash.  *)
(***************************************************************************)
EXTENDS Integers, Sequences

CONSTANTS
    Secure,     \* TRUE: built with RSID_SECURE
    Ops,        \* the operations the application uses
    Db,         \* the users of the device at first, in its order
    Import,     \* the users SetUsersFaceprints is given
    Removed,    \* the user given to RemoveUser
    Asked,      \* number_of_users given to QueryUserIds
    ChunkSize,  \* chunk_size of QueryUserIds
    Configs,    \* the configurations given to SetDeviceConfig; the device begins with 0
    Chunks,     \* n_chunks of EnrollImage
    MaxSent,    \* bound: requests in flight
    MaxBack,    \* bound: replies in flight
    MaxReboots  \* bound: reboots of the device

KeyOps == {"Pair", "Unpair"}
Removals == {"RemoveUser", "RemoveAll"}
Operations == {"Get", "Set", "Ids", "Config", "Image"} \cup Removals \cup KeyOps

ASSUME TransferAssumption ==
    /\ Secure \in BOOLEAN /\ Ops \subseteq Operations /\ (~Secure => Ops \cap KeyOps = {})
    /\ Db \in Seq(Nat) /\ Import \in Seq(Nat)
    /\ Removed \in Nat /\ Asked \in Nat /\ Configs \subseteq Nat
    /\ ChunkSize \in Nat \ {0} /\ Chunks \in Nat \ {0}
    /\ MaxSent \in Nat \ {0} /\ MaxBack \in Nat \ {0} /\ MaxReboots \in Nat

VARIABLES
    pc,       \* where the application thread is
    op,       \* the operation it runs
    phase,    \* the kind of exchange it is in
    item,     \* i of the loop over users or chunks
    num,      \* num_of_users / number_of_users; of SetDeviceConfig, the configuration
    result,   \* user_features / user_ids: what arrived, 0 where nothing did
    well,     \* all_is_well / all_users_set
    bad,      \* bad_status
    ret,      \* what the operation returned
    synced,   \* the reply Start read belongs to this session
    toDev,    \* host to device
    toHost,   \* device to host
    dev,      \* the device: in the host's session, has its key, users (also in
              \* flash), configuration and image
    reboots,  \* how often it has rebooted
    calm,     \* history: no reboot since the operation was called
    clear     \* history: no key was on its way when Pair or Unpair was called

callVars == <<op, phase, item>>
dataVars == <<num, result, well, bad>>
history == <<calm, clear>>
vars == <<pc, callVars, dataVars, ret, synced, toDev, toHost, dev, reboots, history>>

Phases == {"open", "count", "item", "final"}
Statuses == {"None", "Ok", "Error", "Thrown"}
DataIds == {"count", "features", "set", "ids", "queryConfig", "setConfig", "chunk",
            "refused"}
Ids == DataIds \cup {"start", "reply", "deviceKey", "sealed"}
Clear == {"start", "hostKey", "deviceKey"}     \* not encrypted

Message == [id : DataIds \cup {"start", "standby", "enrollImage", "removeAll", "removeUser",
                                "hostKey", "sealed"}, arg : Nat, stale : BOOLEAN]
Reply == [id : Ids, arg : Seq(Nat), stale : BOOLEAN]

Init ==
    /\ pc = "idle" /\ op = "Get" /\ phase = "open" /\ item = 0
    /\ num = 0 /\ result = <<>> /\ well = TRUE /\ bad = "Ok"
    /\ ret = "None" /\ synced = FALSE
    /\ toDev = <<>> /\ toHost = <<>>
    /\ dev = [fresh |-> FALSE, host |-> 1, users |-> Db, saved |-> Db, config |-> 0,
               image |-> <<>>]
    /\ reboots = 0 /\ calm = TRUE /\ clear = TRUE

-----------------------------------------------------------------------------
(* The course of each operation. *)

\* GetUsersFaceprints and SetUsersFaceprints go through the users in one session.
Opens(o, ph) == ~(o \in {"Get", "Set"} /\ ph = "item")

Goto(ph, i) ==
    /\ phase' = ph /\ item' = i /\ op' = op /\ ret' = ret
    /\ pc' = IF Opens(op, ph) THEN "start" ELSE "send"

Return(status) == pc' = "idle" /\ ret' = status /\ UNCHANGED callVars

\* (Variant for the mutant runs: -1 users.)
IdsFailedMinusOne == Return("Error") /\ num' = -1 /\ UNCHANGED <<result, well, bad>>

\* An error return of QueryUserIds: number_of_users = 0.
IdsFailed == Return("Error") /\ num' = 0 /\ UNCHANGED <<result, well, bad>>

\* The next user of GetUsersFaceprints, or its end.
NextGet(i, w, b) ==
    IF i < num' THEN Goto("item", i) ELSE Return(IF w THEN "Ok" ELSE b)

\* The next user of SetUsersFaceprints, or Standby.
NextSet(i) == IF i < Len(Import) THEN Goto("item", i) ELSE Goto("final", 0)

\* (Variant: a user that failed is forgotten.)
FailedGetForgets(status) ==
    /\ op = "Get" /\ UNCHANGED dataVars
    /\ \/ phase = "open" /\ Return(status)
       \/ phase = "count" /\ NextGet(0, well, bad)
       \/ phase = "item" /\ NextGet(item + 1, well, bad)

\* A session call did not return Ok, or threw.  GetUsersFaceprints: QueryNumberOfUsers sets
\* number_of_users = 0 and its status is not looked at; a failed user is passed over.
FailedGet(status) ==
    /\ op = "Get"
    /\ \/ phase = "open" /\ Return(status) /\ UNCHANGED dataVars
       \/ /\ phase = "count"
          /\ num' = 0 /\ UNCHANGED <<result, well, bad>>
          /\ NextGet(0, well, bad)
       \/ /\ phase = "item"
          /\ well' = FALSE /\ bad' = "Error" /\ UNCHANGED <<num, result>>
          /\ NextGet(item + 1, FALSE, "Error")

\* (Variant: a user that failed is forgotten.)
FailedSetForgets(status) ==
    /\ op = "Set" /\ UNCHANGED dataVars
    /\ \/ phase = "open" /\ Return(status)
       \/ phase = "item" /\ NextSet(item + 1)
       \/ phase = "final" /\ Return("Error")

\* SetUsersFaceprints passes over a failed user; at last a failed Standby is an error.
FailedSet(status) ==
    /\ op = "Set" /\ UNCHANGED <<num, result, bad>>
    /\ \/ phase = "open" /\ Return(status) /\ UNCHANGED well
       \/ phase = "item" /\ well' = FALSE /\ NextSet(item + 1)
       \/ phase = "final" /\ Return("Error") /\ UNCHANGED well

\* (Variant: SetDeviceConfig logs a failed receive as it logs a failed send.)
FailedConfigGoesOn(status) ==
    /\ op = "Config" /\ UNCHANGED dataVars
    /\ IF phase = "count" THEN Goto("final", 0) ELSE Return("Ok")

FailedConfig(status) == op = "Config" /\ Return(status) /\ UNCHANGED dataVars

\* (Variant: a chunk that failed is forgotten.)
FailedImageGoesOn(status) ==
    /\ op = "Image" /\ UNCHANGED dataVars
    /\ IF phase = "final" THEN Return(status)
       ELSE IF item + 1 < Chunks THEN Goto("item", item + 1) ELSE Goto("final", 0)

FailedImage(status) == op = "Image" /\ Return(status) /\ UNCHANGED dataVars

Failed(status) ==
    \/ FailedGet(status) \/ FailedSet(status) \/ FailedConfig(status) \/ FailedImage(status)
    \/ op = "Ids" /\ IdsFailed
    \/ op \in KeyOps \cup Removals /\ Return("Error") /\ UNCHANGED dataVars

\* The first exchange of an operation; SetUsersFaceprints validates its first id later.
FirstPhase(o) ==
    CASE o \in {"Get", "Set"} -> "open"
      [] o = "Config" -> "count"
      [] o \in {"Ids", "Image"} -> "item"
      [] o \in KeyOps \cup Removals -> "final"

\* The application calls the operation.  QueryUserIds refuses 0 users, EnrollImage a bad image.
\* Pair and Unpair open no session.
Enter(o) ==
    /\ pc = "idle"
    /\ op' = o /\ phase' = FirstPhase(o) /\ item' = 0
    /\ num' \in CASE o = "Ids" -> {Asked} [] o = "Config" -> Configs [] OTHER -> {0}
    /\ result' = <<>> /\ well' = TRUE /\ bad' = "Ok"
    /\ IF o = "Ids" /\ Asked = 0 THEN pc' = "idle" /\ ret' = "Error"
       ELSE pc' = (IF o \in KeyOps THEN "send" ELSE "start") /\ ret' = "None"
    /\ calm' = TRUE
    /\ clear' = (o \in KeyOps => /\ \A k \in 1..Len(toDev) : toDev[k].id # "hostKey"
                                /\ \A k \in 1..Len(toHost) : toHost[k].id # "deviceKey")
    /\ UNCHANGED <<synced, toDev, toHost, dev, reboots>>

-----------------------------------------------------------------------------
(* The session calls of one exchange. *)

\* What was sent before this session.  The keys of the secure build are of one session each:
\* of what was encrypted nothing can be read any more.
Stale(s, none) ==
    [i \in 1..Len(s) |-> IF Secure /\ s[i].id \notin Clear
                         THEN [id |-> "sealed", arg |-> none, stale |-> TRUE]
                         ELSE [s[i] EXCEPT !.stale = TRUE]]

\* Start sends; what is in flight now belongs to the past.  It may fail or throw.
StartSend ==
    /\ pc = "start"
    /\ dev' = [dev EXCEPT !.fresh = FALSE]
    /\ toHost' = Stale(toHost, <<>>)
    /\ \/ /\ Len(toDev) < MaxSent
          /\ toDev' = Append(Stale(toDev, 0), [id |-> "start", arg |-> 0, stale |-> FALSE])
          /\ pc' = "startReply"
          /\ UNCHANGED <<callVars, dataVars, ret>>
       \/ \E status \in {"Error", "Thrown"} : Failed(status) /\ toDev' = Stale(toDev, 0)
    /\ synced' = FALSE /\ UNCHANGED <<reboots, history>>

\* Once a session is open: the first request, or on to QueryNumberOfUsers or to the first user.
Opened ==
    IF phase # "open" THEN pc' = "send" /\ UNCHANGED <<callVars, dataVars, ret>>
    ELSE IF op = "Get" THEN Goto("count", 0) /\ UNCHANGED dataVars
    ELSE NextSet(0) /\ UNCHANGED dataVars

\* Start reads a packet: the secure build wants a start reply, the other takes any.
StartReply ==
    /\ pc = "startReply" /\ toHost # <<>>
    /\ toHost' = Tail(toHost)
    /\ synced' = (Secure => Head(toHost).id = "start" /\ ~Head(toHost).stale)
    /\ \/ (Secure => Head(toHost).id = "start") /\ Opened
       \/ Secure /\ Failed("Error")
    /\ UNCHANGED <<toDev, dev, reboots, history>>

StartTimeout ==
    /\ pc = "startReply" /\ Failed("Error")
    /\ UNCHANGED <<synced, toDev, toHost, dev, reboots, history>>

\* The host's key, or the one that stands for none; it is signed first.
KeyRequest == [id |-> "hostKey", arg |-> IF op = "Pair" THEN 1 ELSE 0, stale |-> FALSE]

\* What the exchange asks for.
Request ==
    LET Ask(id, n) == [id |-> id, arg |-> n, stale |-> FALSE] IN
    CASE op = "Get" /\ phase = "count" -> Ask("count", 0)
      [] op = "Get" /\ phase = "item" -> Ask("features", item)
      [] op = "Set" /\ phase = "item" -> Ask("set", Import[item + 1])
      [] op = "Set" /\ phase = "final" -> Ask("standby", 0)
      [] op = "Ids" -> Ask("ids", Len(result))
      [] op = "Config" /\ phase = "count" -> Ask("queryConfig", 0)
      [] op = "Config" /\ phase = "final" -> Ask("setConfig", num)
      [] op = "Image" /\ phase = "item" -> Ask("chunk", item)
      [] op = "Image" /\ phase = "final" -> Ask("enrollImage", 0)
      [] op = "RemoveAll" -> Ask("removeAll", 0)
      [] op = "RemoveUser" -> Ask("removeUser", Removed)
      [] op \in KeyOps -> KeyRequest

\* A call in the loop of GetUsersFaceprints throws: bad_status is what the last call left.
GetThrown ==
    /\ op = "Get" /\ phase = "item"
    /\ well' = FALSE /\ bad' \in {"Ok", "Error"} /\ UNCHANGED <<num, result>>
    /\ NextGet(item + 1, well', bad')

\* SendPacket.  The two configuration exchanges log a failed send and wait for a reply;
\* SetUsersFaceprints returns at a malformed user id.
Send ==
    /\ pc = "send"
    /\ \/ /\ Len(toDev) < MaxSent
          /\ toDev' = Append(toDev, Request) /\ pc' = "recv"
          /\ UNCHANGED <<callVars, dataVars, ret>>
       \/ /\ op # "Config" /\ Failed("Error") /\ UNCHANGED toDev
       \/ /\ op = "Config" /\ pc' = "recv"
          /\ UNCHANGED <<toDev, callVars, dataVars, ret>>
       \/ /\ op = "Set" /\ phase = "item"
          /\ Return("Error") /\ UNCHANGED <<toDev, dataVars>>
       \/ GetThrown /\ UNCHANGED toDev
    /\ UNCHANGED <<synced, toHost, dev, reboots, history>>

RecvTimeout ==
    /\ pc = "recv" /\ Failed("Error")
    /\ UNCHANGED <<synced, toDev, toHost, dev, reboots, history>>

\* Standby, EnrollImage and the removals end with RecvFaPacket, the others use RecvDataPacket.
Wanted == IF phase = "final" /\ op # "Config" THEN {"reply"} ELSE DataIds

\* Without security an old packet may pass the sequence check.
Accepts(p) == p.id # "start" /\ (Secure => synced /\ ~p.stale)

RecvRefused ==
    /\ pc = "recv" /\ toHost # <<>> /\ op \notin KeyOps
    /\ \/ ~Accepts(Head(toHost)) \/ Head(toHost).stale
       \/ Head(toHost).id \notin Wanted
    /\ toHost' = Tail(toHost)
    /\ Failed("Error")
    /\ UNCHANGED <<synced, toDev, dev, reboots, history>>

-----------------------------------------------------------------------------
(* What an operation does with the packet its receive accepted. *)

\* The number of users, or another packet: then it stays 0.
GetCount(p) ==
    /\ op = "Get" /\ phase = "count"
    /\ num' = IF p.id = "count" THEN p.arg[1] ELSE 0
    /\ result' = [k \in 1..num' |-> 0]
    /\ UNCHANGED <<well, bad>>
    /\ NextGet(0, well, bad)

\* The features of a user, whoever's they are; another packet leaves bad_status at Ok.
GetUser(p) ==
    /\ op = "Get" /\ phase = "item"
    /\ IF p.id = "features"
       THEN result' = [result EXCEPT ![item + 1] = p.arg[1]] /\ UNCHANGED <<well, bad>>
       ELSE well' = FALSE /\ bad' = "Ok" /\ UNCHANGED result
    /\ UNCHANGED num
    /\ NextGet(item + 1, well', bad')

SetUser(p) ==
    /\ op = "Set" /\ phase = "item"
    /\ well' = (well /\ p.id = "set") /\ UNCHANGED <<num, result, bad>>
    /\ NextSet(item + 1)

\* Standby: Ok when the device says so and every user was acknowledged.
SetEnd(p) ==
    /\ op = "Set" /\ phase = "final"
    /\ Return(IF well /\ p.arg = <<1>> THEN "Ok" ELSE "Error") /\ UNCHANGED dataVars

Shorter(a, b) == IF a < b THEN a ELSE b

\* (Variant: the ids start over with every chunk.)
IdsChunkOverwrites(p) ==
    /\ op = "Ids" /\ p.id = "ids"
    /\ result' = p.arg /\ UNCHANGED <<well, bad>>
    /\ IF item + Len(p.arg) < num /\ p.arg # <<>>
       THEN Goto("item", item + Len(p.arg)) /\ UNCHANGED num
       ELSE Return("Ok") /\ num' = Len(result')

\* A chunk of ids, cut at number_of_users; an empty one ends the loop.
IdsChunk(p) ==
    /\ op = "Ids"
    /\ \/ p.id # "ids" /\ IdsFailed
       \/ /\ p.id = "ids"
          /\ result' = result \o SubSeq(p.arg, 1, Shorter(Len(p.arg), num - Len(result)))
          /\ UNCHANGED <<well, bad>>
          /\ IF p.arg # <<>> /\ item + Len(p.arg) < num /\ Len(result') < num
             THEN Goto("item", item + Len(p.arg)) /\ UNCHANGED num
             ELSE Return("Ok") /\ num' = Len(result')

\* QueryDeviceConfig, then SetDeviceConfig, whose reply has to echo the request.
ConfigReply(p) ==
    /\ op = "Config" /\ UNCHANGED dataVars
    /\ \/ phase = "count" /\ p.id = "queryConfig" /\ Goto("final", 0)
       \/ phase = "final" /\ p.id = "setConfig" /\ p.arg = <<num>> /\ Return("Ok")
       \/ phase = "count" /\ p.id # "queryConfig" /\ Return("Error")
       \/ phase = "final" /\ ~(p.id = "setConfig" /\ p.arg = <<num>>) /\ Return("Error")

\* Any data packet acknowledges a chunk; the final reply carries the result.
ImageReply(p) ==
    /\ op = "Image" /\ UNCHANGED dataVars
    /\ IF phase = "final" THEN Return(IF p.arg = <<1>> THEN "Ok" ELSE "Error")
       ELSE IF item + 1 < Chunks THEN Goto("item", item + 1) ELSE Goto("final", 0)

RemoveReply(p) ==
    /\ op \in Removals /\ UNCHANGED dataVars
    /\ Return(IF p.arg = <<1>> THEN "Ok" ELSE "Error")

\* (Variant: the id of the reply is not looked at.)
KeyReplyUnlooked(p) == op \in KeyOps /\ UNCHANGED dataVars /\ Return("Ok")

\* The packet is read as it comes: a device's key is the answer, also to an earlier request.
KeyReply(p) ==
    /\ op \in KeyOps /\ UNCHANGED dataVars
    /\ Return(IF p.id = "deviceKey" THEN "Ok" ELSE "Error")

Recv ==
    /\ pc = "recv" /\ toHost # <<>>
    /\ toHost' = Tail(toHost)
    /\ LET p == Head(toHost) IN
       /\ op \in KeyOps \/ (Accepts(p) /\ p.id \in Wanted)
       /\ \/ KeyReply(p) \/ GetCount(p) \/ GetUser(p) \/ SetUser(p) \/ SetEnd(p)
          \/ IdsChunk(p) \/ ConfigReply(p) \/ ImageReply(p) \/ RemoveReply(p)
    /\ UNCHANGED <<synced, toDev, dev, reboots, history>>

-----------------------------------------------------------------------------
(* The device and the line (external). *)

\* The reply is carried or lost; it may still come when nobody waits for it.
Emit(id, arg, fresh) ==
    \/ /\ Len(toHost) < MaxBack
       /\ toHost' = Append(toHost, [id |-> id, arg |-> arg, stale |-> ~fresh])
    \/ UNCHANGED toHost

DeviceStart ==
    /\ toDev # <<>> /\ Head(toDev).id = "start"
    /\ toDev' = Tail(toDev)
    /\ IF Secure /\ dev.host # 1 THEN UNCHANGED <<dev, toHost>>
       ELSE /\ dev' = [dev EXCEPT !.fresh = ~Head(toDev).stale]
            /\ Emit("start", <<>>, ~Head(toDev).stale)
    /\ UNCHANGED <<pc, callVars, dataVars, ret, synced, reboots, history>>

\* A secure device does not carry out a request of another session.
Dropped(m) == m.id \notin {"start", "hostKey"} /\ Secure /\ (m.stale \/ ~dev.fresh)

\* A request is lost on the line, or the device drops it.
DeviceDrop ==
    /\ toDev # <<>>
    /\ toDev' = Tail(toDev)
    /\ UNCHANGED <<pc, callVars, dataVars, ret, synced, toHost, dev, reboots, history>>

Has(u) == \E k \in 1..Len(dev.users) : dev.users[k] = u

\* The users that are left; the device has none twice.
Without(s, u) ==
    IF \E k \in 1..Len(s) : s[k] = u
    THEN LET k == CHOOSE k \in 1..Len(s) : s[k] = u
         IN [i \in 1..(Len(s) - 1) |-> IF i < k THEN s[i] ELSE s[i + 1]]
    ELSE s

\* A request is carried out and answered; Standby saves the users to flash, chunk 0 begins a
\* new image.  Or it is refused, by a data packet of another kind; a chunk is not, since any
\* data packet acknowledges it.
DeviceServe ==
    /\ toDev # <<>> /\ Head(toDev).id # "start" /\ ~Dropped(Head(toDev))
    /\ toDev' = Tail(toDev)
    /\ LET m == Head(toDev)
           Answer(id, arg) == Emit(id, arg, ~m.stale /\ dev.fresh)
       IN \/ m.id = "count" /\ Answer("count", <<Len(dev.users)>>) /\ UNCHANGED dev
          \/ /\ m.id = "features" /\ UNCHANGED dev
             /\ m.arg < Len(dev.users) /\ Answer("features", <<dev.users[m.arg + 1]>>)
          \/ /\ m.id = "features" /\ m.arg >= Len(dev.users) /\ UNCHANGED <<dev, toHost>>
          \/ /\ m.id = "set" /\ Answer("set", <<>>)
             /\ dev' = [dev EXCEPT !.users = IF Has(m.arg) THEN @ ELSE Append(@, m.arg)]
          \/ /\ m.id = "ids" /\ UNCHANGED dev
             /\ Answer("ids", SubSeq(dev.users, m.arg + 1, Shorter(m.arg + ChunkSize, Len(dev.users))))
          \/ m.id = "queryConfig" /\ Answer("queryConfig", <<dev.config>>) /\ UNCHANGED dev
          \/ /\ m.id = "setConfig" /\ Answer("setConfig", <<m.arg>>)
             /\ dev' = [dev EXCEPT !.config = m.arg]
          \/ /\ m.id = "chunk" /\ Answer("chunk", <<>>)
             /\ dev' = [dev EXCEPT !.image = IF m.arg = 0 THEN <<0>> ELSE Append(@, m.arg)]
          \/ m.id = "enrollImage" /\ Answer("reply", <<1>>) /\ UNCHANGED dev
          \/ /\ m.id = "standby" /\ Answer("reply", <<1>>)
             /\ dev' = [dev EXCEPT !.saved = dev.users]
          \/ /\ m.id \in DataIds \ {"chunk", "refused"}
             /\ Answer("refused", <<>>) /\ UNCHANGED dev
          \/ /\ m.id = "removeAll" /\ Answer("reply", <<1>>)
             /\ dev' = [dev EXCEPT !.users = <<>>]
          \/ /\ m.id = "removeUser" /\ Answer("reply", <<1>>)
             /\ dev' = [dev EXCEPT !.users = Without(@, m.arg)]
          \/ /\ m.id = "hostKey" /\ Emit("deviceKey", <<>>, FALSE)
             /\ dev' = [dev EXCEPT !.host = m.arg]
          \/ /\ m.id \in {"standby", "enrollImage", "removeAll", "removeUser"}
             /\ Answer("reply", <<0>>) /\ UNCHANGED dev
    /\ UNCHANGED <<pc, callVars, dataVars, ret, synced, reboots, history>>

\* The device reboots: it is in no session, the image is gone, and it has the users of its
\* flash, which may be those that Standby saved last.
Reboot ==
    /\ reboots < MaxReboots /\ reboots' = reboots + 1
    /\ \E kept \in {dev.saved, dev.users} :
           dev' = [dev EXCEPT !.fresh = FALSE, !.image = <<>>, !.users = kept, !.saved = kept]
    /\ toDev' = <<>>
    /\ calm' = FALSE
    /\ UNCHANGED <<pc, callVars, dataVars, ret, synced, toHost, clear>>

Next ==
    \/ \E o \in Ops : Enter(o)
    \/ StartSend \/ StartReply \/ StartTimeout \/ Send \/ RecvTimeout \/ RecvRefused \/ Recv
    \/ DeviceStart \/ DeviceDrop \/ DeviceServe \/ Reboot

Spec == Init /\ [][Next]_vars

-----------------------------------------------------------------------------
\* The type invariant.
TypeOK ==
    /\ pc \in {"idle", "start", "startReply", "send", "recv"}
    /\ op \in Operations /\ phase \in Phases /\ item \in Nat
    /\ num \in Nat /\ result \in Seq(Nat) /\ well \in BOOLEAN /\ bad \in {"Ok", "Error"}
    /\ ret \in Statuses /\ synced \in BOOLEAN
    /\ toDev \in Seq(Message) /\ toHost \in Seq(Reply)
    /\ dev \in [fresh : BOOLEAN, host : 0..1, users : Seq(Nat), saved : Seq(Nat),
               config : Nat, image : Seq(Nat)]
    /\ reboots \in 0..MaxReboots /\ calm \in BOOLEAN /\ clear \in BOOLEAN

Returned(o) == pc = "idle" /\ op = o /\ ret = "Ok"

\* GetUsersFaceprints, on Ok and without a reboot of the device: it counts no more entries than
\* there are users.  With all_is_well every entry holds the features of the user of that place,
\* although a reply that came too late is read as the reply of the next user.  Without it (the
\* code returns Ok also when the last trouble was a packet of another kind) an entry is
\* missing, or holds the features of a user asked for earlier in this very call.
ExportedInPlace ==
    Secure /\ calm /\ Returned("Get") =>
        /\ num <= Len(dev.users)
        /\ \A k \in 1..num :
               \/ result[k] = dev.users[k]
               \/ ~well /\ (result[k] = 0 \/ \E j \in 1..k : result[k] = dev.users[j])

\* QueryUserIds: on Ok the ids are the first ones of the device, each once, none left out, if
\* the device has not rebooted.
IdsInOrder ==
    Secure /\ calm /\ Returned("Ids") =>
        /\ num = Shorter(Asked, Len(dev.users))
        /\ result = SubSeq(dev.users, 1, num)

\* SetUsersFaceprints: on Ok a device that has not rebooted on the way has every user of the
\* array in its flash.
AllImported ==
    Secure /\ calm /\ Returned("Set") =>
        \A k \in 1..Len(Import) : \E i \in 1..Len(dev.saved) : dev.saved[i] = Import[k]

\* EnrollImage: on success a device that has not rebooted has put every chunk of this image
\* together, in order, however often an earlier upload was broken off.
ImageComplete ==
    Secure /\ Returned("Image") /\ reboots = 0 => dev.image = [k \in 1..Chunks |-> k - 1]

\* SetDeviceConfig: on Ok the device has the configuration, and not the one of an earlier call.
\* Pair and Unpair: on Ok the device has taken the key, unless a key or the answer to one was
\* on its way when they were called; other late packets are not taken for the answer.
SettingsTaken ==
    Secure => /\ Returned("Config") => dev.config = num
              /\ clear /\ Returned("Pair") => dev.host = 1
              /\ clear /\ Returned("Unpair") => dev.host = 0

\* The header of GetUsersFaceprints: the features of each user, Ok on success.
ExportComplete == Secure /\ Returned("Get") => num = Len(dev.users)

=============================================================================
