------------------------ MODULE UserTransferProofs ------------------------
(***************************************************************************)
(* Proofs about the transfers of users, pictures, settings and keys, for    *)
(* any users, sizes and line.                                               *)
(***************************************************************************)
EXTENDS UserTransfer, TLAPS, SequenceTheorems

-----------------------------------------------------------------------------
(* What is on the line. *)

AllStale(s) == \A i \in 1..Len(s) : s[i].stale

\* The one packet of this session is m.
HasOnly(s, m) ==
    ~m.stale /\ \E k \in 1..Len(s) : s[k] = m /\ \A j \in 1..Len(s) : j # k => s[j].stale

FreshIn(s, ids) == \A i \in 1..Len(s) : s[i].stale \/ s[i].id \in ids

Quiet == AllStale(toDev) /\ AllStale(toHost)

-----------------------------------------------------------------------------
(* The inductive invariant. *)

\* Which exchanges an operation has, and where they go on in the same session.
PhaseKnown ==
    /\ op = "Get" => phase \in {"open", "count", "item"}
    /\ op = "Set" => phase \in {"open", "item", "final"}
    /\ op = "Config" => phase \in {"count", "final"}
    /\ op = "Image" => phase \in {"item", "final"}
    /\ op = "Ids" => phase = "item"
    /\ op \in KeyOps \cup Removals => phase = "final"
    /\ pc \in {"start", "startReply"} => Opens(op, phase) /\ op \notin KeyOps
    /\ pc \in {"send", "recv"} => phase # "open"
    /\ pc # "idle" /\ phase = "item" =>
         /\ op = "Get" => Len(result) = num /\ item < num
         /\ op = "Set" => item < Len(Import)
         /\ op = "Image" => item < Chunks
         /\ op = "Ids" => num = Asked /\ Len(result) = item /\ item < num
    /\ ~well => op = "Set" \/ (op = "Get" /\ phase = "item")

\* The keys on the way are the host's and the one for none; a number and the features of a user
\* are one value.
Keyed(s) == \A i \in 1..Len(s) : s[i].id = "hostKey" => s[i].arg \in 0..1
Shaped(s) == \A i \in 1..Len(s) : s[i].id \in {"count", "features"} => Len(s[i].arg) = 1

CallOK ==
    /\ pc \in {"idle", "start", "startReply", "send", "recv"}
    /\ op \in Operations /\ phase \in Phases /\ item \in Nat
    /\ num \in Nat /\ result \in Seq(Nat) /\ bad \in {"Ok", "Error"}
    /\ ret \in Statuses
    /\ PhaseKnown

FlagsOK == well \in BOOLEAN /\ synced \in BOOLEAN

LineOK ==
    /\ toDev \in Seq(Message) /\ toHost \in Seq(Reply) /\ Keyed(toDev) /\ Shaped(toHost)
    /\ dev \in [fresh : BOOLEAN, host : 0..1, users : Seq(Nat), saved : Seq(Nat),
               config : Nat, image : Seq(Nat)]
    /\ reboots \in 0..MaxReboots

TransferInv == CallOK /\ FlagsOK /\ LineOK

HistoryOK == calm \in BOOLEAN /\ clear \in BOOLEAN

\* An operation in the middle of its exchanges that open a session each.
Midway ==
    \/ op = "Ids" /\ item > 0
    \/ op = "Image" /\ (item > 0 \/ phase = "final")
    \/ op = "Config" /\ phase = "final"

\* While Start waits, nothing but its packet or the answer is of this session.
Starting ==
    pc = "startReply" =>
        \/ Quiet
        \/ AllStale(toHost) /\ HasOnly(toDev, [id |-> "start", arg |-> 0, stale |-> FALSE])
        \/ AllStale(toDev) /\ HasOnly(toHost, [id |-> "start", arg |-> <<>>, stale |-> FALSE])

\* The requests of an operation.
Requests ==
    CASE op = "Get" -> {"count", "features"}
      [] op = "Set" -> {"set", "standby"}
      [] op = "Ids" -> {"ids"}
      [] op = "Config" -> {"queryConfig", "setConfig"}
      [] op = "Image" -> {"chunk", "enrollImage"}
      [] OTHER -> {"removeAll", "removeUser"}

\* Nothing in this session was asked by another operation.
OwnRequests ==
    op \notin KeyOps =>
        /\ pc \in {"send", "recv"} \/ (pc = "idle" /\ ret = "Ok")
             \/ (pc = "start" /\ op = "Set" /\ phase = "final") => FreshIn(toDev, {"start"} \cup Requests)
        /\ pc = "send" /\ op \notin {"Get", "Set"} => FreshIn(toDev, {"start"})

Begun(n) == [k \in 1..n |-> k - 1]
ImageSoFar ==
    op = "Image" /\ reboots = 0 /\ (item > 0 \/ phase = "final") =>
        dev.image = Begun(IF phase = "final" THEN Chunks ELSE item)

\* The exchanges that the device may refuse.
Refusable == op \in {"Get", "Ids", "Config"} \/ (op = "Set" /\ phase = "item")

\* The reply is that to the exchange, and the device is as it says; of the users, a device that
\* has not rebooted.
Answers(p) ==
    \/ Refusable /\ p.id = "refused"
    \/ CASE op = "Get" /\ phase = "count" ->
              p.id = "count" /\ (calm => p.arg = <<Len(dev.users)>>)
         [] op = "Get" /\ phase = "item" ->
              p.id = "features" /\ (calm => item < Len(dev.users) /\ p.arg = <<dev.users[item + 1]>>)
         [] op = "Set" /\ phase = "item" -> p.id = "set" /\ (calm => Has(Import[item + 1]))
         [] op = "Set" /\ phase = "final" ->
              p.id = "reply" /\ (calm /\ p.arg = <<1>> => dev.saved = dev.users)
         [] op = "Ids" ->
              /\ p.id = "ids"
              /\ calm => p.arg = SubSeq(dev.users, Len(result) + 1,
                                        Shorter(Len(result) + ChunkSize, Len(dev.users)))
         [] op = "Config" /\ phase = "count" -> p.id = "queryConfig"
         [] op = "Config" /\ phase = "final" -> p.id = "setConfig" /\ dev.config = num
         [] op = "Image" /\ phase = "item" ->
              p.id = "chunk" /\ (reboots = 0 => dev.image = Begun(item + 1))
         [] op = "Image" /\ phase = "final" ->
              p.id = "reply" /\ (reboots = 0 => dev.image = Begun(Chunks))
         [] OTHER -> p.id = "reply"

\* As long as no exchange of the session failed, the request or the reply of the running one is all
\* there is of it.
Flow ==
    /\ op \notin KeyOps /\ synced /\ well =>
         /\ pc = "send" => Quiet
         /\ pc = "recv" =>
              \/ Quiet
              \/ AllStale(toHost) /\ HasOnly(toDev, Request) /\ ImageSoFar
              \/ /\ AllStale(toDev)
                 /\ \E i \in 1..Len(toHost) : HasOnly(toHost, toHost[i]) /\ Answers(toHost[i])
    /\ pc = "start" /\ Midway => Quiet
    /\ pc = "idle" /\ ret = "Ok" /\ op \notin KeyOps \cup {"Get"} => Quiet

\* The features are those of a user that was asked for by then.
Lags(k, f) == \E j \in 1..k : f = dev.users[j]

\* Nobody behind the running user has been asked for or answered.
AskedSoFar(s) == \A i \in 1..Len(s) : s[i].stale \/ s[i].arg <= item
SentSoFar(s) ==
    \A i \in 1..Len(s) : s[i].stale \/ s[i].id = "refused" \/ Lags(item + 1, s[i].arg[1])

GetKnown ==
    op = "Get" =>
        /\ pc \in {"send", "recv"} /\ phase = "item" =>
             /\ synced /\ FreshIn(toDev, {"features"}) /\ FreshIn(toHost, {"features", "refused"})
             /\ AskedSoFar(toDev)
             /\ calm => /\ num <= Len(dev.users)
                        /\ SentSoFar(toHost)
                        /\ well => \A k \in 1..item : result[k] = dev.users[k]
                        /\ \A k \in 1..num : result[k] = 0 \/ Lags(k, result[k])
        /\ pc = "idle" /\ ret = "Ok" /\ calm =>
             /\ num <= Len(dev.users)
             /\ \A k \in 1..num : \/ result[k] = dev.users[k]
                                  \/ ~well /\ (result[k] = 0 \/ Lags(k, result[k]))

IdsKnown ==
    op = "Ids" /\ calm =>
        /\ pc # "idle" => item <= Len(dev.users) /\ \A k \in 1..item : result[k] = dev.users[k]
        /\ pc = "idle" /\ ret = "Ok" =>
             /\ num = Shorter(Asked, Len(dev.users)) /\ Len(result) = num
             /\ \A k \in 1..num : result[k] = dev.users[k]

Imported(n) == \A k \in 1..n : Has(Import[k])
InFlash(n) == \A k \in 1..n : \E i \in 1..Len(dev.saved) : dev.saved[i] = Import[k]
SetKnown ==
    op = "Set" /\ calm =>
        /\ pc # "idle" /\ phase # "open" /\ well =>
             Imported(IF phase = "final" THEN Len(Import) ELSE item)
        /\ pc = "idle" /\ ret = "Ok" => InFlash(Len(Import))

ImageKnown ==
    op = "Image" =>
        /\ pc \in {"start", "startReply", "send"} => ImageSoFar
        /\ pc = "idle" /\ ret = "Ok" /\ reboots = 0 => dev.image = Begun(Chunks)

ConfigKnown == op = "Config" /\ pc = "idle" /\ ret = "Ok" => dev.config = num

\* The keys on their way to the device, and the answer to one.
OnlyKey(s, key) == \A i \in 1..Len(s) : s[i].id = "hostKey" => s[i].arg = key
NoKey(s) == \A i \in 1..Len(s) : s[i].id # "hostKey"
NoAnswer(s) == \A i \in 1..Len(s) : s[i].id # "deviceKey"

\* Pair or Unpair, when nothing of an earlier one was on its way: an answer is the one to its key.
PairKnown ==
    op \in KeyOps /\ clear =>
        /\ pc = "send" => NoKey(toDev) /\ NoAnswer(toHost)
        /\ pc = "recv" => /\ OnlyKey(toDev, KeyRequest.arg)
                          /\ NoAnswer(toHost) \/ dev.host = KeyRequest.arg
        /\ pc = "idle" /\ ret = "Ok" => OnlyKey(toDev, KeyRequest.arg) /\ dev.host = KeyRequest.arg

SecureInv ==
    /\ Starting /\ OwnRequests /\ Flow
    /\ GetKnown /\ IdsKnown /\ SetKnown /\ ImageKnown /\ ConfigKnown

-----------------------------------------------------------------------------
(* Facts about the line. *)

LEMMA StaleMessages ==
    ASSUME NEW s \in Seq(Message), Keyed(s)
    PROVE  /\ Stale(s, 0) \in Seq(Message) /\ Len(Stale(s, 0)) = Len(s)
           /\ AllStale(Stale(s, 0)) /\ Keyed(Stale(s, 0))
<1> DEFINE t == Stale(s, 0)
<1>1. ASSUME NEW i \in 1..Len(s)
      PROVE  t[i] \in Message /\ t[i].stale /\ (t[i].id = "hostKey" => t[i].arg \in 0..1)
  <2>1. s[i] \in Message
    OBVIOUS
  <2>2. CASE Secure /\ s[i].id \notin Clear
    BY <2>2 DEF Stale, Message
  <2>3. CASE ~(Secure /\ s[i].id \notin Clear)
    <3>1. t[i] = [s[i] EXCEPT !.stale = TRUE]
      BY <2>3 DEF Stale
    <3>2. t[i] \in Message /\ t[i].stale /\ t[i].id = s[i].id /\ t[i].arg = s[i].arg
      <4> HIDE DEF t
      <4> QED
        BY <2>1, <3>1 DEF Message
    <3> QED
      BY <3>2 DEF Keyed
  <2> QED
    BY <2>2, <2>3
<1>2. t \in [1..Len(s) -> Message]
  BY <1>1 DEF Stale
<1> HIDE DEF t
<1>3. t \in Seq(Message) /\ Len(t) = Len(s)
  BY <1>2
<1> QED
  BY <1>1, <1>3 DEF AllStale, Keyed, t

LEMMA StaleReplies ==
    ASSUME NEW s \in Seq(Reply), Shaped(s)
    PROVE  /\ Stale(s, <<>>) \in Seq(Reply) /\ Len(Stale(s, <<>>)) = Len(s)
           /\ AllStale(Stale(s, <<>>)) /\ Shaped(Stale(s, <<>>))
<1> DEFINE t == Stale(s, <<>>)
<1>1. ASSUME NEW i \in 1..Len(s)
      PROVE  /\ t[i] \in Reply /\ t[i].stale
             /\ t[i].id \in {"count", "features"} => Len(t[i].arg) = 1
  <2>1. s[i] \in Reply
    OBVIOUS
  <2>2. CASE Secure /\ s[i].id \notin Clear
    <3>1. t[i] = [id |-> "sealed", arg |-> <<>>, stale |-> TRUE]
      BY <2>2 DEF Stale
    <3>2. <<>> \in Seq(Nat) /\ "sealed" \in Ids
      BY DEF Ids
    <3> QED
      <4> HIDE DEF t, Ids
      <4> QED
        BY <3>1, <3>2 DEF Reply
  <2>3. CASE ~(Secure /\ s[i].id \notin Clear)
    <3>1. t[i] = [s[i] EXCEPT !.stale = TRUE]
      BY <2>3 DEF Stale
    <3>2. t[i] \in Reply /\ t[i].stale /\ t[i].id = s[i].id /\ t[i].arg = s[i].arg
      <4> HIDE DEF t, Ids
      <4> QED
        BY <2>1, <3>1 DEF Reply
    <3>3. s[i].id \in {"count", "features"} => Len(s[i].arg) = 1
      BY DEF Shaped
    <3> QED
      BY <3>2, <3>3
  <2> QED
    BY <2>2, <2>3
<1>2. t \in [1..Len(s) -> Reply]
  BY <1>1 DEF Stale
<1> HIDE DEF t
<1>3. t \in Seq(Reply) /\ Len(t) = Len(s)
  BY <1>2
<1> QED
  BY <1>1, <1>3 DEF AllStale, Shaped, t

\* The first packet and the others.
LEMMA TailFacts ==
    ASSUME NEW T, NEW s \in Seq(T), s # <<>>
    PROVE  /\ Head(s) = s[1] /\ Head(s) \in T /\ Tail(s) \in Seq(T)
           /\ Len(s) \in Nat /\ Len(s) >= 1 /\ Len(Tail(s)) = Len(s) - 1
           /\ \A i \in 1..Len(Tail(s)) : i + 1 \in 1..Len(s) /\ Tail(s)[i] = s[i + 1]
OBVIOUS

LEMMA AppendFacts ==
    ASSUME NEW T, NEW s \in Seq(T), NEW m \in T
    PROVE  /\ Append(s, m) \in Seq(T) /\ Len(Append(s, m)) = Len(s) + 1 /\ Len(s) \in Nat
           /\ Append(s, m)[Len(s) + 1] = m
           /\ \A i \in 1..Len(s) : Append(s, m)[i] = s[i]
OBVIOUS

LEMMA SliceFacts ==
    ASSUME NEW s \in Seq(Nat), NEW i \in Nat, NEW n \in Nat, i + n <= Len(s)
    PROVE  /\ SubSeq(s, i + 1, i + n) \in Seq(Nat) /\ Len(SubSeq(s, i + 1, i + n)) = n
           /\ \A k \in 1..n : SubSeq(s, i + 1, i + n)[k] = s[i + k]
<1> DEFINE t == SubSeq(s, i + 1, i + n)
<1>1. t = [k \in 1..n |-> s[i + k]]
  OBVIOUS
<1>2. \A k \in 1..n : s[i + k] \in Nat
  OBVIOUS
<1> HIDE DEF t
<1>3. t \in Seq(Nat) /\ Len(t) = n
  BY <1>1, <1>2
<1> QED
  BY <1>1, <1>3 DEF t

LEMMA ConcatFacts ==
    ASSUME NEW s \in Seq(Nat), NEW t \in Seq(Nat)
    PROVE  /\ s \o t \in Seq(Nat) /\ Len(s \o t) = Len(s) + Len(t)
           /\ \A k \in 1..Len(s) : (s \o t)[k] = s[k]
           /\ \A k \in 1..Len(t) : (s \o t)[Len(s) + k] = t[k]
<1> DEFINE u == s \o t
<1>1. /\ u \in Seq(Nat) /\ Len(u) = Len(s) + Len(t)
      /\ \A i \in 1..(Len(s) + Len(t)) : u[i] = IF i <= Len(s) THEN s[i] ELSE t[i - Len(s)]
  BY ConcatProperties
<1>2. Len(s) \in Nat /\ Len(t) \in Nat
  OBVIOUS
<1> HIDE DEF u
<1>3. \A k \in 1..Len(s) : u[k] = s[k]
  BY ONLY <1>1, <1>2
<1>4. ASSUME NEW k \in 1..Len(t) PROVE u[Len(s) + k] = t[k]
  <2>1. /\ Len(s) + k \in 1..(Len(s) + Len(t)) /\ ~(Len(s) + k <= Len(s))
        /\ (Len(s) + k) - Len(s) = k
    BY <1>2
  <2>2. u[Len(s) + k] = IF Len(s) + k <= Len(s) THEN s[Len(s) + k] ELSE t[(Len(s) + k) - Len(s)]
    BY <1>1, <2>1, Zenon
  <2> QED
    BY <2>1, <2>2, Zenon
<1> QED
  BY <1>1, <1>3, <1>4 DEF u

LEMMA PrefixFacts ==
    ASSUME NEW s \in Seq(Nat), NEW n \in Nat, n <= Len(s)
    PROVE  /\ SubSeq(s, 1, n) \in Seq(Nat) /\ Len(SubSeq(s, 1, n)) = n
           /\ \A k \in 1..n : SubSeq(s, 1, n)[k] = s[k]
<1>1. 0 \in Nat /\ 0 + n <= Len(s) /\ 0 + 1 = 1 /\ 0 + n = n /\ \A k \in 1..n : 0 + k = k
  OBVIOUS
<1> QED
  BY ONLY <1>1, SliceFacts, s \in Seq(Nat), n \in Nat

LEMMA TailKeeps ==
    ASSUME NEW T, NEW s \in Seq(T), s # <<>>
    PROVE  /\ AllStale(s) => Head(s).stale /\ AllStale(Tail(s))
           /\ Shaped(s) => Shaped(Tail(s))
           /\ Keyed(s) => Keyed(Tail(s)) /\ (Head(s).id = "hostKey" => Head(s).arg \in 0..1)
           /\ \A ids : FreshIn(s, ids) => (Head(s).stale \/ Head(s).id \in ids) /\ FreshIn(Tail(s), ids)
           /\ \A m : HasOnly(s, m) => \/ Head(s) = m /\ ~Head(s).stale /\ AllStale(Tail(s))
                                      \/ Head(s).stale /\ HasOnly(Tail(s), m)
<1>1. /\ Head(s) = s[1] /\ 1 \in 1..Len(s) /\ Len(s) \in Nat /\ Len(Tail(s)) = Len(s) - 1
      /\ \A i \in 1..Len(Tail(s)) : i + 1 \in 1..Len(s) /\ Tail(s)[i] = s[i + 1]
  BY TailFacts
<1>2. ASSUME AllStale(s) PROVE Head(s).stale /\ AllStale(Tail(s))
  BY <1>1, <1>2 DEF AllStale
<1>3. ASSUME Shaped(s) PROVE Shaped(Tail(s))
  BY <1>1, <1>3 DEF Shaped
<1>4. ASSUME NEW ids, FreshIn(s, ids)
      PROVE  (Head(s).stale \/ Head(s).id \in ids) /\ FreshIn(Tail(s), ids)
  BY <1>1, <1>4 DEF FreshIn
<1>5. ASSUME NEW m, HasOnly(s, m)
      PROVE  \/ Head(s) = m /\ ~Head(s).stale /\ AllStale(Tail(s))
             \/ Head(s).stale /\ HasOnly(Tail(s), m)
  <2>1. PICK k \in 1..Len(s) : s[k] = m /\ \A j \in 1..Len(s) : j # k => s[j].stale
    BY <1>5 DEF HasOnly
  <2>2. CASE k = 1
    <3>1. AllStale(Tail(s))
      BY <1>1, <2>1, <2>2 DEF AllStale
    <3> QED
      BY <1>1, <1>5, <2>1, <2>2, <3>1 DEF HasOnly
  <2>3. CASE k # 1
    <3>1. k - 1 \in 1..Len(Tail(s)) /\ Tail(s)[k - 1] = m
      BY <1>1, <2>1, <2>3
    <3>2. \A j \in 1..Len(Tail(s)) : j # k - 1 => Tail(s)[j].stale
      BY <1>1, <2>1, <2>3
    <3>3. Head(s).stale
      BY <1>1, <2>1, <2>3
    <3> QED
      BY <1>5, <3>1, <3>2, <3>3 DEF HasOnly
  <2> QED
    BY <2>2, <2>3
<1>6. ASSUME Keyed(s)
      PROVE  Keyed(Tail(s)) /\ (Head(s).id = "hostKey" => Head(s).arg \in 0..1)
  BY <1>1, <1>6 DEF Keyed
<1> QED
  BY <1>2, <1>3, <1>4, <1>5, <1>6

LEMMA AppendKeeps ==
    ASSUME NEW T, NEW s \in Seq(T), NEW m \in T
    PROVE  /\ AllStale(s) /\ m.stale => AllStale(Append(s, m))
           /\ AllStale(s) /\ ~m.stale => HasOnly(Append(s, m), m)
           /\ \A n : HasOnly(s, n) /\ m.stale => HasOnly(Append(s, m), n)
           /\ \A ids : FreshIn(s, ids) /\ (m.stale \/ m.id \in ids) => FreshIn(Append(s, m), ids)
           /\ Shaped(s) /\ (m.id \in {"count", "features"} => Len(m.arg) = 1) => Shaped(Append(s, m))
           /\ Keyed(s) /\ (m.id = "hostKey" => m.arg \in 0..1) => Keyed(Append(s, m))
<1> DEFINE t == Append(s, m)
<1>1. /\ Len(t) = Len(s) + 1 /\ Len(s) \in Nat /\ t[Len(s) + 1] = m
      /\ \A i \in 1..Len(s) : t[i] = s[i]
  BY AppendFacts
<1> HIDE DEF t
<1>2. 1..Len(t) = (1..Len(s)) \cup {Len(t)} /\ Len(t) \notin 1..Len(s) /\ t[Len(t)] = m
  BY <1>1
<1>3. AllStale(s) /\ m.stale => AllStale(t)
  BY <1>1, <1>2 DEF AllStale
<1>4. AllStale(s) /\ ~m.stale => HasOnly(t, m)
  BY <1>1, <1>2 DEF AllStale, HasOnly
<1>5. ASSUME NEW n, HasOnly(s, n), m.stale PROVE HasOnly(t, n)
  <2>1. PICK k \in 1..Len(s) : s[k] = n /\ \A j \in 1..Len(s) : j # k => s[j].stale
    BY <1>5 DEF HasOnly
  <2>2. k \in 1..Len(t) /\ t[k] = n
    BY <1>1, <1>2, <2>1
  <2>3. \A j \in 1..Len(t) : j # k => t[j].stale
    BY <1>1, <1>2, <1>5, <2>1
  <2> QED
    BY <1>5, <2>2, <2>3 DEF HasOnly
<1>6. \A ids : FreshIn(s, ids) /\ (m.stale \/ m.id \in ids) => FreshIn(t, ids)
  BY <1>1, <1>2 DEF FreshIn
<1>7. Shaped(s) /\ (m.id \in {"count", "features"} => Len(m.arg) = 1) => Shaped(t)
  BY <1>1, <1>2 DEF Shaped
<1>8. Keyed(s) /\ (m.id = "hostKey" => m.arg \in 0..1) => Keyed(t)
  BY <1>1, <1>2 DEF Keyed
<1> QED
  BY <1>3, <1>4, <1>5, <1>6, <1>7, <1>8 DEF t

\* What is left of the line.
Within(s, t) == \A i \in 1..Len(s) : \E j \in 1..Len(t) : s[i] = t[j]

LEMMA TailWithin ==
    ASSUME NEW T, NEW s \in Seq(T), s # <<>>
    PROVE  Within(Tail(s), s)
<1>1. \A i \in 1..Len(Tail(s)) : i + 1 \in 1..Len(s) /\ Tail(s)[i] = s[i + 1]
  BY TailFacts, Zenon
<1> QED
  BY <1>1 DEF Within

LEMMA WithinKeeps ==
    ASSUME NEW s, NEW t, Within(s, t)
    PROVE  /\ AllStale(t) => AllStale(s)
           /\ \A ids : FreshIn(t, ids) => FreshIn(s, ids)
BY DEF Within, AllStale, FreshIn

LEMMA StaleIsFreshIn ==
    ASSUME NEW s, AllStale(s)
    PROVE  \A ids : FreshIn(s, ids)
BY DEF AllStale, FreshIn

-----------------------------------------------------------------------------
(* The type invariant, of both builds. *)

LEMMA ConstantFacts ==
    /\ Db \in Seq(Nat) /\ Import \in Seq(Nat) /\ Len(Import) \in Nat
    /\ Removed \in Nat /\ Asked \in Nat /\ Configs \subseteq Nat
    /\ ChunkSize \in Nat /\ ChunkSize > 0 /\ Chunks \in Nat /\ Chunks > 0
    /\ Ops \subseteq Operations /\ MaxReboots \in Nat
BY TransferAssumption

\* Where a failed exchange leaves the call.
LEMMA FailedIs ==
    ASSUME CallOK, pc # "idle", NEW status \in {"Error", "Thrown"}, Failed(status)
    PROVE  \/ /\ pc' = "idle" /\ ret' \in {"Error", "Thrown"} /\ num' \in {num, 0}
              /\ UNCHANGED <<op, phase, item, result, well, bad>>
           \/ /\ op = "Get" /\ phase = "count" /\ pc' = "idle" /\ num' = 0
              /\ ret' = (IF well THEN "Ok" ELSE bad)
              /\ UNCHANGED <<op, phase, item, result, well, bad>>
           \/ /\ op = "Get" /\ phase = "item" /\ well' = FALSE /\ bad' = "Error"
              /\ UNCHANGED <<op, num, result>>
              /\ \/ pc' = "send" /\ item + 1 < num /\ phase' = "item" /\ item' = item + 1 /\ ret' = ret
                 \/ pc' = "idle" /\ ret' = "Error" /\ phase' = phase /\ item' = item
           \/ /\ op = "Set" /\ phase = "item" /\ well' = FALSE
              /\ UNCHANGED <<op, num, result, bad, ret>>
              /\ \/ pc' = "send" /\ item + 1 < Len(Import) /\ phase' = "item" /\ item' = item + 1
                 \/ pc' = "start" /\ phase' = "final" /\ item' = 0
<1> USE DEF callVars, dataVars, Return
<1>1. CASE FailedGet(status)
  <2>1. CASE phase = "open"
    BY <1>1, <2>1 DEF FailedGet
  <2>2. CASE phase = "count"
    BY <1>1, <2>2 DEF FailedGet, NextGet
  <2>3. CASE phase = "item"
    BY <1>1, <2>3 DEF FailedGet, NextGet, Goto, Opens
  <2> QED
    BY <1>1, <2>1, <2>2, <2>3 DEF FailedGet
<1>2. CASE FailedSet(status)
  BY <1>2 DEF FailedSet, NextSet, Goto, Opens
<1>3. CASE FailedConfig(status) \/ FailedImage(status)
  BY <1>3 DEF FailedConfig, FailedImage
<1>4. CASE op = "Ids" /\ IdsFailed
  BY <1>4 DEF IdsFailed
<1>5. CASE op \in KeyOps \cup Removals /\ Return("Error") /\ UNCHANGED dataVars
  BY <1>5
<1> QED
  BY <1>1, <1>2, <1>3, <1>4, <1>5 DEF Failed

LEMMA FailedCall ==
    ASSUME CallOK, pc # "idle", NEW status \in {"Error", "Thrown"}, Failed(status)
    PROVE  CallOK'
<1> USE DEF CallOK, PhaseKnown, Opens, Statuses, Phases
<1>1. CASE pc' = "idle" /\ num' \in {num, 0} /\ ret' \in Statuses /\ UNCHANGED <<op, phase, item, result, bad>>
           /\ \/ well' = well
              \/ well' = FALSE /\ op = "Get" /\ phase = "item"
  BY <1>1
<1>2. CASE /\ op = "Get" /\ phase = "item" /\ well' = FALSE /\ bad' = "Error"
           /\ UNCHANGED <<op, num, result>>
           /\ pc' = "send" /\ item + 1 < num /\ phase' = "item" /\ item' = item + 1 /\ ret' = ret
  BY <1>2
<1>3. CASE /\ op = "Set" /\ phase = "item" /\ well' = FALSE
           /\ UNCHANGED <<op, num, result, bad, ret>>
           /\ \/ pc' = "send" /\ item + 1 < Len(Import) /\ phase' = "item" /\ item' = item + 1
              \/ pc' = "start" /\ phase' = "final" /\ item' = 0
  BY <1>3, ConstantFacts DEF KeyOps
<1>4. CASE /\ op = "Get" /\ phase = "item" /\ well' = FALSE /\ bad' = "Error"
           /\ UNCHANGED <<op, num, result>>
           /\ pc' = "idle" /\ ret' = "Error" /\ phase' = phase /\ item' = item
  BY <1>4
<1>5. (IF well THEN "Ok" ELSE bad) \in Statuses
  OBVIOUS
<1> QED
  <2> HIDE DEF CallOK, PhaseKnown, Opens, Phases
  <2> QED
    BY <1>1, <1>2, <1>3, <1>4, <1>5, FailedIs

\* GetUsersFaceprints passes over a user.
ThrownIs(status) ==
    /\ op = "Get" /\ phase = "item" /\ status \in {"Ok", "Error"}
    /\ well' = FALSE /\ bad' = status /\ UNCHANGED <<op, num, result>>
    /\ \/ pc' = "send" /\ item + 1 < num /\ phase' = "item" /\ item' = item + 1 /\ ret' = ret
       \/ pc' = "idle" /\ ret' = status /\ phase' = phase /\ item' = item

LEMMA ThrownCall ==
    ASSUME CallOK, pc \in {"send", "recv"}, NEW status, ThrownIs(status)
    PROVE  CallOK'
<1> USE DEF CallOK, PhaseKnown, Opens, Statuses, Phases, ThrownIs
<1>1. CASE pc' = "send" /\ item + 1 < num /\ phase' = "item" /\ item' = item + 1 /\ ret' = ret
  BY <1>1
<1>2. CASE pc' = "idle" /\ ret' = status /\ phase' = phase /\ item' = item
  BY <1>2
<1> QED
  BY <1>1, <1>2

LEMMA WithoutSeq ==
    ASSUME NEW s \in Seq(Nat), NEW u
    PROVE  Without(s, u) \in Seq(Nat)
<1>1. CASE \E k \in 1..Len(s) : s[k] = u
  <2> DEFINE k == CHOOSE k \in 1..Len(s) : s[k] = u
  <2>1. k \in 1..Len(s)
    BY <1>1
  <2>2. Without(s, u) = [i \in 1..(Len(s) - 1) |-> IF i < k THEN s[i] ELSE s[i + 1]]
    BY <1>1 DEF Without
  <2> HIDE DEF k
  <2>3. \A i \in 1..(Len(s) - 1) : (IF i < k THEN s[i] ELSE s[i + 1]) \in Nat
    BY <2>1
  <2>4. Without(s, u) \in [1..(Len(s) - 1) -> Nat] /\ Len(s) - 1 \in Nat
    BY <2>1, <2>2, <2>3
  <2> QED
    BY <2>4
<1>2. CASE ~\E k \in 1..Len(s) : s[k] = u
  BY <1>2 DEF Without
<1> QED
  BY <1>1, <1>2

-----------------------------------------------------------------------------
(* What the device does with a request: the reply, and its own step.        *)

ReplyTo(m, r) ==
    /\ r.stale = (m.id = "hostKey" \/ m.stale \/ ~dev.fresh)
    /\ r.id \in {"count", "features"} => Len(r.arg) = 1
    /\ r.id = "deviceKey" => m.id = "hostKey"
    /\ m.id = "count" => r.id = "count" /\ r.arg = <<Len(dev.users)>>
    /\ m.id = "features" =>
         r.id = "features" /\ m.arg < Len(dev.users) /\ r.arg = <<dev.users[m.arg + 1]>>
    /\ m.id = "ids" =>
         /\ r.id = "ids"
         /\ r.arg = SubSeq(dev.users, m.arg + 1, Shorter(m.arg + ChunkSize, Len(dev.users)))
    /\ m.id \in {"set", "queryConfig", "setConfig", "chunk"} => r.id = m.id
    /\ m.id \in {"standby", "enrollImage", "removeAll", "removeUser"} => r.id = "reply"
    /\ m.id = "standby" /\ r.arg = <<1>> => dev'.saved = dev.users
    /\ m.id = "hostKey" => r.id = "deviceKey"

DeviceType == [fresh : BOOLEAN, host : 0..1, users : Seq(Nat), saved : Seq(Nat), config : Nat,
               image : Seq(Nat)]

Carries(m, d) ==
    /\ d \in DeviceType
    /\ m.id = "hostKey" => d.host = m.arg
    /\ m.id # "hostKey" => d.host = dev.host
    /\ m.id = "set" => d.users = (IF Has(m.arg) THEN dev.users ELSE Append(dev.users, m.arg))
    /\ m.id \notin {"set", "removeAll", "removeUser"} => d.users = dev.users
    /\ m.id # "standby" => d.saved = dev.saved
    /\ m.id = "setConfig" => d.config = m.arg
    /\ m.id # "setConfig" => d.config = dev.config
    /\ m.id = "chunk" => d.image = (IF m.arg = 0 THEN <<0>> ELSE Append(dev.image, m.arg))
    /\ m.id # "chunk" => d.image = dev.image

Carried(m) == toHost' = toHost \/ \E r \in Reply : toHost' = Append(toHost, r) /\ ReplyTo(m, r)

Refused(m) ==
    /\ m.id \in DataIds \ {"chunk", "refused"} /\ dev' = dev
    /\ \/ toHost' = toHost
       \/ \E r \in Reply : /\ toHost' = Append(toHost, r) /\ r.id = "refused"
                           /\ r.stale = (m.stale \/ ~dev.fresh)

LEMMA EmitIs ==
    ASSUME NEW id \in Ids, NEW arg \in Seq(Nat), NEW fresh \in BOOLEAN, Emit(id, arg, fresh)
    PROVE  \/ toHost' = toHost
           \/ \E r \in Reply : /\ toHost' = Append(toHost, r)
                               /\ r.id = id /\ r.arg = arg /\ r.stale = ~fresh
<1> DEFINE r == [id |-> id, arg |-> arg, stale |-> ~fresh]
<1>1. r \in Reply
  BY DEF Reply
<1>2. r.id = id /\ r.arg = arg /\ r.stale = ~fresh
  OBVIOUS
<1>3. toHost' = toHost \/ toHost' = Append(toHost, r)
  BY DEF Emit
<1> HIDE DEF r
<1> QED
  BY <1>1, <1>2, <1>3

LEMMA ServeIs ==
    ASSUME LineOK, DeviceServe
    PROVE  /\ toDev # <<>> /\ toDev' = Tail(toDev) /\ Head(toDev) \in Message
           /\ Head(toDev).id # "start" /\ ~Dropped(Head(toDev))
           /\ (Carried(Head(toDev)) /\ Carries(Head(toDev), dev')) \/ Refused(Head(toDev))
           /\ UNCHANGED <<pc, op, phase, item, num, result, well, bad, ret, synced, reboots>>
<1> DEFINE m == Head(toDev)
           fr == ~m.stale /\ dev.fresh
<1>1. /\ toDev # <<>> /\ toDev' = Tail(toDev) /\ m.id # "start" /\ ~Dropped(m)
      /\ UNCHANGED <<pc, op, phase, item, num, result, well, bad, ret, synced, reboots>>
  BY DEF DeviceServe, callVars, dataVars
<1>2. m \in Message
  BY <1>1, TailFacts DEF LineOK
<1>3. /\ dev \in DeviceType /\ dev.users \in Seq(Nat) /\ Len(dev.users) \in Nat /\ dev.config \in Nat
      /\ dev.saved \in Seq(Nat)
      /\ dev.image \in Seq(Nat) /\ dev.host \in 0..1 /\ dev.fresh \in BOOLEAN
  BY DEF LineOK, DeviceType
<1>4. m.arg \in Nat /\ m.stale \in BOOLEAN /\ fr \in BOOLEAN
  BY <1>2, <1>3 DEF Message
<1> HIDE DEF m
<1>5. ASSUME NEW id \in Ids, NEW arg \in Seq(Nat), Emit(id, arg, fr),
             \A r : r.id = id /\ r.arg = arg /\ r.stale = ~fr => ReplyTo(m, r)
      PROVE  Carried(m)
  <2> HIDE DEF fr
  <2> QED
    BY <1>4, <1>5, EmitIs DEF Carried
<1>6. "count" \in Ids /\ "features" \in Ids /\ "set" \in Ids /\ "ids" \in Ids /\ "queryConfig" \in Ids
      /\ "setConfig" \in Ids /\ "chunk" \in Ids /\ "reply" \in Ids /\ "deviceKey" \in Ids
      /\ "refused" \in Ids
  BY DEF Ids, DataIds
<1>7. <<>> \in Seq(Nat) /\ <<0>> \in Seq(Nat) /\ <<1>> \in Seq(Nat)
      /\ \A n \in Nat : <<n>> \in Seq(Nat) /\ Len(<<n>>) = 1
  OBVIOUS
<1>8. ASSUME dev' = dev, m.id \notin {"set", "setConfig", "chunk", "hostKey"} PROVE Carries(m, dev')
  BY <1>3, <1>8 DEF Carries
<1>9. CASE m.id = "count" /\ Emit("count", <<Len(dev.users)>>, fr) /\ UNCHANGED dev
  <2>1. \A r : r.id = "count" /\ r.arg = <<Len(dev.users)>> /\ r.stale = ~fr => ReplyTo(m, r)
    BY <1>3, <1>7, <1>9 DEF ReplyTo
  <2>2. Carried(m)
    BY <1>3, <1>5, <1>6, <1>7, <1>9, <2>1
  <2> QED
    BY <1>1, <1>2, <1>8, <1>9, <2>2 DEF m
<1>10. CASE /\ m.id = "features" /\ UNCHANGED dev
            /\ m.arg < Len(dev.users) /\ Emit("features", <<dev.users[m.arg + 1]>>, fr)
  <2>1. dev.users[m.arg + 1] \in Nat
    BY <1>3, <1>4, <1>10
  <2>2. \A r : r.id = "features" /\ r.arg = <<dev.users[m.arg + 1]>> /\ r.stale = ~fr => ReplyTo(m, r)
    BY <1>7, <1>10, <2>1 DEF ReplyTo
  <2>3. Carried(m)
    BY <1>5, <1>6, <1>7, <1>10, <2>1, <2>2
  <2> QED
    BY <1>1, <1>2, <1>8, <1>10, <2>3 DEF m
<1>11. CASE m.id = "features" /\ m.arg >= Len(dev.users) /\ UNCHANGED <<dev, toHost>>
  <2>1. Carried(m)
    BY <1>11 DEF Carried
  <2> QED
    BY <1>1, <1>2, <1>8, <1>11, <2>1 DEF m
<1>12. CASE /\ m.id = "set" /\ Emit("set", <<>>, fr)
            /\ dev' = [dev EXCEPT !.users = IF Has(m.arg) THEN @ ELSE Append(@, m.arg)]
  <2>1. \A r : r.id = "set" /\ r.arg = <<>> /\ r.stale = ~fr => ReplyTo(m, r)
    BY <1>12 DEF ReplyTo
  <2>2. Carried(m)
    BY <1>5, <1>6, <1>7, <1>12, <2>1
  <2> DEFINE us == IF Has(m.arg) THEN dev.users ELSE Append(dev.users, m.arg)
  <2>3. us \in Seq(Nat) /\ dev' = [dev EXCEPT !.users = us]
    BY <1>3, <1>4, <1>12
  <2>4. dev' \in DeviceType /\ dev'.users = us /\ dev'.saved = dev.saved /\ dev'.host = dev.host /\ dev'.config = dev.config
        /\ dev'.image = dev.image
    <3> HIDE DEF us
    <3> QED
      BY <1>3, <2>3 DEF DeviceType
  <2>5. Carries(m, dev')
    BY <1>12, <2>4 DEF Carries
  <2> QED
    BY <1>1, <1>2, <2>2, <2>5 DEF m
<1>13. CASE /\ m.id = "ids" /\ UNCHANGED dev
            /\ Emit("ids", SubSeq(dev.users, m.arg + 1, Shorter(m.arg + ChunkSize, Len(dev.users))), fr)
  <2> DEFINE a == SubSeq(dev.users, m.arg + 1, Shorter(m.arg + ChunkSize, Len(dev.users)))
  <2>1. Shorter(m.arg + ChunkSize, Len(dev.users)) \in Nat
        /\ Shorter(m.arg + ChunkSize, Len(dev.users)) <= Len(dev.users)
    BY <1>3, <1>4, ConstantFacts DEF Shorter
  <2>2. a \in Seq(Nat)
    BY <1>3, <1>4, <2>1
  <2>3. \A r : r.id = "ids" /\ r.arg = a /\ r.stale = ~fr => ReplyTo(m, r)
    BY <1>13 DEF ReplyTo
  <2>4. Carried(m)
    BY <1>5, <1>6, <1>13, <2>2, <2>3
  <2> QED
    BY <1>1, <1>2, <1>8, <1>13, <2>4 DEF m
<1>14. CASE m.id = "queryConfig" /\ Emit("queryConfig", <<dev.config>>, fr) /\ UNCHANGED dev
  <2>1. \A r : r.id = "queryConfig" /\ r.arg = <<dev.config>> /\ r.stale = ~fr => ReplyTo(m, r)
    BY <1>14 DEF ReplyTo
  <2>2. Carried(m)
    BY <1>3, <1>5, <1>6, <1>7, <1>14, <2>1
  <2> QED
    BY <1>1, <1>2, <1>8, <1>14, <2>2 DEF m
<1>15. CASE m.id = "setConfig" /\ Emit("setConfig", <<m.arg>>, fr) /\ dev' = [dev EXCEPT !.config = m.arg]
  <2>1. \A r : r.id = "setConfig" /\ r.arg = <<m.arg>> /\ r.stale = ~fr => ReplyTo(m, r)
    BY <1>15 DEF ReplyTo
  <2>2. Carried(m)
    BY <1>4, <1>5, <1>6, <1>7, <1>15, <2>1
  <2>3. dev' \in DeviceType /\ dev'.users = dev.users /\ dev'.saved = dev.saved /\ dev'.host = dev.host /\ dev'.config = m.arg
        /\ dev'.image = dev.image
    BY <1>3, <1>4, <1>15 DEF DeviceType
  <2>4. Carries(m, dev')
    BY <1>15, <2>3 DEF Carries
  <2> QED
    BY <1>1, <1>2, <2>2, <2>4 DEF m
<1>16. CASE /\ m.id = "chunk" /\ Emit("chunk", <<>>, fr)
            /\ dev' = [dev EXCEPT !.image = IF m.arg = 0 THEN <<0>> ELSE Append(@, m.arg)]
  <2>1. \A r : r.id = "chunk" /\ r.arg = <<>> /\ r.stale = ~fr => ReplyTo(m, r)
    BY <1>16 DEF ReplyTo
  <2>2. Carried(m)
    BY <1>5, <1>6, <1>7, <1>16, <2>1
  <2> DEFINE im == IF m.arg = 0 THEN <<0>> ELSE Append(dev.image, m.arg)
  <2>3. im \in Seq(Nat) /\ dev' = [dev EXCEPT !.image = im]
    BY <1>3, <1>4, <1>7, <1>16
  <2>4. dev' \in DeviceType /\ dev'.users = dev.users /\ dev'.saved = dev.saved /\ dev'.host = dev.host /\ dev'.config = dev.config
        /\ dev'.image = im
    <3> HIDE DEF im
    <3> QED
      BY <1>3, <2>3 DEF DeviceType
  <2>5. Carries(m, dev')
    BY <1>16, <2>4 DEF Carries
  <2> QED
    BY <1>1, <1>2, <2>2, <2>5 DEF m
<1>17. CASE /\ m.id \in {"standby", "enrollImage", "removeAll", "removeUser"}
            /\ \E n \in {0, 1} : Emit("reply", <<n>>, fr) /\ (m.id = "standby" /\ n = 1 => dev'.saved = dev.users)
            /\ \/ UNCHANGED dev
               \/ m.id = "standby" /\ dev' = [dev EXCEPT !.saved = dev.users]
               \/ m.id = "removeAll" /\ dev' = [dev EXCEPT !.users = <<>>]
               \/ m.id = "removeUser" /\ dev' = [dev EXCEPT !.users = Without(@, m.arg)]
  <2>1. PICK n \in {0, 1} : Emit("reply", <<n>>, fr) /\ (m.id = "standby" /\ n = 1 => dev'.saved = dev.users)
    BY <1>17
  <2>2. \A r : r.id = "reply" /\ r.arg = <<n>> /\ r.stale = ~fr => ReplyTo(m, r)
    <3>1. <<n>> = <<1>> => n = 1
      OBVIOUS
    <3> QED
      BY <1>17, <2>1, <3>1 DEF ReplyTo
  <2>3. Carried(m)
    BY <1>5, <1>6, <1>7, <2>1, <2>2
  <2>4. PICK us \in Seq(Nat), sv \in Seq(Nat) :
           /\ dev' = [dev EXCEPT !.users = us, !.saved = sv]
           /\ m.id \in {"standby", "enrollImage"} => us = dev.users
           /\ m.id # "standby" => sv = dev.saved
    <3>1. Without(dev.users, m.arg) \in Seq(Nat)
      BY <1>3, WithoutSeq
    <3>2. dev = [dev EXCEPT !.users = dev.users, !.saved = dev.saved]
      BY <1>3 DEF DeviceType
    <3>3. \A us \in Seq(Nat) : [dev EXCEPT !.users = us] = [dev EXCEPT !.users = us, !.saved = dev.saved]
      BY <1>3 DEF DeviceType
    <3>4. [dev EXCEPT !.saved = dev.users] = [dev EXCEPT !.users = dev.users, !.saved = dev.users]
      BY <1>3 DEF DeviceType
    <3>5. CASE UNCHANGED dev
      BY <1>3, <3>2, <3>5
    <3>6. CASE m.id = "standby" /\ dev' = [dev EXCEPT !.saved = dev.users]
      BY <1>3, <3>4, <3>6
    <3>7. CASE m.id = "removeAll" /\ dev' = [dev EXCEPT !.users = <<>>]
      BY <1>3, <1>7, <3>3, <3>7
    <3>8. CASE m.id = "removeUser" /\ dev' = [dev EXCEPT !.users = Without(dev.users, m.arg)]
      BY <1>3, <3>1, <3>3, <3>8
    <3> QED
      BY <1>17, <3>5, <3>6, <3>7, <3>8
  <2>5. /\ dev' \in DeviceType /\ dev'.host = dev.host /\ dev'.config = dev.config
        /\ dev'.image = dev.image /\ dev'.users = us /\ dev'.saved = sv
    BY <1>3, <2>4 DEF DeviceType
  <2>6. Carries(m, dev')
    BY <1>17, <2>4, <2>5 DEF Carries
  <2> QED
    BY <1>1, <1>2, <2>3, <2>6 DEF m
<1>19. CASE m.id \in DataIds \ {"chunk", "refused"} /\ Emit("refused", <<>>, fr) /\ UNCHANGED dev
  <2>1. \/ toHost' = toHost
        \/ \E r \in Reply : toHost' = Append(toHost, r) /\ r.id = "refused" /\ r.stale = ~fr
    <3> HIDE DEF fr
    <3> DEFINE r == [id |-> "refused", arg |-> <<>>, stale |-> ~fr]
    <3>1. toHost' = toHost \/ toHost' = Append(toHost, r)
      BY <1>19 DEF Emit
    <3>2. r \in Reply /\ r.id = "refused" /\ r.stale = ~fr
      BY <1>4, <1>6, <1>7 DEF Reply
    <3> HIDE DEF r
    <3> QED
      BY <3>1, <3>2
  <2>2. Refused(m)
    <3>1. ~fr = (m.stale \/ ~dev.fresh)
      BY <1>3, <1>4
    <3> QED
      BY <1>19, <2>1, <3>1 DEF Refused
  <2> QED
    BY <1>1, <1>2, <2>2 DEF m
<1>18. CASE m.id = "hostKey" /\ Emit("deviceKey", <<>>, FALSE) /\ dev' = [dev EXCEPT !.host = m.arg]
  <2>1. \A r : r.id = "deviceKey" /\ r.arg = <<>> /\ r.stale = TRUE => ReplyTo(m, r)
    BY <1>18 DEF ReplyTo
  <2>2. Carried(m)
    <3> DEFINE r == [id |-> "deviceKey", arg |-> <<>>, stale |-> TRUE]
    <3>1. toHost' = toHost \/ toHost' = Append(toHost, r)
      BY <1>18 DEF Emit
    <3>2. r \in Reply /\ r.id = "deviceKey" /\ r.arg = <<>> /\ r.stale = TRUE
      BY <1>6, <1>7 DEF Reply
    <3> HIDE DEF r
    <3> QED
      BY <2>1, <3>1, <3>2 DEF Carried
  <2>3. m.arg \in 0..1
    BY <1>1, <1>18, TailKeeps DEF LineOK, m
  <2>4. dev' \in DeviceType /\ dev'.users = dev.users /\ dev'.saved = dev.saved /\ dev'.host = m.arg /\ dev'.config = dev.config
        /\ dev'.image = dev.image
    BY <1>3, <1>18, <2>3 DEF DeviceType
  <2>5. Carries(m, dev')
    BY <1>18, <2>4 DEF Carries
  <2> QED
    BY <1>1, <1>2, <2>2, <2>5 DEF m
<1> QED
  <2>1. DeviceServe
    OBVIOUS
  <2>2. dev' = [dev EXCEPT !.saved = dev.users] => dev'.saved = dev.users
    BY <1>3 DEF DeviceType
  <2>3. CASE m.id \in {"standby", "enrollImage", "removeAll", "removeUser"}
    <3>1. \/ /\ Emit("reply", <<1>>, fr)
             /\ \/ UNCHANGED dev
                \/ m.id = "standby" /\ dev' = [dev EXCEPT !.saved = dev.users]
                \/ m.id = "removeAll" /\ dev' = [dev EXCEPT !.users = <<>>]
                \/ m.id = "removeUser" /\ dev' = [dev EXCEPT !.users = Without(@, m.arg)]
             /\ m.id = "standby" => dev' = [dev EXCEPT !.saved = dev.users]
          \/ Emit("reply", <<0>>, fr) /\ UNCHANGED dev
      BY <2>1, <2>3 DEF DeviceServe, DataIds, m
    <3> QED
      BY <1>17, <2>2, <2>3, <3>1
  <2>4. CASE m.id \notin {"standby", "enrollImage", "removeAll", "removeUser"}
    BY <2>1, <1>9, <1>10, <1>11, <1>12, <1>13, <1>14, <1>15, <1>16, <1>18, <1>19, <2>4 DEF DeviceServe, m
  <2> QED
    BY <2>3, <2>4

-----------------------------------------------------------------------------
(* The type invariant is kept.                                              *)

LEMMA EnterOK ==
    ASSUME TransferInv, NEW o \in Ops, Enter(o)
    PROVE  TransferInv'
<1>1. o \in Operations /\ op' = o /\ phase' = FirstPhase(o) /\ item' = 0
      /\ result' = <<>> /\ well' = TRUE /\ bad' = "Ok" /\ UNCHANGED <<synced, toDev, toHost, dev, reboots>>
  BY ConstantFacts DEF Enter
<1>2. num' \in Nat /\ (o = "Ids" => num' = Asked)
  BY ConstantFacts DEF Enter
<1>3. \/ o = "Ids" /\ Asked = 0 /\ pc' = "idle" /\ ret' = "Error"
      \/ ~(o = "Ids" /\ Asked = 0) /\ pc' = (IF o \in KeyOps THEN "send" ELSE "start") /\ ret' = "None"
  BY DEF Enter
<1>4. CallOK'
  BY <1>1, <1>2, <1>3, ConstantFacts
     DEF CallOK, PhaseKnown, FirstPhase, Opens, Operations, KeyOps, Removals, Phases, Statuses
<1>5. FlagsOK' /\ LineOK'
  BY <1>1 DEF TransferInv, FlagsOK, LineOK
<1> QED
  BY <1>4, <1>5 DEF TransferInv

LEMMA OpenedCall ==
    ASSUME CallOK, pc = "startReply", Opened
    PROVE  CallOK' /\ well' = well
<1> USE DEF CallOK, PhaseKnown, Opens, Statuses, Phases, callVars, dataVars
<1>1. CASE phase # "open"
  BY <1>1 DEF Opened
<1>2. CASE phase = "open" /\ op = "Get"
  BY <1>2 DEF Opened, Goto
<1>3. CASE phase = "open" /\ op # "Get"
  <2>1. op = "Set"
    BY <1>3 DEF Operations
  <2> QED
    BY <1>3, <2>1, ConstantFacts DEF Opened, NextSet, Goto, KeyOps
<1> QED
  BY <1>1, <1>2, <1>3

LEMMA FailedFlag ==
    ASSUME CallOK, FlagsOK, pc # "idle", NEW status \in {"Error", "Thrown"}, Failed(status)
    PROVE  well' \in BOOLEAN
BY FailedIs DEF FlagsOK

LEMMA StartSendOK ==
    ASSUME TransferInv, StartSend
    PROVE  TransferInv'
<1>1. /\ toDev \in Seq(Message) /\ toHost \in Seq(Reply) /\ Keyed(toDev) /\ Shaped(toHost)
      /\ dev \in DeviceType /\ reboots \in 0..MaxReboots
  BY DEF TransferInv, LineOK, DeviceType
<1>2. /\ Stale(toDev, 0) \in Seq(Message) /\ Keyed(Stale(toDev, 0))
      /\ Stale(toHost, <<>>) \in Seq(Reply) /\ Shaped(Stale(toHost, <<>>))
  BY <1>1, StaleMessages, StaleReplies
<1>3. pc = "start" /\ toHost' = Stale(toHost, <<>>) /\ synced' = FALSE /\ reboots' = reboots
  BY DEF StartSend
<1>4. dev' \in DeviceType
  BY <1>1 DEF StartSend, DeviceType
<1> DEFINE m == [id |-> "start", arg |-> 0, stale |-> FALSE]
<1>5. m \in Message /\ m.id = "start"
  BY DEF Message
<1>6. CASE /\ toDev' = Append(Stale(toDev, 0), m) /\ pc' = "startReply"
           /\ UNCHANGED <<callVars, dataVars, ret>>
  <2> HIDE DEF m
  <2>1. toDev' \in Seq(Message) /\ Keyed(toDev')
    BY <1>2, <1>5, <1>6, AppendFacts, AppendKeeps
  <2>2. LineOK'
    BY <1>1, <1>2, <1>3, <1>4, <2>1 DEF LineOK, DeviceType
  <2>3. CallOK'
    BY <1>3, <1>6 DEF TransferInv, CallOK, PhaseKnown, Opens, callVars, dataVars
  <2>4. FlagsOK'
    BY <1>3, <1>6 DEF TransferInv, FlagsOK, callVars, dataVars
  <2> QED
    BY <2>2, <2>3, <2>4 DEF TransferInv
<1>7. CASE \E status \in {"Error", "Thrown"} : Failed(status) /\ toDev' = Stale(toDev, 0)
  <2>1. LineOK'
    BY <1>1, <1>2, <1>3, <1>4, <1>7 DEF LineOK, DeviceType
  <2>2. PICK status \in {"Error", "Thrown"} : Failed(status)
    BY <1>7
  <2>3. CallOK' /\ well' \in BOOLEAN
    BY <1>3, <2>2, FailedCall, FailedFlag DEF TransferInv
  <2> QED
    BY <1>3, <2>1, <2>3 DEF TransferInv, FlagsOK
<1> QED
  BY <1>6, <1>7 DEF StartSend

\* The host takes a packet from the line, or none.
LEMMA ReadKeepsLine ==
    ASSUME LineOK, toHost' = toHost \/ (toHost # <<>> /\ toHost' = Tail(toHost)),
           UNCHANGED <<toDev, dev, reboots>>
    PROVE  LineOK'
<1>1. toHost \in Seq(Reply) /\ Shaped(toHost)
  BY DEF LineOK
<1>2. toHost' \in Seq(Reply) /\ Shaped(toHost')
  BY <1>1, TailFacts, TailKeeps
<1> QED
  BY <1>2 DEF LineOK

LEMMA StartReplyOK ==
    ASSUME TransferInv, StartReply
    PROVE  TransferInv'
<1>1. LineOK'
  BY ReadKeepsLine DEF StartReply, TransferInv
<1>2. synced' \in BOOLEAN
  BY DEF StartReply
<1>3. CASE Opened
  BY <1>1, <1>2, <1>3, OpenedCall DEF StartReply, TransferInv, FlagsOK
<1>4. CASE Failed("Error")
  BY <1>1, <1>2, <1>4, FailedCall, FailedFlag DEF StartReply, TransferInv, FlagsOK
<1> QED
  BY <1>3, <1>4 DEF StartReply

LEMMA GaveUpOK ==
    ASSUME TransferInv, StartTimeout \/ RecvTimeout \/ RecvRefused
    PROVE  TransferInv'
<1>1. LineOK'
  BY ReadKeepsLine DEF StartTimeout, RecvTimeout, RecvRefused, TransferInv
<1>2. pc # "idle" /\ Failed("Error") /\ synced' = synced
  BY DEF StartTimeout, RecvTimeout, RecvRefused
<1> QED
  BY <1>1, <1>2, FailedCall, FailedFlag DEF TransferInv, FlagsOK

\* The request of an exchange is a message of its operation.
LEMMA RequestIs ==
    ASSUME CallOK, pc \in {"send", "recv"}
    PROVE  /\ Request \in Message /\ ~Request.stale
           /\ Request.id = "hostKey" => Request.arg \in 0..1
           /\ op \notin KeyOps => Request.id \in Requests /\ Request.id \notin {"start", "hostKey"}
           /\ op \in KeyOps => Request = KeyRequest
           /\ Request.id = "start" => FALSE
<1> USE DEF Requests, Message, DataIds
<1>1. op \in Operations /\ PhaseKnown /\ phase # "open" /\ item \in Nat /\ num \in Nat /\ result \in Seq(Nat)
  BY DEF CallOK, PhaseKnown
<1>2. CASE op = "Get"
  BY <1>1, <1>2 DEF Request, PhaseKnown, KeyOps
<1>3. CASE op = "Set"
  <2>1. CASE phase = "item"
    <3>1. Import[item + 1] \in Nat
      BY <1>1, <1>3, <2>1, ConstantFacts DEF PhaseKnown
    <3> QED
      BY <1>3, <2>1, <3>1 DEF Request, KeyOps
  <2>2. CASE phase = "final"
    BY <1>3, <2>2 DEF Request, KeyOps
  <2> QED
    BY <1>1, <1>3, <2>1, <2>2 DEF PhaseKnown
<1>4. CASE op = "Ids"
  BY <1>1, <1>4 DEF Request, PhaseKnown, KeyOps
<1>5. CASE op = "Config"
  BY <1>1, <1>5 DEF Request, PhaseKnown, KeyOps
<1>6. CASE op = "Image"
  BY <1>1, <1>6 DEF Request, PhaseKnown, KeyOps
<1>7. CASE op \in Removals
  <2>1. CASE op = "RemoveAll"
    BY <2>1 DEF Request, KeyOps
  <2>2. CASE op = "RemoveUser"
    <3>1. Request = [id |-> "removeUser", arg |-> Removed, stale |-> FALSE]
      BY <2>2 DEF Request, KeyOps
    <3> QED
      BY <2>2, <3>1, ConstantFacts DEF KeyOps
  <2> QED
    BY <1>7, <2>1, <2>2 DEF Removals
<1>8. CASE op \in KeyOps
  <2>1. Request = KeyRequest
    BY <1>8 DEF Request, KeyOps
  <2>2. /\ KeyRequest \in Message /\ ~KeyRequest.stale /\ KeyRequest.id = "hostKey"
        /\ KeyRequest.arg \in 0..1
    BY DEF KeyRequest
  <2> QED
    BY <1>8, <2>1, <2>2
<1> QED
  BY <1>1, <1>2, <1>3, <1>4, <1>5, <1>6, <1>7, <1>8 DEF Operations

LEMMA SendOK ==
    ASSUME TransferInv, Send
    PROVE  TransferInv'
<1>1. pc = "send" /\ UNCHANGED <<synced, toHost, dev, reboots>>
  BY DEF Send
<1>2. CASE /\ toDev' = Append(toDev, Request) \/ toDev' = toDev
           /\ pc' = "recv" /\ UNCHANGED <<callVars, dataVars, ret>>
  <2>1. toDev' \in Seq(Message) /\ Keyed(toDev')
    <3>1. Request \in Message /\ (Request.id = "hostKey" => Request.arg \in 0..1)
      BY <1>1, RequestIs DEF TransferInv
    <3>2. toDev \in Seq(Message) /\ Keyed(toDev)
      BY DEF TransferInv, LineOK
    <3> HIDE DEF Request
    <3>3. Append(toDev, Request) \in Seq(Message) /\ Keyed(Append(toDev, Request))
      BY <3>1, <3>2, AppendFacts, AppendKeeps
    <3> QED
      BY <1>2, <3>2, <3>3
  <2>2. LineOK'
    BY <1>1, <2>1 DEF TransferInv, LineOK
  <2>3. CallOK'
    BY <1>1, <1>2 DEF TransferInv, CallOK, PhaseKnown, callVars, dataVars
  <2> QED
    BY <1>1, <1>2, <2>2, <2>3 DEF TransferInv, FlagsOK, dataVars
<1>3. CASE Failed("Error") /\ UNCHANGED toDev
  <2>1. LineOK'
    BY <1>1, <1>3 DEF TransferInv, LineOK
  <2> QED
    BY <1>1, <1>3, <2>1, FailedCall, FailedFlag DEF TransferInv, FlagsOK
<1>4. CASE op = "Set" /\ phase = "item" /\ Return("Error") /\ UNCHANGED <<toDev, dataVars>>
  <2>1. LineOK'
    BY <1>1, <1>4 DEF TransferInv, LineOK
  <2>2. CallOK'
    BY <1>1, <1>4 DEF TransferInv, CallOK, PhaseKnown, Return, callVars, dataVars, Statuses
  <2> QED
    BY <1>1, <1>4, <2>1, <2>2 DEF TransferInv, FlagsOK, dataVars
<1>5. CASE GetThrown /\ UNCHANGED toDev
  <2>1. LineOK'
    BY <1>1, <1>5 DEF TransferInv, LineOK
  <2>2. ThrownIs(bad')
    BY <1>5 DEF GetThrown, ThrownIs, NextGet, Goto, Opens, Return, callVars
  <2>3. CallOK' /\ well' = FALSE
    BY <1>1, <2>2, ThrownCall DEF TransferInv, ThrownIs
  <2> QED
    BY <1>1, <2>1, <2>3 DEF TransferInv, FlagsOK
<1> QED
  BY <1>1, <1>2, <1>3, <1>4, <1>5 DEF Send

LEMMA RecvOK ==
    ASSUME TransferInv, Recv
    PROVE  TransferInv'
<1> USE DEF callVars, dataVars, Return
<1> DEFINE p == Head(toHost)
<1>1. pc = "recv" /\ toHost # <<>> /\ toHost' = Tail(toHost) /\ UNCHANGED <<synced, toDev, dev, reboots>>
  BY DEF Recv
<1>2. p \in Reply /\ p.arg \in Seq(Nat) /\ (p.id \in {"count", "features"} => Len(p.arg) = 1)
  <2>1. toHost \in Seq(Reply) /\ Shaped(toHost)
    BY DEF TransferInv, LineOK
  <2>2. p \in Reply /\ p = toHost[1] /\ 1 \in 1..Len(toHost)
    BY <1>1, <2>1, TailFacts
  <2> HIDE DEF p
  <2> QED
    BY <2>1, <2>2 DEF Reply, Shaped
<1>3. LineOK'
  BY <1>1, ReadKeepsLine DEF TransferInv
<1>4. CallOK /\ PhaseKnown /\ item \in Nat /\ num \in Nat /\ result \in Seq(Nat) /\ well \in BOOLEAN
      /\ bad \in {"Ok", "Error"} /\ op \in Operations /\ ret \in Statuses
  BY DEF TransferInv, CallOK, FlagsOK
<1> HIDE DEF p
<1>13. well' \in BOOLEAN
  <2>1. well' = well \/ well' = FALSE \/ well' = (well /\ p.id = "set")
    BY <1>1 DEF Recv, p, KeyReply, GetCount, GetUser, SetUser, SetEnd, IdsChunk, IdsFailed, ConfigReply,
                ImageReply, RemoveReply
  <2> QED
    BY <1>4, <2>1
<1> SUFFICES CallOK'
  BY <1>1, <1>3, <1>13 DEF TransferInv, FlagsOK
<1>5. CASE KeyReply(p)
  BY <1>1, <1>4, <1>5 DEF KeyReply, CallOK, PhaseKnown, Statuses
<1>6. CASE GetCount(p)
  <2>1. num' \in Nat /\ op = "Get" /\ phase = "count"
    BY <1>2, <1>6 DEF GetCount
  <2>2. result' \in Seq(Nat) /\ Len(result') = num' /\ well' = well /\ bad' = bad
    BY <1>6, <2>1 DEF GetCount
  <2>3. NextGet(0, well, bad)
    BY <1>6 DEF GetCount
  <2>4. CASE num' > 0
    BY <1>1, <1>4, <2>1, <2>2, <2>3, <2>4
       DEF NextGet, Goto, Opens, CallOK, PhaseKnown, Phases, Operations, KeyOps
  <2>5. CASE ~(num' > 0)
    BY <1>1, <1>4, <2>1, <2>2, <2>3, <2>5 DEF NextGet, CallOK, PhaseKnown, Statuses
  <2> QED
    BY <2>1, <2>4, <2>5
<1>7. CASE GetUser(p)
  <2>1. op = "Get" /\ phase = "item" /\ num' = num /\ Len(result) = num /\ item < num
    BY <1>1, <1>4, <1>7 DEF GetUser, PhaseKnown
  <2>2. result' \in Seq(Nat) /\ Len(result') = num /\ bad' \in {"Ok", "Error"}
    <3>1. CASE p.id = "features"
      <4>1. result' = [result EXCEPT ![item + 1] = p.arg[1]] /\ bad' = bad
        BY <1>7, <3>1 DEF GetUser
      <4>2. p.arg[1] \in Nat /\ item + 1 \in 1..Len(result)
        BY <1>2, <1>4, <2>1, <3>1
      <4> QED
        BY <1>4, <2>1, <4>1, <4>2
    <3>2. CASE p.id # "features"
      BY <1>4, <1>7, <2>1, <3>2 DEF GetUser
    <3> QED
      BY <3>1, <3>2
  <2>3. NextGet(item + 1, well', bad')
    BY <1>7 DEF GetUser
  <2>4. CASE item + 1 < num
    BY <1>1, <1>4, <2>1, <2>2, <2>3, <2>4
       DEF NextGet, Goto, Opens, CallOK, PhaseKnown, Phases, Operations, KeyOps
  <2>5. CASE ~(item + 1 < num)
    BY <1>1, <1>4, <2>1, <2>2, <2>3, <2>5 DEF NextGet, CallOK, PhaseKnown, Statuses
  <2> QED
    BY <2>4, <2>5
<1>8. CASE SetUser(p)
  <2>1. op = "Set" /\ phase = "item" /\ UNCHANGED <<num, result, bad>> /\ NextSet(item + 1)
    BY <1>8 DEF SetUser
  <2> QED
    BY <1>1, <1>4, <2>1, ConstantFacts
       DEF NextSet, Goto, Opens, CallOK, PhaseKnown, Phases, Operations, KeyOps
<1>9. CASE SetEnd(p) \/ RemoveReply(p)
  BY <1>1, <1>4, <1>9 DEF SetEnd, RemoveReply, CallOK, PhaseKnown, Statuses
<1>10. CASE IdsChunk(p)
  <2>1. op = "Ids" /\ phase = "item" /\ num = Asked /\ Len(result) = item /\ item < num
    BY <1>1, <1>4, <1>10 DEF IdsChunk, PhaseKnown
  <2>2. CASE IdsFailed
    BY <1>1, <1>4, <2>1, <2>2 DEF IdsFailed, CallOK, PhaseKnown, Statuses
  <2>3. CASE ~IdsFailed
    <3> DEFINE n == Shorter(Len(p.arg), num - Len(result))
    <3>1. n \in Nat /\ n <= Len(p.arg) /\ (item + Len(p.arg) < num => n = Len(p.arg))
      BY <1>2, <1>4, <2>1 DEF Shorter
    <3>2. result' = result \o SubSeq(p.arg, 1, n)
      BY <1>10, <2>3 DEF IdsChunk
    <3>6. well' = well /\ bad' = bad
      BY <1>10, <2>3 DEF IdsChunk
    <3> HIDE DEF n
    <3>3. result' \in Seq(Nat) /\ Len(result') = item + n
      <4>1. SubSeq(p.arg, 1, n) \in Seq(Nat) /\ Len(SubSeq(p.arg, 1, n)) = n
        BY <1>2, <3>1, PrefixFacts, Zenon
      <4> QED
        <5> DEFINE a == SubSeq(p.arg, 1, n)
                   b == result \o a
        <5>1. b \in Seq(Nat) /\ Len(b) = Len(result) + Len(a)
          BY <1>4, <4>1, ConcatFacts, Zenon
        <5>2. result' = b /\ Len(a) = n
          BY <3>2, <4>1
        <5> HIDE DEF a, b
        <5> QED
          BY <1>4, <2>1, <3>1, <5>1, <5>2
    <3>4. CASE item + Len(p.arg) < num /\ Goto("item", item + Len(p.arg)) /\ num' = num
      <4>1. Len(p.arg) \in Nat /\ n = Len(p.arg)
        BY <1>2, <3>1, <3>4
      <4>2. item' = item + n /\ item + n < num /\ phase' = "item" /\ op' = op /\ ret' = ret /\ pc' = "start"
        BY <2>1, <3>4, <4>1 DEF Goto, Opens
      <4> QED
        BY <1>4, <2>1, <3>1, <3>3, <3>4, <3>6, <4>2 DEF Opens, CallOK, PhaseKnown, Phases, KeyOps
    <3>5. CASE Return("Ok") /\ num' = Len(result')
      BY <1>1, <1>4, <2>1, <3>1, <3>3, <3>5, <3>6 DEF CallOK, PhaseKnown, Statuses
    <3> QED
      BY <1>10, <2>3, <3>4, <3>5 DEF IdsChunk
  <2>4. well' = well
    BY <1>10 DEF IdsChunk, IdsFailed
  <2> QED
    BY <2>2, <2>3
<1>11. CASE ConfigReply(p)
  BY <1>1, <1>4, <1>11 DEF ConfigReply, Goto, Opens, CallOK, PhaseKnown, Phases, Statuses, KeyOps
<1>12. CASE ImageReply(p)
  <2>1. CASE phase = "final"
    BY <1>1, <1>4, <1>12, <2>1 DEF ImageReply, CallOK, PhaseKnown, Statuses
  <2>2. CASE phase # "final"
    <3>1. op = "Image" /\ phase = "item" /\ item < Chunks /\ UNCHANGED <<num, result, well, bad>>
      BY <1>1, <1>4, <1>12, <2>2 DEF ImageReply, PhaseKnown
    <3>2. \/ item + 1 < Chunks /\ Goto("item", item + 1)
          \/ Goto("final", 0)
      BY <1>12, <2>2 DEF ImageReply
    <3> QED
      BY <1>1, <1>4, <3>1, <3>2 DEF Goto, Opens, CallOK, PhaseKnown, Phases, KeyOps
  <2> QED
    BY <2>1, <2>2
<1> QED
  BY <1>1, <1>5, <1>6, <1>7, <1>8, <1>9, <1>10, <1>11, <1>12 DEF Recv, p

LEMMA ReplyAppended ==
    ASSUME toHost \in Seq(Reply), Shaped(toHost), NEW r \in Reply, toHost' = Append(toHost, r),
           r.id \in {"count", "features"} => Len(r.arg) = 1
    PROVE  toHost' \in Seq(Reply) /\ Shaped(toHost')
<1>1. Append(toHost, r) \in Seq(Reply)
  BY AppendFacts, Zenon
<1>2. Shaped(Append(toHost, r))
  BY AppendKeeps, Zenon
<1> QED
  BY <1>1, <1>2, Zenon

LEMMA DeviceOK ==
    ASSUME TransferInv, DeviceStart \/ DeviceDrop \/ DeviceServe \/ Reboot
    PROVE  TransferInv'
<1>1. /\ toDev \in Seq(Message) /\ toHost \in Seq(Reply) /\ Keyed(toDev) /\ Shaped(toHost)
      /\ dev \in DeviceType /\ reboots \in 0..MaxReboots
  BY DEF TransferInv, LineOK, DeviceType
<1>2. UNCHANGED <<pc, op, phase, item, num, result, well, bad, ret, synced>>
  BY DEF DeviceStart, DeviceDrop, DeviceServe, Reboot, callVars, dataVars
<1>3. CallOK' /\ FlagsOK'
  BY <1>2 DEF TransferInv, CallOK, PhaseKnown, FlagsOK
<1>4. ASSUME toDev # <<>>, toDev' = Tail(toDev)
      PROVE  toDev' \in Seq(Message) /\ Keyed(toDev') /\ Head(toDev) \in Message
  BY <1>1, <1>4, TailFacts, TailKeeps
<1>5. CASE DeviceStart
  <2> DEFINE fresh == ~Head(toDev).stale
  <2>1. toDev # <<>> /\ toDev' = Tail(toDev) /\ reboots' = reboots
    BY <1>5 DEF DeviceStart
  <2>2. fresh \in BOOLEAN
    OBVIOUS
  <2>3. \/ dev' = dev /\ toHost' = toHost
        \/ dev' = [dev EXCEPT !.fresh = fresh] /\ Emit("start", <<>>, fresh)
    BY <1>5 DEF DeviceStart
  <2> HIDE DEF fresh
  <2>4. dev' \in DeviceType
    BY <1>1, <2>2, <2>3 DEF DeviceType
  <2>5. toHost' \in Seq(Reply) /\ Shaped(toHost')
    <3>1. "start" \in Ids /\ <<>> \in Seq(Nat)
      BY DEF Ids
    <3>2. CASE toHost' = toHost
      BY <1>1, <3>2
    <3>3. CASE Emit("start", <<>>, fresh)
      <4> DEFINE r == [id |-> "start", arg |-> <<>>, stale |-> ~fresh]
      <4>1. r \in Reply /\ r.id = "start"
        BY <2>2, <3>1 DEF Reply
      <4>2. toHost' = toHost \/ toHost' = Append(toHost, r)
        BY <3>3 DEF Emit
      <4> HIDE DEF r
      <4> QED
        BY <1>1, <4>1, <4>2, ReplyAppended
    <3> QED
      BY <2>3, <3>2, <3>3
  <2> QED
    BY <1>1, <1>3, <1>4, <2>1, <2>4, <2>5 DEF TransferInv, LineOK, DeviceType
<1>6. CASE DeviceDrop
  BY <1>1, <1>3, <1>4, <1>6 DEF DeviceDrop, TransferInv, LineOK, DeviceType
<1>7. CASE DeviceServe
  <2>1. /\ toDev # <<>> /\ toDev' = Tail(toDev) /\ reboots' = reboots
        /\ Carried(Head(toDev)) \/ Refused(Head(toDev))
        /\ dev' \in DeviceType
    BY <1>1, <1>7, ServeIs DEF TransferInv, Carries, Refused
  <2>2. toHost' \in Seq(Reply) /\ Shaped(toHost')
    <3>1. \/ toHost' = toHost
          \/ \E r \in Reply : /\ toHost' = Append(toHost, r)
                              /\ r.id \in {"count", "features"} => Len(r.arg) = 1
      BY <2>1 DEF Carried, ReplyTo, Refused
    <3> QED
      BY <1>1, <3>1, ReplyAppended
  <2> QED
    BY <1>1, <1>3, <1>4, <2>1, <2>2 DEF TransferInv, LineOK, DeviceType
<1>8. CASE Reboot
  <2>1. /\ \E kept \in {dev.saved, dev.users} :
              dev' = [dev EXCEPT !.fresh = FALSE, !.image = <<>>, !.users = kept, !.saved = kept]
        /\ toDev' = <<>> /\ toHost' = toHost
        /\ reboots < MaxReboots /\ reboots' = reboots + 1
    BY <1>8 DEF Reboot
  <2>2. dev' \in DeviceType
    <3>1. <<>> \in Seq(Nat)
      OBVIOUS
    <3> QED
      BY <1>1, <2>1, <3>1 DEF DeviceType
  <2>3. toDev' \in Seq(Message) /\ Keyed(toDev') /\ reboots' \in 0..MaxReboots
    <3>1. reboots' \in 0..MaxReboots
      <4>1. reboots \in 0..MaxReboots /\ MaxReboots \in Nat /\ reboots < MaxReboots /\ reboots' = reboots + 1
        BY <1>1, <2>1, ConstantFacts
      <4> QED
        BY ONLY <4>1
    <3>2. toDev' = <<>>
      BY <2>1
    <3> QED
      BY <3>1, <3>2 DEF Keyed
  <2> QED
    BY <1>1, <1>3, <2>1, <2>2, <2>3 DEF TransferInv, LineOK, DeviceType
<1> QED
  BY <1>5, <1>6, <1>7, <1>8

LEMMA InvInit == Init => TransferInv
<1> SUFFICES ASSUME Init PROVE TransferInv
  OBVIOUS
<1>1. CallOK
  <2>1. <<>> \in Seq(Nat) /\ op = "Get" /\ phase = "open" /\ pc = "idle"
    BY DEF Init
  <2>2. well
    BY DEF Init
  <2>3. PhaseKnown
    BY <2>1, <2>2 DEF PhaseKnown, KeyOps, Removals
  <2> QED
    BY <2>1, <2>3, ConstantFacts DEF Init, CallOK, Operations, Phases, Statuses
<1>2. FlagsOK
  BY DEF Init, FlagsOK
<1>3. dev \in [fresh : BOOLEAN, host : 0..1, users : Seq(Nat), saved : Seq(Nat), config : Nat,
               image : Seq(Nat)]
  BY ConstantFacts DEF Init
<1>4. LineOK
  BY <1>3, ConstantFacts DEF Init, LineOK, Keyed, Shaped
<1> QED
  BY <1>1, <1>2, <1>4 DEF TransferInv

LEMMA HistoryKept ==
    ASSUME \/ StartSend \/ StartReply \/ StartTimeout \/ Send \/ RecvTimeout \/ RecvRefused \/ Recv
           \/ DeviceStart \/ DeviceDrop \/ DeviceServe
    PROVE  UNCHANGED <<calm, clear>>
BY DEF history, StartSend, StartReply, StartTimeout, Send, RecvTimeout, RecvRefused, Recv, DeviceStart,
       DeviceDrop, DeviceServe

LEMMA InvStep == TransferInv /\ [Next]_vars => TransferInv'
<1> SUFFICES ASSUME TransferInv, [Next]_vars PROVE TransferInv'
  OBVIOUS
<1>1. ASSUME NEW o \in Ops, Enter(o) PROVE TransferInv'
  BY <1>1, EnterOK
<1>2. CASE StartSend
  BY <1>2, StartSendOK
<1>3. CASE StartReply
  BY <1>3, StartReplyOK
<1>4. CASE StartTimeout \/ RecvTimeout \/ RecvRefused
  BY <1>4, GaveUpOK
<1>5. CASE Send
  BY <1>5, SendOK
<1>6. CASE Recv
  BY <1>6, RecvOK
<1>7. CASE DeviceStart \/ DeviceDrop \/ DeviceServe \/ Reboot
  BY <1>7, DeviceOK
<1>8. CASE UNCHANGED vars
  BY <1>8 DEF vars, callVars, dataVars, TransferInv, CallOK, PhaseKnown, FlagsOK, LineOK
<1> QED
  BY <1>1, <1>2, <1>3, <1>4, <1>5, <1>6, <1>7, <1>8 DEF Next

\* The state of a call and of the line is of the declared type: no number of users is negative, no
\* loop leaves its array (GetUsersFaceprints, SetUsersFaceprints, QueryUserIds, EnrollImage).
THEOREM TypeCorrect == Spec => []TypeOK
<1>1. TransferInv /\ HistoryOK => TypeOK
  BY DEF TransferInv, CallOK, FlagsOK, LineOK, HistoryOK, TypeOK
<1>2. Init => HistoryOK
  BY DEF Init, HistoryOK
<1>3. HistoryOK /\ [Next]_vars => HistoryOK'
  <2>1. ASSUME HistoryOK, NEW o \in Ops, Enter(o) PROVE HistoryOK'
    BY <2>1 DEF Enter, HistoryOK
  <2>2. ASSUME HistoryOK, Reboot PROVE HistoryOK'
    BY <2>2 DEF Reboot, HistoryOK
  <2>3. ASSUME HistoryOK, UNCHANGED <<calm, clear>> PROVE HistoryOK'
    BY <2>3 DEF HistoryOK
  <2>4. UNCHANGED vars => UNCHANGED <<calm, clear>>
    BY DEF vars, history
  <2> QED
    BY <2>1, <2>2, <2>3, <2>4, HistoryKept DEF Next
<1> QED
  BY <1>1, <1>2, <1>3, InvInit, InvStep, PTL DEF Spec

-----------------------------------------------------------------------------
(* What is known of the line in the secure build.                           *)

LEMMA FreshInMore ==
    ASSUME NEW s, NEW A, NEW B, FreshIn(s, A), A \subseteq B
    PROVE  FreshIn(s, B)
BY DEF FreshIn

LEMMA OnlyIsFreshIn ==
    ASSUME NEW s, NEW m, HasOnly(s, m)
    PROVE  FreshIn(s, {m.id})
BY DEF HasOnly, FreshIn

LEMMA StartingFresh ==
    ASSUME pc = "startReply", Starting
    PROVE  FreshIn(toDev, {"start"})
<1> DEFINE m == [id |-> "start", arg |-> 0, stale |-> FALSE]
<1>1. AllStale(toDev) \/ HasOnly(toDev, m)
  BY DEF Starting, Quiet
<1>2. m.id = "start"
  OBVIOUS
<1> HIDE DEF m
<1>3. CASE AllStale(toDev)
  BY <1>3, StaleIsFreshIn
<1>4. CASE HasOnly(toDev, m)
  BY <1>2, <1>4, OnlyIsFreshIn
<1> QED
  BY <1>1, <1>3, <1>4

\* An operation that ended without Ok leaves nothing to be known.
LEMMA EndedWithoutOk ==
    ASSUME pc' = "idle", ret' # "Ok"
    PROVE  SecureInv'
<1>1. Starting' /\ OwnRequests'
  BY DEF Starting, OwnRequests
<1>2. Flow'
  BY DEF Flow
<1>3. GetKnown' /\ IdsKnown' /\ SetKnown' /\ ImageKnown'
  BY DEF GetKnown, IdsKnown, SetKnown, ImageKnown
<1>4. ConfigKnown'
  BY DEF ConfigKnown
<1> QED
  BY <1>1, <1>2, <1>3, <1>4 DEF SecureInv

LEMMA EnterSafe ==
    ASSUME TransferInv, NEW o \in Ops, Enter(o)
    PROVE  SecureInv'
<1>1. /\ op' = o /\ phase' = FirstPhase(o) /\ item' = 0
      /\ \/ pc' = "idle" /\ ret' = "Error"
         \/ pc' = (IF o \in KeyOps THEN "send" ELSE "start") /\ ret' = "None"
  BY DEF Enter
<1>2. CASE pc' = "idle" /\ ret' = "Error"
  BY <1>2, EndedWithoutOk
<1>3. CASE pc' = (IF o \in KeyOps THEN "send" ELSE "start") /\ ret' = "None"
  <2>9. /\ op' = o /\ item' = 0 /\ ret' = "None" /\ o \in Operations
        /\ \/ o \in KeyOps /\ pc' = "send"
           \/ o \notin KeyOps /\ pc' = "start"
    BY <1>1, <1>3, ConstantFacts
  <2>10. /\ o \in {"Get", "Set"} => phase' = "open"
         /\ o = "Config" => phase' = "count"
         /\ o \in {"Ids", "Image"} => phase' = "item"
    BY <1>1 DEF FirstPhase, KeyOps, Removals
  <2>11. \A x \in KeyOps : x \notin {"Get", "Set", "Ids", "Config", "Image"}
    BY DEF KeyOps
  <2> USE <2>9, <2>10, <2>11
  <2>1. Starting'
    BY DEF Starting
  <2>2. OwnRequests'
    BY DEF OwnRequests
  <2>3. Flow'
    BY DEF Flow, Midway
  <2>4. GetKnown'
    BY DEF GetKnown
  <2>5. IdsKnown'
    <3>1. Len(dev'.users) \in Nat
      BY DEF Enter, TransferInv, LineOK
    <3> QED
      BY <3>1 DEF IdsKnown
  <2>6. SetKnown'
    BY DEF SetKnown
  <2>7. ImageKnown'
    BY DEF ImageKnown, ImageSoFar
  <2>8. ConfigKnown'
    BY DEF ConfigKnown
  <2> QED
    BY <2>1, <2>2, <2>3, <2>4, <2>5, <2>6, <2>7, <2>8 DEF SecureInv
<1> QED
  BY <1>1, <1>2, <1>3

\* GetUsersFaceprints passes over a user, for whatever reason.
LEMMA PassedOverSafe ==
    ASSUME TransferInv, SecureInv, pc \in {"send", "recv"}, NEW status, ThrownIs(status),
           dev' = dev, toDev' = toDev, Within(toHost', toHost), synced' = synced, calm' = calm
    PROVE  SecureInv'
<1>1. /\ OwnRequests /\ GetKnown /\ item \in Nat /\ op = "Get" /\ op' = "Get" /\ phase = "item" /\ op \notin KeyOps
      /\ toDev \in Seq(Message) /\ num \in Nat
      /\ \/ pc' = "send" /\ phase' = "item" /\ item' = item + 1
         \/ pc' = "idle" /\ phase' = "item" /\ item' = item
  BY DEF TransferInv, CallOK, LineOK, SecureInv, ThrownIs, KeyOps
<1>2. OwnRequests'
  <2>1. FreshIn(toDev', {"start"} \cup Requests)
    BY <1>1 DEF OwnRequests
  <2>2. Requests' = Requests
    BY <1>1 DEF Requests
  <2> QED
    BY <1>1, <2>1, <2>2 DEF OwnRequests
<1>3. Starting' /\ IdsKnown' /\ SetKnown' /\ ImageKnown' /\ ConfigKnown'
  BY <1>1 DEF Starting, IdsKnown, SetKnown, ImageKnown, ConfigKnown
<1>4. Flow'
  BY <1>1 DEF Flow, ThrownIs
<1>5. GetKnown'
  <2>1. /\ synced /\ FreshIn(toDev, {"features"}) /\ FreshIn(toHost, {"features", "refused"}) /\ AskedSoFar(toDev)
        /\ calm => /\ num <= Len(dev.users) /\ SentSoFar(toHost)
                   /\ \A k \in 1..num : result[k] = 0 \/ Lags(k, result[k])
    BY <1>1 DEF GetKnown
  <2>2. FreshIn(toDev', {"features"}) /\ FreshIn(toHost', {"features", "refused"}) /\ synced'
    BY <2>1, WithinKeeps
  <2>3. AskedSoFar(toDev)'
    <3>1. \A i \in 1..Len(toDev) : toDev[i].arg \in Nat
      <4>1. \A i \in 1..Len(toDev) : toDev[i] \in Message
        BY DEF TransferInv, LineOK
      <4> QED
        BY <4>1 DEF Message
    <3> QED
      BY <1>1, <2>1, <3>1 DEF AskedSoFar
  <2>4. SentSoFar(toHost) => SentSoFar(toHost)'
    <3>1. \A f : Lags(item + 1, f) => Lags(item + 1, f)'
      BY <1>1 DEF Lags
    <3> QED
      BY <3>1 DEF SentSoFar, Within
  <2>5. \A k \in 1..num : Lags(k, result[k]) => Lags(k, result[k])'
    BY DEF Lags, ThrownIs
  <2>6. well' = FALSE /\ num' = num /\ result' = result
    BY DEF ThrownIs
  <2> QED
    BY <1>1, <2>1, <2>2, <2>3, <2>4, <2>5, <2>6 DEF GetKnown
<1> QED
  BY <1>2, <1>3, <1>4, <1>5 DEF SecureInv

\* An exchange that failed: QueryNumberOfUsers leaves 0 users, GetUsersFaceprints and SetUsersFace-
\* prints remember the failure and go on, everything else ends.
LEMMA FailureSafe ==
    ASSUME TransferInv, SecureInv, pc # "idle", NEW status \in {"Error", "Thrown"}, Failed(status),
           pc = "start" => AllStale(toDev'),
           pc # "start" => toDev' = toDev /\ dev' = dev /\ Within(toHost', toHost),
           dev'.users = dev.users, calm' = calm,
           pc \in {"send", "recv"} => synced' = synced
    PROVE  SecureInv'
<1>1. PhaseKnown /\ CallOK /\ Starting /\ OwnRequests /\ GetKnown /\ SetKnown
  BY DEF TransferInv, CallOK, SecureInv
<1>2. Len(dev.users) \in Nat
  BY DEF TransferInv, LineOK
<1>3. CASE pc' = "idle" /\ ret' # "Ok"
  BY <1>3, EndedWithoutOk
<1>4. CASE /\ op = "Get" /\ phase = "count" /\ pc' = "idle" /\ num' = 0
           /\ ret' = (IF well THEN "Ok" ELSE bad)
           /\ UNCHANGED <<op, phase, item, result, well, bad>>
  <2>1. FreshIn(toDev', {"start"} \cup {"count", "features"})
    <3>1. CASE pc = "start"
      BY <3>1, StaleIsFreshIn
    <3>2. CASE pc = "startReply"
      <4>1. FreshIn(toDev', {"start"})
        BY <1>1, <3>2, StartingFresh
      <4> QED
        BY <4>1, FreshInMore
    <3>3. CASE pc \in {"send", "recv"}
      <4>1. FreshIn(toDev, {"start"} \cup Requests) /\ toDev' = toDev
        BY <1>1, <1>4, <3>3 DEF OwnRequests, KeyOps
      <4>2. Requests = {"count", "features"}
        BY <1>4 DEF Requests
      <4> QED
        BY <4>1, <4>2
    <3> QED
      BY <1>1, <3>1, <3>2, <3>3 DEF CallOK
  <2>2. OwnRequests'
    <3>1. Requests' = {"count", "features"}
      BY <1>4 DEF Requests
    <3> QED
      BY <1>4, <2>1, <3>1 DEF OwnRequests
  <2>3. Starting' /\ IdsKnown' /\ SetKnown' /\ ImageKnown'
    BY <1>4 DEF Starting, IdsKnown, SetKnown, ImageKnown
  <2>4. Flow'
    BY <1>4 DEF Flow
  <2>5. GetKnown'
    BY <1>2, <1>4 DEF GetKnown
  <2>6. ConfigKnown'
    BY <1>4 DEF ConfigKnown
  <2> QED
    BY <2>2, <2>3, <2>4, <2>5, <2>6 DEF SecureInv
<1>5. CASE /\ op = "Get" /\ phase = "item" /\ well' = FALSE /\ bad' = "Error"
           /\ UNCHANGED <<op, num, result>>
           /\ pc' = "send" /\ item + 1 < num /\ phase' = "item" /\ item' = item + 1 /\ ret' = ret
  <2>1. pc \in {"send", "recv"}
    BY <1>1, <1>5 DEF PhaseKnown, CallOK, Opens
  <2>2. ThrownIs("Error")
    BY <1>5 DEF ThrownIs
  <2> QED
    BY <2>1, <2>2, PassedOverSafe
<1>6. CASE /\ op = "Set" /\ phase = "item" /\ well' = FALSE
           /\ UNCHANGED <<op, num, result, bad, ret>>
           /\ \/ pc' = "send" /\ item + 1 < Len(Import) /\ phase' = "item" /\ item' = item + 1
              \/ pc' = "start" /\ phase' = "final" /\ item' = 0
  <2>1. pc \in {"send", "recv"}
    BY <1>1, <1>6 DEF PhaseKnown, CallOK, Opens
  <2>2. OwnRequests'
    <3>1. FreshIn(toDev', {"start"} \cup Requests)
      BY <1>1, <1>6, <2>1 DEF OwnRequests, KeyOps
    <3>2. Requests' = Requests
      BY <1>6 DEF Requests
    <3> QED
      BY <1>6, <3>1, <3>2 DEF OwnRequests
  <2>3. Starting' /\ GetKnown' /\ IdsKnown' /\ SetKnown' /\ ImageKnown'
    BY <1>6 DEF Starting, GetKnown, IdsKnown, SetKnown, ImageKnown
  <2>4. Flow'
    BY <1>6 DEF Flow, Midway
  <2>5. ConfigKnown'
    BY <1>6 DEF ConfigKnown
  <2> QED
    BY <2>2, <2>3, <2>4, <2>5 DEF SecureInv
<1> QED
  BY <1>1, <1>3, <1>4, <1>5, <1>6, FailedIs

LEMMA StartSendSafe ==
    ASSUME TransferInv, SecureInv, StartSend
    PROVE  SecureInv'
<1>1. /\ toDev \in Seq(Message) /\ toHost \in Seq(Reply) /\ Keyed(toDev) /\ Shaped(toHost)
      /\ dev \in DeviceType
  BY DEF TransferInv, LineOK, DeviceType
<1>2. /\ Stale(toDev, 0) \in Seq(Message) /\ AllStale(Stale(toDev, 0)) /\ AllStale(Stale(toHost, <<>>))
  BY <1>1, StaleMessages, StaleReplies
<1>3. pc = "start" /\ toHost' = Stale(toHost, <<>>)
  BY DEF StartSend
<1>4. dev'.users = dev.users /\ dev'.image = dev.image /\ dev'.config = dev.config /\ reboots' = reboots
      /\ calm' = calm /\ dev'.saved = dev.saved
  BY <1>1, HistoryKept DEF StartSend, DeviceType
<1> DEFINE m == [id |-> "start", arg |-> 0, stale |-> FALSE]
<1>5. CASE /\ toDev' = Append(Stale(toDev, 0), m) /\ pc' = "startReply"
           /\ UNCHANGED <<callVars, dataVars, ret>>
  <2>1. UNCHANGED <<op, phase, item, num, result, well, bad, ret>>
    BY <1>5 DEF callVars, dataVars
  <2>2. Starting'
    <3>1. m \in Message /\ ~m.stale
      BY DEF Message
    <3>2. HasOnly(toDev', m)
      <4> HIDE DEF m
      <4> QED
        BY <1>2, <1>5, <3>1, AppendKeeps
    <3> QED
      BY <1>2, <1>3, <3>2 DEF Starting
  <2> HIDE DEF m
  <2>3. OwnRequests' /\ Flow' /\ GetKnown'
    BY <1>5 DEF OwnRequests, Flow, GetKnown
  <2>4. IdsKnown'
    BY <1>3, <1>4, <1>5, <2>1 DEF SecureInv, IdsKnown
  <2>5. SetKnown'
    <3>1. \A n : Imported(n) => Imported(n)'
      BY <1>4 DEF Imported, Has
    <3> QED
      BY <1>3, <1>4, <1>5, <2>1, <3>1 DEF SecureInv, SetKnown
  <2>6. ImageKnown'
    BY <1>3, <1>4, <1>5, <2>1 DEF SecureInv, ImageKnown, ImageSoFar
  <2>7. ConfigKnown'
    BY <1>5 DEF ConfigKnown
  <2> QED
    BY <2>2, <2>3, <2>4, <2>5, <2>6, <2>7 DEF SecureInv
<1>6. CASE \E status \in {"Error", "Thrown"} : Failed(status) /\ toDev' = Stale(toDev, 0)
  <2>1. PICK status \in {"Error", "Thrown"} : Failed(status)
    BY <1>6
  <2>2. AllStale(toDev')
    BY <1>2, <1>3, <1>6
  <2> QED
    BY <1>3, <1>4, <2>1, <2>2, FailureSafe
<1> QED
  BY <1>5, <1>6 DEF StartSend

\* A session is open when the reply is of this session: nothing else is.
LEMMA StartReplySafe ==
    ASSUME TransferInv, SecureInv, Secure, StartReply
    PROVE  SecureInv'
<1>1. pc = "startReply" /\ toHost # <<>> /\ toHost' = Tail(toHost) /\ UNCHANGED <<toDev, dev, reboots, calm>>
  BY HistoryKept DEF StartReply
<1>2. toHost \in Seq(Reply) /\ Starting /\ CallOK /\ PhaseKnown
  BY DEF TransferInv, LineOK, SecureInv, CallOK
<1>3. FreshIn(toDev', {"start"})
  BY <1>1, <1>2, StartingFresh
<1>4. CASE Opened /\ synced' = (Head(toHost).id = "start" /\ ~Head(toHost).stale)
  <2>1. synced' => Quiet'
    <3> SUFFICES ASSUME ~Head(toHost).stale PROVE Quiet'
      BY <1>4
    <3> DEFINE r == [id |-> "start", arg |-> <<>>, stale |-> FALSE]
    <3>1. AllStale(toHost) \/ (AllStale(toDev) /\ HasOnly(toHost, r))
      BY <1>1, <1>2 DEF Starting, Quiet
    <3> HIDE DEF r
    <3>2. AllStale(toDev) /\ AllStale(Tail(toHost))
      BY <1>1, <1>2, <3>1, TailKeeps
    <3> QED
      BY <1>1, <3>2 DEF Quiet
  <2>2. CASE phase # "open"
    <3>1. pc' = "send" /\ UNCHANGED <<op, phase, item, num, result, well, bad, ret>> /\ op \notin KeyOps
      BY <1>1, <1>2, <1>4, <2>2 DEF Opened, PhaseKnown, callVars, dataVars
    <3>2. OwnRequests'
      <4>1. FreshIn(toDev', {"start"} \cup Requests')
        BY <1>3, FreshInMore
      <4> QED
        BY <1>3, <4>1 DEF OwnRequests
    <3>3. Flow'
      BY <2>1, <3>1 DEF Flow
    <3>4. Starting'
      BY <3>1 DEF Starting
    <3>5. GetKnown'
      BY <1>1, <1>2, <3>1 DEF GetKnown, PhaseKnown, Opens
    <3>6. IdsKnown'
      BY <1>1, <3>1 DEF SecureInv, IdsKnown
    <3>7. SetKnown'
      BY <1>1, <3>1 DEF SecureInv, SetKnown, Imported, Has
    <3>8. ImageKnown'
      BY <1>1, <3>1 DEF SecureInv, ImageKnown, ImageSoFar
    <3>9. ConfigKnown'
      BY <3>1 DEF ConfigKnown
    <3> QED
      BY <3>2, <3>3, <3>4, <3>5, <3>6, <3>7, <3>8, <3>9 DEF SecureInv
  <2>3. CASE phase = "open" /\ op = "Get"
    <3>1. /\ pc' = "start" /\ phase' = "count" /\ item' = 0 /\ op' = "Get"
      BY <1>4, <2>3 DEF Opened, Goto, Opens
    <3> QED
      BY <3>1 DEF SecureInv, Starting, OwnRequests, Flow, Midway, GetKnown, IdsKnown, SetKnown, ImageKnown,
                  ConfigKnown
  <2>4. CASE phase = "open" /\ op # "Get"
    <3>1. op = "Set"
      BY <1>2, <2>4 DEF PhaseKnown, CallOK, Operations
    <3>2. /\ op' = "Set" /\ item' = 0
          /\ \/ pc' = "send" /\ phase' = "item"
             \/ pc' = "start" /\ phase' = "final" /\ Len(Import) = 0
      <4>1. Len(Import) \in Nat
        BY ConstantFacts
      <4> QED
        BY <1>4, <2>4, <3>1, <4>1 DEF Opened, NextSet, Goto, Opens
    <3>3. OwnRequests'
      <4>1. FreshIn(toDev', {"start"} \cup Requests')
        BY <1>3, FreshInMore
      <4> QED
        BY <3>2, <4>1 DEF OwnRequests
    <3>4. Flow'
      BY <2>1, <3>2 DEF Flow, Midway
    <3>5. SetKnown'
      BY <3>2 DEF SetKnown, Imported
    <3>6. Starting' /\ GetKnown' /\ IdsKnown' /\ ImageKnown' /\ ConfigKnown'
      BY <3>2 DEF Starting, GetKnown, IdsKnown, ImageKnown, ConfigKnown
    <3> QED
      BY <3>3, <3>4, <3>5, <3>6 DEF SecureInv
  <2> QED
    BY <2>2, <2>3, <2>4
<1>5. CASE Failed("Error")
  <2>1. Within(toHost', toHost)
    BY <1>1, <1>2, TailWithin
  <2> QED
    BY <1>1, <1>5, <2>1, FailureSafe
<1> QED
  BY <1>4, <1>5 DEF StartReply

LEMMA GaveUpSafe ==
    ASSUME TransferInv, SecureInv, StartTimeout \/ RecvTimeout \/ RecvRefused
    PROVE  SecureInv'
<1>1. /\ pc \in {"startReply", "recv"} /\ Failed("Error") /\ UNCHANGED <<synced, toDev, dev, calm>>
      /\ toHost' = toHost \/ (toHost # <<>> /\ toHost' = Tail(toHost))
  BY HistoryKept DEF StartTimeout, RecvTimeout, RecvRefused
<1>2. Within(toHost', toHost)
  <2>1. Within(toHost, toHost)
    BY DEF Within
  <2> QED
    BY <1>1, <2>1, TailWithin DEF TransferInv, LineOK
<1> QED
  BY <1>1, <1>2, FailureSafe

\* After the request is sent it is the only packet of the session.
LEMMA SendSafe ==
    ASSUME TransferInv, SecureInv, Send
    PROVE  SecureInv'
<1>1. pc = "send" /\ UNCHANGED <<synced, toHost, dev, reboots, calm>>
  BY HistoryKept DEF Send
<1>2. /\ toDev \in Seq(Message) /\ CallOK /\ PhaseKnown /\ phase # "open"
      /\ OwnRequests /\ Flow /\ GetKnown /\ IdsKnown /\ SetKnown /\ ImageKnown
  BY <1>1 DEF TransferInv, LineOK, CallOK, PhaseKnown, SecureInv
<1>3. /\ Request \in Message /\ ~Request.stale
      /\ op \notin KeyOps => Request.id \in Requests /\ Request.id \notin {"start", "hostKey"}
      /\ op \in KeyOps => Request = KeyRequest
  BY <1>1, <1>2, RequestIs
<1>4. CASE /\ pc' = "recv" /\ UNCHANGED <<op, phase, item, num, result, well, bad, ret>>
           /\ toDev' = Append(toDev, Request) \/ (op = "Config" /\ toDev' = toDev)
  <2>1. Requests' = Requests /\ Request' = Request
    <3>1. Requests' = Requests
      BY <1>4 DEF Requests
    <3>2. Request' = Request
      BY <1>4 DEF Request, KeyRequest
    <3> QED
      BY <3>1, <3>2
  <2>2. OwnRequests'
    <3>1. CASE op \in KeyOps
      BY <1>4, <3>1 DEF OwnRequests
    <3>2. CASE op \notin KeyOps
      <4>1. FreshIn(toDev, {"start"} \cup Requests)
        BY <1>1, <1>2, <3>2 DEF OwnRequests
      <4> DEFINE R == {"start"} \cup Requests
      <4>2. Request.id \in R /\ FreshIn(toDev, R)
        BY <1>3, <3>2, <4>1
      <4> HIDE DEF R
      <4>3. FreshIn(toDev', R)
        BY <1>2, <1>3, <1>4, <4>2, AppendKeeps, Zenon
      <4> QED
        BY <1>4, <2>1, <4>3 DEF OwnRequests, R
    <3> QED
      BY <3>1, <3>2
  <2>3. Flow'
    <3>1. CASE op \notin KeyOps /\ synced /\ well
      <4>1. Quiet
        BY <1>1, <1>2, <3>1 DEF Flow
      <4>2. CASE toDev' = toDev
        BY <1>1, <1>4, <4>1, <4>2 DEF Flow, Quiet
      <4>3. CASE toDev' = Append(toDev, Request)
        <5>1. HasOnly(toDev', Request')
          BY <1>2, <1>3, <2>1, <4>1, <4>3, AppendKeeps, Zenon DEF Quiet
        <5>2. ImageSoFar'
          BY <1>1, <1>2, <1>4 DEF ImageKnown, ImageSoFar
        <5>3. AllStale(toHost')
          BY <1>1, <4>1 DEF Quiet
        <5> QED
          BY <1>4, <5>1, <5>2, <5>3 DEF Flow
      <4> QED
        BY <1>4, <4>2, <4>3
    <3>2. CASE ~(op \notin KeyOps /\ synced /\ well)
      BY <1>1, <1>4, <3>2 DEF Flow
    <3> QED
      BY <3>1, <3>2
  <2>4. GetKnown'
    <3>1. CASE op = "Get" /\ phase = "item"
      <4>1. synced /\ FreshIn(toDev, {"features"}) /\ AskedSoFar(toDev)
        BY <1>1, <1>2, <3>1 DEF GetKnown
      <4>2. Request.id = "features" /\ Request.arg = item /\ item \in Nat
        BY <1>2, <3>1 DEF Request, KeyOps, Removals, CallOK
      <4>3. FreshIn(toDev', {"features"}) /\ AskedSoFar(toDev')
        <5>1. Request.id \in {"features"}
          BY <4>2
        <5>2. toDev' = Append(toDev, Request)
          BY <1>4, <3>1
        <5>3. FreshIn(toDev', {"features"})
          BY <1>2, <1>3, <4>1, <5>1, <5>2, AppendKeeps, Zenon
        <5>4. PICK m \in Message : m = Request
          BY <1>3
        <5>5. /\ Len(toDev') = Len(toDev) + 1 /\ Len(toDev) \in Nat /\ toDev'[Len(toDev) + 1] = m
              /\ \A i \in 1..Len(toDev) : toDev'[i] = toDev[i]
          BY <1>2, <5>2, <5>4, AppendFacts
        <5>6. AskedSoFar(toDev')
          BY <4>1, <4>2, <5>4, <5>5 DEF AskedSoFar
        <5> QED
          BY <5>3, <5>6
      <4>5. SentSoFar(toHost) => SentSoFar(toHost)'
        BY <1>1, <1>4 DEF SentSoFar, Lags
      <4>6. \A k : Lags(k, result[k]) => Lags(k, result[k])'
        BY <1>1, <1>4 DEF Lags
      <4>7. AskedSoFar(toDev)'
        BY <1>4, <4>3 DEF AskedSoFar
      <4> QED
        BY <1>1, <1>2, <1>4, <3>1, <4>1, <4>3, <4>5, <4>6, <4>7 DEF GetKnown
    <3>2. CASE ~(op = "Get" /\ phase = "item")
      BY <1>4, <3>2 DEF GetKnown
    <3> QED
      BY <3>1, <3>2
  <2>5. IdsKnown'
    BY <1>1, <1>2, <1>4 DEF IdsKnown
  <2>6. SetKnown'
    BY <1>1, <1>2, <1>4 DEF SetKnown, Imported, Has
  <2>7. ImageKnown' /\ Starting'
    BY <1>4 DEF ImageKnown, Starting
  <2>8. ConfigKnown'
    BY <1>4 DEF ConfigKnown
  <2> QED
    BY <2>2, <2>3, <2>4, <2>5, <2>6, <2>7, <2>8 DEF SecureInv
<1>7. Within(toHost', toHost)
  BY <1>1 DEF Within
<1>5. CASE Failed("Error") /\ UNCHANGED toDev
  BY <1>1, <1>5, <1>7, FailureSafe
<1>6. CASE Return("Error")
  BY <1>6, EndedWithoutOk DEF Return
<1>8. CASE GetThrown /\ UNCHANGED toDev
  <2>1. ThrownIs(bad')
    BY <1>8 DEF GetThrown, ThrownIs, NextGet, Goto, Opens, Return, callVars
  <2> QED
    BY <1>1, <1>7, <1>8, <2>1, PassedOverSafe
<1> QED
  BY <1>1, <1>4, <1>5, <1>6, <1>8 DEF Send, callVars, dataVars

\* A packet that the receive accepts is the reply to the request; with it the session is quiet.
LEMMA Answered ==
    ASSUME TransferInv, SecureInv, Secure, pc = "recv", toHost # <<>>, op \notin KeyOps, well,
           Accepts(Head(toHost))
    PROVE  Answers(Head(toHost)) /\ AllStale(toDev) /\ AllStale(Tail(toHost))
<1>1. toHost \in Seq(Reply) /\ Flow /\ synced /\ ~Head(toHost).stale
  BY DEF TransferInv, LineOK, SecureInv, Accepts
<1>2. Head(toHost).stale \/ ~AllStale(toHost)
  BY <1>1, TailKeeps
<1>3. AllStale(toDev) /\ \E i \in 1..Len(toHost) : HasOnly(toHost, toHost[i]) /\ Answers(toHost[i])
  BY <1>1, <1>2 DEF Flow, Quiet
<1>4. PICK i \in 1..Len(toHost) : HasOnly(toHost, toHost[i]) /\ Answers(toHost[i])
  BY <1>3
<1>5. PICK r : r = toHost[i]
  OBVIOUS
<1>6. HasOnly(toHost, r) /\ Answers(r)
  BY <1>4, <1>5
<1>7. Head(toHost) = r /\ AllStale(Tail(toHost))
  BY <1>1, <1>6, TailKeeps
<1> QED
  BY <1>3, <1>6, <1>7

LEMMA RecvSafe ==
    ASSUME TransferInv, TransferInv', SecureInv, Secure, Recv
    PROVE  SecureInv'
<1> USE DEF callVars, dataVars, Return
<1> DEFINE p == Head(toHost)
<1>1. /\ pc = "recv" /\ toHost # <<>> /\ toHost' = Tail(toHost) /\ UNCHANGED <<synced, toDev, dev, reboots, calm>>
      /\ op \in KeyOps \/ (Accepts(p) /\ p.id \in Wanted)
  BY HistoryKept DEF Recv
<1>2. /\ CallOK /\ PhaseKnown /\ OwnRequests /\ GetKnown /\ IdsKnown /\ SetKnown /\ ImageKnown
      /\ ConfigKnown /\ well \in BOOLEAN /\ toHost \in Seq(Reply) /\ Len(dev.users) \in Nat
      /\ item \in Nat /\ num \in Nat /\ Len(result) \in Nat /\ bad \in {"Ok", "Error"}
      /\ toDev \in Seq(Message)
  BY DEF TransferInv, CallOK, SecureInv, FlagsOK, LineOK
<1>3. op \notin KeyOps => synced /\ ~p.stale
  BY <1>1 DEF Accepts
<1>4. op \notin KeyOps /\ well => Answers(p) /\ Quiet'
  BY <1>1, Answered DEF Quiet
<1>5. op \notin KeyOps => FreshIn(toDev', {"start"} \cup Requests)
  BY <1>1, <1>2 DEF OwnRequests
<1>6. op' = op => Requests' = Requests
  BY DEF Requests
<1>7. \A ids : FreshIn(toHost, ids) => FreshIn(toHost', ids) /\ (p.stale \/ p.id \in ids)
  BY <1>1, <1>2, TailKeeps
<1>8. Starting'
  BY <1>1 DEF Recv, Starting, KeyReply, GetCount, GetUser, SetUser, SetEnd, IdsChunk, IdsFailed, ConfigReply,
              ImageReply, RemoveReply, NextGet, NextSet, Goto
<1>9. CASE pc' = "idle" /\ ret' # "Ok"
  BY <1>9, EndedWithoutOk
<1> HIDE DEF p
<1>10. CASE pc' = "idle" /\ ret' = "Ok" /\ KeyReply(p)
  <2>1. op \in KeyOps /\ UNCHANGED <<op, phase, item, num, result, well, bad>>
    BY <1>10 DEF KeyReply
  <2>3. ConfigKnown'
    BY <2>1 DEF ConfigKnown, KeyOps
  <2>4. OwnRequests' /\ Flow' /\ GetKnown' /\ IdsKnown' /\ SetKnown' /\ ImageKnown'
    BY <1>10, <2>1 DEF KeyOps, OwnRequests, Flow, GetKnown, IdsKnown, SetKnown, ImageKnown
  <2> QED
    BY <1>8, <2>3, <2>4 DEF SecureInv
<1>11. CASE GetCount(p)
  <2>1. op = "Get" /\ op' = "Get" /\ phase = "count" /\ UNCHANGED <<well, bad>> /\ op \notin KeyOps
    BY <1>11 DEF GetCount, NextGet, Goto, KeyOps
  <2>2. well
    BY <1>2, <2>1 DEF PhaseKnown
  <2>3. Quiet' /\ (calm => num' = 0 \/ num' = Len(dev.users))
    <3>1. p.id = "count" => Quiet' /\ (calm => p.arg = <<Len(dev.users)>>)
      BY <1>4, <2>1, <2>2 DEF Answers
    <3> QED
      BY <1>4, <1>11, <2>1, <2>2, <3>1 DEF GetCount
  <2>4. \/ pc' = "send" /\ phase' = "item" /\ item' = 0
        \/ pc' = "idle" /\ num' = 0
    <3>1. num' \in Nat
      BY DEF TransferInv, CallOK
    <3> QED
      BY <1>2, <1>11, <2>1, <3>1 DEF GetCount, NextGet, Goto, Opens
  <2>5. /\ FreshIn(toDev', {"features"}) /\ FreshIn(toHost', {"features", "refused"})
        /\ AskedSoFar(toDev)' /\ SentSoFar(toHost)'
    BY <2>3, StaleIsFreshIn DEF Quiet, AllStale, AskedSoFar, SentSoFar
  <2>6. GetKnown'
    <3>1. \A k \in 1..num' : result'[k] = 0
      BY <1>11 DEF GetCount
    <3>2. synced' /\ dev' = dev /\ calm' = calm /\ 0 <= Len(dev.users)
      BY <1>1, <1>2, <1>3, <2>1
    <3> QED
      BY <1>2, <2>1, <2>3, <2>4, <2>5, <3>1, <3>2 DEF GetKnown
  <2>7. OwnRequests'
    BY <1>5, <1>6, <2>1 DEF OwnRequests
  <2>8. Flow'
    BY <2>1, <2>3, <2>4 DEF Flow
  <2>9. IdsKnown' /\ SetKnown' /\ ImageKnown' /\ ConfigKnown'
    BY <2>1 DEF IdsKnown, SetKnown, ImageKnown, ConfigKnown
  <2> QED
    BY <1>8, <2>6, <2>7, <2>8, <2>9 DEF SecureInv
<1>12. CASE GetUser(p) /\ p.id # "features"
  <2>1. op = "Get" /\ phase = "item" /\ well' = FALSE /\ bad' = "Ok" /\ UNCHANGED <<num, result>>
        /\ NextGet(item + 1, FALSE, "Ok")
    BY <1>12 DEF GetUser
  <2>2. ThrownIs("Ok")
    BY <2>1 DEF ThrownIs, NextGet, Goto, Opens
  <2>3. Within(toHost', toHost)
    BY <1>1, <1>2, TailWithin
  <2> QED
    BY <1>1, <2>2, <2>3, PassedOverSafe
<1>19. CASE GetUser(p) /\ p.id = "features"
  <2>1. op = "Get" /\ op' = "Get" /\ phase = "item" /\ num' = num /\ op \notin KeyOps
    BY <1>19 DEF GetUser, NextGet, Goto, KeyOps
  <2>2. /\ synced /\ FreshIn(toDev, {"features"}) /\ FreshIn(toHost, {"features", "refused"}) /\ AskedSoFar(toDev)
        /\ Len(result) = num /\ item < num /\ result \in Seq(Nat)
        /\ calm => /\ num <= Len(dev.users) /\ SentSoFar(toHost)
                   /\ well => \A k \in 1..item : result[k] = dev.users[k]
                   /\ \A k \in 1..num : result[k] = 0 \/ Lags(k, result[k])
    BY <1>1, <1>2, <2>1 DEF GetKnown, PhaseKnown, CallOK
  <2> DEFINE f == p.arg[1]
  <2>3. p = toHost[1] /\ 1 \in 1..Len(toHost)
    BY <1>1, <1>2, TailFacts DEF p
  <2>4. result' = [result EXCEPT ![item + 1] = f] /\ UNCHANGED <<well, bad>>
    BY <1>19 DEF GetUser
  <2>5. calm => Lags(item + 1, f)
    BY <1>3, <1>19, <2>1, <2>2, <2>3 DEF SentSoFar
  <2>11. well /\ calm => f = dev.users[item + 1]
    BY <1>4, <1>19, <2>1 DEF Answers
  <2>12. well => Quiet'
    BY <1>4, <2>1
  <2> HIDE DEF f
  <2>13. /\ \A k \in 1..num : k # item + 1 => result'[k] = result[k]
         /\ result'[item + 1] = f
    <3>1. \A k \in 1..num : k \in DOMAIN result
      BY <2>2
    <3>2. item + 1 \in 1..num
      BY <1>2, <2>2
    <3> QED
      BY <2>4, <3>1, <3>2
  <2>14. calm /\ well => \A k \in 1..(item + 1) : result'[k] = dev.users[k]
    <3>1. \A k \in 1..(item + 1) : k = item + 1 \/ (k \in 1..item /\ k \in 1..num /\ k # item + 1)
      BY <1>2, <2>2
    <3> QED
      BY <2>2, <2>11, <2>13, <3>1
  <2>15. calm => \A k \in 1..num : result'[k] = 0 \/ \E j \in 1..k : result'[k] = dev.users[j]
    <3>1. ASSUME calm, NEW k \in 1..num PROVE result'[k] = 0 \/ \E j \in 1..k : result'[k] = dev.users[j]
      <4>1. CASE k = item + 1
        BY <2>5, <2>13, <3>1, <4>1 DEF Lags
      <4>2. CASE k # item + 1
        BY <2>2, <2>13, <3>1, <4>2 DEF Lags
      <4> QED
        BY <4>1, <4>2
    <3> QED
      BY <3>1
  <2>6. \/ pc' = "send" /\ phase' = "item" /\ item' = item + 1
        \/ pc' = "idle" /\ item + 1 = num /\ ret' = (IF well THEN "Ok" ELSE bad)
    BY <1>2, <1>19, <2>1, <2>2, <2>4 DEF GetUser, NextGet, Goto, Opens
  <2>7. GetKnown'
    <3>1. FreshIn(toDev', {"features"}) /\ FreshIn(toHost', {"features", "refused"}) /\ synced' /\ dev' = dev
      BY <1>1, <1>7, <2>2
    <3>2. item' = item + 1 => AskedSoFar(toDev)'
      <4>1. \A i \in 1..Len(toDev) : toDev[i].arg \in Nat
        <5>1. \A i \in 1..Len(toDev) : toDev[i] \in Message
          BY DEF TransferInv, LineOK
        <5> QED
          BY <5>1 DEF Message
      <4> QED
        BY <1>1, <1>2, <2>2, <4>1 DEF AskedSoFar
    <3>3. item' = item + 1 /\ calm => SentSoFar(toHost)'
      <4>1. item' = item + 1 => \A x : Lags(item + 1, x) => Lags(item + 1, x)'
        BY <1>1, <1>2 DEF Lags
      <4>2. Within(toHost', toHost)
        BY <1>1, <1>2, TailWithin
      <4> QED
        BY <2>2, <4>1, <4>2 DEF SentSoFar, Within
    <3>4. CASE pc' = "send" /\ phase' = "item" /\ item' = item + 1
      BY <1>1, <2>1, <2>2, <2>4, <2>14, <2>15, <3>1, <3>2, <3>3, <3>4 DEF GetKnown, Lags
    <3>5. CASE pc' = "idle" /\ item + 1 = num /\ ret' = (IF well THEN "Ok" ELSE bad)
      BY <1>1, <2>1, <2>2, <2>4, <2>14, <2>15, <3>1, <3>5 DEF GetKnown, Lags
    <3> QED
      BY <2>6, <3>4, <3>5
  <2>8. OwnRequests'
    BY <1>5, <1>6, <2>1 DEF OwnRequests
  <2>9. Flow'
    BY <2>1, <2>4, <2>6, <2>12 DEF Flow
  <2>10. IdsKnown' /\ SetKnown' /\ ImageKnown' /\ ConfigKnown'
    BY <2>1 DEF IdsKnown, SetKnown, ImageKnown, ConfigKnown
  <2> QED
    BY <1>8, <2>7, <2>8, <2>9, <2>10 DEF SecureInv
<1>13. CASE SetUser(p)
  <2>1. /\ op = "Set" /\ op' = "Set" /\ phase = "item" /\ op \notin KeyOps /\ well' = (well /\ p.id = "set")
        /\ item < Len(Import)
    BY <1>1, <1>2, <1>13 DEF SetUser, NextSet, Goto, KeyOps, PhaseKnown
  <2>2. \/ pc' = "send" /\ phase' = "item" /\ item' = item + 1
        \/ pc' = "start" /\ phase' = "final" /\ item' = 0 /\ item + 1 = Len(Import)
    BY <1>2, <1>13, <2>1, ConstantFacts DEF SetUser, NextSet, Goto, Opens
  <2>8. well' => Quiet'
    BY <1>4, <2>1
  <2>3. well' /\ calm => Imported(item + 1)
    <3> SUFFICES ASSUME well', calm PROVE Imported(item + 1)
      OBVIOUS
    <3>1. Has(Import[item + 1])
      BY <1>4, <2>1 DEF Answers
    <3>2. Imported(item)
      BY <1>1, <1>2, <2>1 DEF SetKnown
    <3>3. \A k \in 1..(item + 1) : k \in 1..item \/ k = item + 1
      BY <1>2
    <3> QED
      BY <3>1, <3>2, <3>3 DEF Imported
  <2>4. SetKnown'
    <3>1. \A n : Imported(n) => Imported(n)'
      BY <1>1 DEF Imported, Has
    <3> QED
      BY <1>1, <2>2, <2>3, <3>1 DEF SetKnown
  <2>5. OwnRequests'
    BY <1>5, <1>6, <2>1 DEF OwnRequests
  <2>6. Flow'
    BY <2>1, <2>2, <2>8 DEF Flow, Midway
  <2>7. GetKnown' /\ IdsKnown' /\ ImageKnown' /\ ConfigKnown'
    BY <2>1 DEF GetKnown, IdsKnown, ImageKnown, ConfigKnown
  <2> QED
    BY <1>8, <2>4, <2>5, <2>6, <2>7 DEF SecureInv
<1>14. CASE pc' = "idle" /\ ret' = "Ok" /\ (SetEnd(p) \/ RemoveReply(p))
  <2>1. /\ op \in {"Set"} \cup Removals /\ op \notin KeyOps /\ UNCHANGED <<op, phase, item, num, result, well, bad>>
        /\ well /\ (op = "Set" => phase = "final")
    BY <1>2, <1>14 DEF SetEnd, RemoveReply, KeyOps, Removals, PhaseKnown
  <2>2. SetKnown'
    <3>1. op = "Set" /\ calm => Imported(Len(Import))
      BY <1>1, <1>2, <2>1 DEF SetKnown
    <3>2. op = "Set" => p.arg = <<1>> /\ p.id = "reply"
      BY <1>1, <1>14, <2>1 DEF SetEnd, RemoveReply, Wanted, Removals
    <3>3. op = "Set" /\ calm => dev.saved = dev.users
      BY <1>4, <2>1, <3>2 DEF Answers
    <3>4. op = "Set" /\ calm => InFlash(Len(Import))
      BY <3>1, <3>3 DEF Imported, InFlash, Has
    <3>5. InFlash(Len(Import)) => InFlash(Len(Import))'
      BY <1>1 DEF InFlash
    <3> QED
      BY <1>1, <1>14, <2>1, <3>4, <3>5 DEF SetKnown
  <2>3. OwnRequests'
    BY <1>5, <1>6, <1>14, <2>1 DEF OwnRequests
  <2>4. Flow'
    BY <1>4, <1>14, <2>1 DEF Flow
  <2>5. GetKnown' /\ IdsKnown' /\ ImageKnown' /\ ConfigKnown'
    BY <2>1 DEF GetKnown, IdsKnown, ImageKnown, ConfigKnown, Removals
  <2> QED
    BY <1>8, <2>2, <2>3, <2>4, <2>5 DEF SecureInv
<1>15. CASE ConfigReply(p) /\ ~(pc' = "idle" /\ ret' # "Ok")
  <2>1. op = "Config" /\ op' = "Config" /\ op \notin KeyOps /\ well /\ UNCHANGED <<num, result, well, bad>>
    BY <1>2, <1>15 DEF ConfigReply, KeyOps, PhaseKnown, Goto
  <2>2. \/ pc' = "start" /\ phase' = "final"
        \/ pc' = "idle" /\ phase = "final"
    BY <1>15, <2>1 DEF ConfigReply, Goto, Opens
  <2>3. Quiet' /\ (phase = "final" => dev.config = num)
    <3>1. p.id # "refused"
      BY <1>15 DEF ConfigReply, Return
    <3> QED
      BY <1>4, <2>1, <3>1 DEF Answers
  <2>4. ConfigKnown'
    <3>1. pc' = "idle" => dev'.config = num'
      BY <1>1, <2>1, <2>2, <2>3
    <3>2. pc' # "recv" /\ op' = "Config"
      BY <2>1, <2>2
    <3> QED
      BY <3>1, <3>2 DEF ConfigKnown
  <2>5. OwnRequests'
    BY <1>5, <1>6, <2>1, <2>2 DEF OwnRequests
  <2>6. Flow'
    BY <2>1, <2>2, <2>3 DEF Flow
  <2>7. GetKnown' /\ IdsKnown' /\ ImageKnown' /\ SetKnown'
    BY <2>1 DEF GetKnown, IdsKnown, ImageKnown, SetKnown
  <2> QED
    BY <1>8, <2>4, <2>5, <2>6, <2>7 DEF SecureInv
<1>16. CASE ImageReply(p) /\ ~(pc' = "idle" /\ ret' # "Ok")
  <2>1. op = "Image" /\ op' = "Image" /\ op \notin KeyOps /\ well /\ UNCHANGED <<num, result, well, bad>>
    BY <1>2, <1>16 DEF ImageReply, KeyOps, PhaseKnown, Goto
  <2>2. \/ pc' = "start" /\ phase = "item" /\ phase' = "item" /\ item' = item + 1
        \/ pc' = "start" /\ phase = "item" /\ phase' = "final" /\ item' = 0 /\ item + 1 = Chunks
        \/ pc' = "idle" /\ phase = "final"
    BY <1>1, <1>2, <1>16, <2>1, ConstantFacts DEF ImageReply, Goto, Opens, PhaseKnown
  <2>3. Quiet' /\ (reboots = 0 => dev.image = Begun(IF phase = "final" THEN Chunks ELSE item + 1))
    BY <1>4, <2>1, <2>2 DEF Answers, Refusable
  <2>4. ImageKnown'
    BY <1>1, <2>1, <2>2, <2>3 DEF ImageKnown, ImageSoFar
  <2>5. OwnRequests'
    BY <1>5, <1>6, <2>1, <2>2 DEF OwnRequests
  <2>6. Flow'
    BY <2>1, <2>2, <2>3 DEF Flow
  <2>7. GetKnown' /\ IdsKnown' /\ ConfigKnown' /\ SetKnown'
    BY <2>1 DEF GetKnown, IdsKnown, ConfigKnown, SetKnown
  <2> QED
    BY <1>8, <2>4, <2>5, <2>6, <2>7 DEF SecureInv
<1>20. CASE IdsChunk(p) /\ ~(pc' = "idle" /\ ret' # "Ok") /\ ~calm
  <2>1. /\ op = "Ids" /\ op' = "Ids" /\ op \notin KeyOps /\ well /\ UNCHANGED <<well, bad>>
        /\ pc' \in {"start", "idle"}
    BY <1>1, <1>2, <1>20 DEF IdsChunk, IdsFailed, KeyOps, PhaseKnown, Goto, Opens
  <2>2. OwnRequests'
    BY <1>5, <1>6, <2>1 DEF OwnRequests
  <2>3. Flow'
    BY <1>4, <2>1 DEF Flow
  <2>4. IdsKnown'
    BY <1>1, <1>20 DEF IdsKnown
  <2>5. GetKnown' /\ ImageKnown' /\ ConfigKnown' /\ SetKnown'
    BY <2>1 DEF GetKnown, ImageKnown, ConfigKnown, SetKnown
  <2> QED
    BY <1>8, <2>2, <2>3, <2>4, <2>5 DEF SecureInv
<1>17. CASE IdsChunk(p) /\ ~(pc' = "idle" /\ ret' # "Ok") /\ calm
  <2> DEFINE us == dev.users
             n == Shorter(Len(result) + ChunkSize, Len(us)) - item
             c == Shorter(n, num - Len(result))
  <2>1. /\ op = "Ids" /\ op' = "Ids" /\ op \notin KeyOps /\ well /\ phase = "item" /\ UNCHANGED <<well, bad>>
        /\ num = Asked /\ Len(result) = item /\ item < num
    BY <1>1, <1>2, <1>17 DEF IdsChunk, IdsFailed, KeyOps, PhaseKnown, Goto
  <2>2. item <= Len(us) /\ \A k \in 1..item : result[k] = us[k]
    BY <1>1, <1>2, <1>17, <2>1 DEF IdsKnown
  <2>3. /\ n \in Nat /\ item + n <= Len(us) /\ (n = 0 => item = Len(us))
        /\ Shorter(Len(result) + ChunkSize, Len(us)) = item + n
    BY <1>2, <2>1, <2>2, ConstantFacts DEF Shorter
  <2>4. p.arg = SubSeq(us, item + 1, item + n) /\ p.id = "ids" /\ Quiet'
    <3>1. p.id = "ids"
      BY <1>17 DEF IdsChunk, IdsFailed
    <3> QED
      BY <1>4, <1>17, <2>1, <2>3, <3>1 DEF Answers
  <2>5. us \in Seq(Nat) /\ result \in Seq(Nat)
    BY DEF TransferInv, LineOK, CallOK
  <2> HIDE DEF us, n
  <2>6. p.arg \in Seq(Nat) /\ Len(p.arg) = n /\ \A k \in 1..n : p.arg[k] = us[item + k]
    <3> DEFINE a == SubSeq(us, item + 1, item + n)
    <3>1. item \in Nat /\ n \in Nat /\ item + n <= Len(us)
      BY <1>2, <2>3
    <3>2. a \in Seq(Nat) /\ Len(a) = n /\ \A k \in 1..n : a[k] = us[item + k]
      BY <2>5, <3>1, SliceFacts, Zenon
    <3>3. p.arg = a
      BY <2>4
    <3> HIDE DEF a
    <3> QED
      BY <3>2, <3>3
  <2>7. c \in Nat /\ c <= n /\ c <= num - item /\ (c = n \/ c = num - item)
    BY <1>2, <2>1, <2>3 DEF Shorter
  <2>8. Len(result') = item + c /\ \A k \in 1..(item + c) : result'[k] = us[k]
    <3> DEFINE a == SubSeq(p.arg, 1, c)
               b == result \o a
    <3>1. result' = b
      BY <1>17, <2>4, <2>6 DEF IdsChunk, IdsFailed
    <3>2. a \in Seq(Nat) /\ Len(a) = c /\ \A k \in 1..c : a[k] = p.arg[k]
      BY <2>6, <2>7, PrefixFacts, Zenon
    <3>3. /\ Len(b) = Len(result) + Len(a)
          /\ \A k \in 1..Len(result) : b[k] = result[k]
          /\ \A k \in 1..Len(a) : b[Len(result) + k] = a[k]
      BY <2>5, <3>2, ConcatFacts, Zenon
    <3> HIDE DEF a, b, c
    <3>4. ASSUME NEW k \in 1..(item + c) PROVE b[k] = us[k]
      <4>1. CASE k <= item
        <5>1. k \in 1..item
          BY <1>2, <2>7, <4>1
        <5> QED
          BY <2>1, <2>2, <3>3, <5>1
      <4>2. CASE ~(k <= item)
        <5>1. k - item \in 1..c /\ k - item \in 1..n /\ item + (k - item) = k
          BY <1>2, <2>3, <2>7, <4>2
        <5>2. b[item + (k - item)] = a[k - item]
          BY <2>1, <3>2, <3>3, <5>1
        <5>3. a[k - item] = us[item + (k - item)]
          BY <2>6, <3>2, <5>1
        <5> QED
          BY <5>1, <5>2, <5>3
      <4> QED
        BY <4>1, <4>2
    <3> QED
      BY <2>1, <3>1, <3>2, <3>3, <3>4
  <2> HIDE DEF c
  <2>9. \/ pc' = "start" /\ phase' = "item" /\ item' = item + n /\ c = n
        \/ pc' = "idle" /\ num' = item + c /\ (n = 0 \/ item + n >= num \/ item + c >= num)
    <3>1. \/ Goto("item", item + Len(p.arg)) /\ item + Len(p.arg) < num
          \/ /\ Return("Ok") /\ num' = Len(result')
             /\ p.arg = <<>> \/ ~(item + Len(p.arg) < num) \/ ~(Len(result') < num)
      BY <1>17, <2>4 DEF IdsChunk, IdsFailed
    <3>2. p.arg = <<>> => n = 0
      BY <2>6
    <3>3. item + n < num => c = n
      BY <1>2, <2>3, <2>7
    <3> QED
      BY <1>2, <2>1, <2>3, <2>6, <2>7, <2>8, <3>1, <3>2, <3>3 DEF Goto, Opens
  <2>10. IdsKnown'
    <3>1. dev'.users = us
      BY <1>1 DEF us
    <3>2. CASE pc' = "start" /\ phase' = "item" /\ item' = item + n /\ c = n
      BY <2>1, <2>3, <2>8, <3>1, <3>2 DEF IdsKnown
    <3>3. CASE pc' = "idle" /\ num' = item + c /\ (n = 0 \/ item + n >= num \/ item + c >= num)
      <4>1. num' = Shorter(Asked, Len(us))
        <5> DEFINE L == Len(us)
        <5>1. L \in Nat /\ item \in Nat /\ num \in Nat
          BY <1>2, <2>5
        <5>2. /\ num' = item + c /\ (n = 0 \/ item + n >= num \/ item + c >= num)
              /\ n \in Nat /\ item + n <= L /\ (n = 0 => item = L) /\ item < num
              /\ c \in Nat /\ c <= n /\ c <= num - item /\ (c = n \/ c = num - item)
          BY <2>1, <2>3, <2>7, <3>3
        <5> HIDE DEF L
        <5>3. num' = IF num < L THEN num ELSE L
          BY ONLY <5>1, <5>2
        <5> QED
          BY <2>1, <5>3 DEF Shorter, L
      <4> QED
        BY <2>1, <2>8, <3>1, <3>3, <4>1 DEF IdsKnown
    <3> QED
      BY <2>9, <3>2, <3>3
  <2>11. OwnRequests'
    BY <1>5, <1>6, <2>1, <2>9 DEF OwnRequests
  <2>12. Flow'
    BY <2>1, <2>4, <2>9 DEF Flow
  <2>13. GetKnown' /\ ImageKnown' /\ ConfigKnown' /\ SetKnown'
    BY <2>1 DEF GetKnown, ImageKnown, ConfigKnown, SetKnown
  <2> QED
    BY <1>8, <2>10, <2>11, <2>12, <2>13 DEF SecureInv
<1>18. KeyReply(p) \/ SetEnd(p) \/ RemoveReply(p) => pc' = "idle"
  BY DEF KeyReply, SetEnd, RemoveReply
<1> QED
  <2>1. \/ KeyReply(p) \/ GetCount(p) \/ GetUser(p) \/ SetUser(p) \/ SetEnd(p)
        \/ IdsChunk(p) \/ ConfigReply(p) \/ ImageReply(p) \/ RemoveReply(p)
    BY DEF Recv, p
  <2> QED
    BY <2>1, <1>9, <1>10, <1>11, <1>12, <1>13, <1>14, <1>15, <1>16, <1>17, <1>18, <1>19, <1>20

\* What is not said of the device and the line after the device has read a packet: the call.
LEMMA ReadKeepsOwn ==
    ASSUME TransferInv, SecureInv, toDev # <<>>, toDev' = Tail(toDev),
           UNCHANGED <<pc, op, phase, item, num, result, well, bad, ret, synced, reboots>>
    PROVE  OwnRequests'
<1>1. Requests' = Requests
  BY DEF Requests
<1>2. \A ids : FreshIn(toDev, ids) => FreshIn(toDev', ids)
  BY TailKeeps DEF TransferInv, LineOK
<1> QED
  BY <1>1, <1>2 DEF SecureInv, OwnRequests

\* The device reads a packet; its reply, if it sends one, is not of this session.
LEMMA StaleStep ==
    ASSUME TransferInv, SecureInv, toDev # <<>>, toDev' = Tail(toDev),
           toHost' = toHost \/ \E r \in Reply : r.stale /\ toHost' = Append(toHost, r),
           UNCHANGED <<pc, op, phase, item, num, result, well, bad, ret, synced, reboots, calm>>,
           dev'.users = dev.users, dev'.saved = dev.saved, dev'.config = dev.config, dev'.image = dev.image
    PROVE  SecureInv'
<1>1. toDev \in Seq(Message) /\ toHost \in Seq(Reply)
  BY DEF TransferInv, LineOK
<1>2. /\ AllStale(toDev) => AllStale(toDev')
      /\ \A ids : FreshIn(toDev, ids) => FreshIn(toDev', ids)
      /\ \A m : HasOnly(toDev, m) => AllStale(toDev') \/ HasOnly(toDev', m)
  BY <1>1, TailKeeps
<1>3. /\ AllStale(toHost) => AllStale(toHost')
      /\ \A ids : FreshIn(toHost, ids) => FreshIn(toHost', ids)
      /\ \A m : HasOnly(toHost, m) => HasOnly(toHost', m)
  <2>1. CASE toHost' = toHost
    BY <2>1
  <2>2. CASE \E r \in Reply : r.stale /\ toHost' = Append(toHost, r)
    <3>1. PICK r \in Reply : r.stale /\ toHost' = Append(toHost, r)
      BY <2>2
    <3> QED
      BY <1>1, <3>1, AppendKeeps
  <2> QED
    BY <2>1, <2>2
<1>4. Request' = Request
  BY DEF Request, KeyRequest
<1>5. \A r : Answers(r) => Answers(r)'
  BY DEF Answers, Refusable, Has
<1>6. Starting'
  BY <1>2, <1>3 DEF SecureInv, Starting, Quiet
<1>7. OwnRequests'
  BY ReadKeepsOwn
<1>8. Flow'
  <2>1. ASSUME op \notin KeyOps, synced, well, pc = "recv"
        PROVE  \/ Quiet'
               \/ AllStale(toHost') /\ HasOnly(toDev', Request') /\ ImageSoFar'
               \/ /\ AllStale(toDev')
                  /\ (\E i \in 1..Len(toHost) : HasOnly(toHost, toHost[i]) /\ Answers(toHost[i]))'
    <3>1. CASE Quiet
      BY <1>2, <1>3, <3>1 DEF Quiet
    <3>2. CASE AllStale(toHost) /\ HasOnly(toDev, Request) /\ ImageSoFar
      <4>1. ImageSoFar'
        BY <3>2 DEF ImageSoFar
      <4>2. AllStale(toDev') \/ HasOnly(toDev', Request')
        BY <1>2, <1>4, <3>2
      <4> QED
        BY <1>3, <3>2, <4>1, <4>2 DEF Quiet
    <3>3. CASE /\ AllStale(toDev)
               /\ \E i \in 1..Len(toHost) : HasOnly(toHost, toHost[i]) /\ Answers(toHost[i])
      <4>1. PICK i \in 1..Len(toHost) : HasOnly(toHost, toHost[i]) /\ Answers(toHost[i])
        BY <3>3
      <4>2. PICK r : r = toHost[i]
        OBVIOUS
      <4>3. HasOnly(toHost', r) /\ Answers(r)'
        BY <1>3, <1>5, <4>1, <4>2
      <4>4. i \in 1..Len(toHost') /\ toHost'[i] = r
        <5>1. CASE toHost' = toHost
          BY <4>2, <5>1
        <5>2. CASE \E q \in Reply : q.stale /\ toHost' = Append(toHost, q)
          BY <1>1, <4>2, <5>2, AppendFacts
        <5> QED
          BY <5>1, <5>2
      <4> QED
        BY <1>2, <3>3, <4>3, <4>4
    <3> QED
      BY <2>1, <3>1, <3>2, <3>3 DEF SecureInv, Flow
  <2>2. Quiet => Quiet'
    BY <1>2, <1>3 DEF Quiet
  <2>3. Midway' = Midway
    BY DEF Midway
  <2> QED
    BY <2>1, <2>2, <2>3 DEF SecureInv, Flow
<1>9. GetKnown'
  <2>1. AskedSoFar(toDev) => AskedSoFar(toDev)'
    <3>1. Within(toDev', toDev)
      BY <1>1, TailWithin
    <3> QED
      BY <3>1 DEF AskedSoFar, Within
  <2>2. SentSoFar(toHost) => SentSoFar(toHost)'
    <3>1. \A f : Lags(item + 1, f) => Lags(item + 1, f)'
      BY DEF Lags
    <3>2. CASE toHost' = toHost
      BY <3>1, <3>2 DEF SentSoFar
    <3>3. CASE \E q \in Reply : q.stale /\ toHost' = Append(toHost, q)
      <4>1. PICK q \in Reply : q.stale /\ toHost' = Append(toHost, q)
        BY <3>3
      <4>2. /\ Len(toHost') = Len(toHost) + 1 /\ Len(toHost) \in Nat /\ toHost'[Len(toHost) + 1] = q
            /\ \A i \in 1..Len(toHost) : toHost'[i] = toHost[i]
        BY <1>1, <4>1, AppendFacts
      <4>3. \A i \in 1..Len(toHost') : i \in 1..Len(toHost) \/ i = Len(toHost) + 1
        BY <4>2
      <4> QED
        BY <3>1, <4>1, <4>2, <4>3 DEF SentSoFar
    <3> QED
      BY <3>2, <3>3
  <2>3. \A k : Lags(k, result[k]) => Lags(k, result[k])'
    BY DEF Lags
  <2> QED
    BY <1>2, <1>3, <2>1, <2>2, <2>3 DEF SecureInv, GetKnown
<1>10. IdsKnown'
  BY DEF SecureInv, IdsKnown
<1>11. SetKnown'
  BY DEF SecureInv, SetKnown, Imported, InFlash, Has
<1>12. ImageKnown'
  BY DEF SecureInv, ImageKnown, ImageSoFar
<1>13. ConfigKnown'
  BY DEF SecureInv, ConfigKnown
<1> QED
  BY <1>6, <1>7, <1>8, <1>9, <1>10, <1>11, <1>12, <1>13 DEF SecureInv

\* What it means that the device reads a packet of this session.
LEMMA FreshHead ==
    ASSUME TransferInv, SecureInv, toDev # <<>>, ~Head(toDev).stale
    PROVE  /\ ~Quiet
           /\ pc = "startReply" =>
                Head(toDev).id = "start" /\ AllStale(Tail(toDev)) /\ AllStale(toHost)
           /\ op \notin KeyOps /\ synced /\ well =>
                /\ pc # "send"
                /\ pc = "recv" => /\ Head(toDev) = Request /\ AllStale(Tail(toDev))
                                  /\ AllStale(toHost) /\ ImageSoFar
           /\ ~(pc = "start" /\ Midway)
           /\ ~(pc = "idle" /\ ret = "Ok" /\ op \notin KeyOps \cup {"Get"})
           /\ op \notin KeyOps =>
                /\ pc \in {"send", "recv"} \/ (pc = "idle" /\ ret = "Ok")
                     \/ (pc = "start" /\ op = "Set" /\ phase = "final")
                   => Head(toDev).id \in {"start"} \cup Requests
                /\ pc = "send" /\ op \notin {"Get", "Set"} => Head(toDev).id = "start"
           /\ op = "Get" /\ pc \in {"send", "recv"} /\ phase = "item" =>
                Head(toDev).id = "features" /\ Head(toDev).arg <= item
<1> DEFINE m == Head(toDev)
<1>1. /\ ~AllStale(toDev)
      /\ \A ids : FreshIn(toDev, ids) => m.id \in ids
      /\ \A n : HasOnly(toDev, n) => m = n /\ AllStale(Tail(toDev))
  BY TailKeeps DEF TransferInv, LineOK
<1>2. Starting /\ OwnRequests /\ Flow /\ GetKnown
  BY DEF SecureInv
<1>3. ~Quiet
  BY <1>1 DEF Quiet
<1> DEFINE st == [id |-> "start", arg |-> 0, stale |-> FALSE]
<1>4. st.id = "start"
  OBVIOUS
<1>5. pc = "startReply" => m.id = "start" /\ AllStale(Tail(toDev)) /\ AllStale(toHost)
  <2>1. pc = "startReply" => AllStale(toHost) /\ HasOnly(toDev, st)
    BY <1>1, <1>2, <1>3 DEF Starting
  <2> HIDE DEF m, st
  <2> QED
    BY <1>1, <1>4, <2>1
<1> HIDE DEF m, st
<1>6. op \notin KeyOps /\ synced /\ well =>
        /\ pc # "send"
        /\ pc = "recv" => m = Request /\ AllStale(Tail(toDev)) /\ AllStale(toHost) /\ ImageSoFar
  BY <1>1, <1>2, <1>3 DEF Flow
<1>7. ~(pc = "start" /\ Midway) /\ ~(pc = "idle" /\ ret = "Ok" /\ op \notin KeyOps \cup {"Get"})
  BY <1>2, <1>3 DEF Flow
<1>8. op \notin KeyOps =>
        /\ pc \in {"send", "recv"} \/ (pc = "idle" /\ ret = "Ok")
             \/ (pc = "start" /\ op = "Set" /\ phase = "final") => m.id \in {"start"} \cup Requests
        /\ pc = "send" /\ op \notin {"Get", "Set"} => m.id = "start"
  <2>1. op \notin KeyOps /\ pc = "send" /\ op \notin {"Get", "Set"} => m.id \in {"start"}
    BY <1>1, <1>2 DEF OwnRequests
  <2>2. op \notin KeyOps =>
          (pc \in {"send", "recv"} \/ (pc = "idle" /\ ret = "Ok")
             \/ (pc = "start" /\ op = "Set" /\ phase = "final") => m.id \in {"start"} \cup Requests)
    BY <1>1, <1>2 DEF OwnRequests
  <2> QED
    BY <2>1, <2>2
<1>9. op = "Get" /\ pc \in {"send", "recv"} /\ phase = "item" => m.id = "features" /\ m.arg <= item
  <2>1. op = "Get" /\ pc \in {"send", "recv"} /\ phase = "item" => m.id \in {"features"}
    BY <1>1, <1>2 DEF GetKnown
  <2>2. m = toDev[1] /\ 1 \in 1..Len(toDev) /\ ~m.stale
    BY TailFacts DEF m, TransferInv, LineOK
  <2>3. AskedSoFar(toDev) => m.arg <= item
    BY <2>2 DEF AskedSoFar
  <2> QED
    BY <1>2, <2>1, <2>3 DEF GetKnown
<1> QED
  BY <1>3, <1>5, <1>6, <1>7, <1>8, <1>9 DEF m

LEMMA DeviceStartSafe ==
    ASSUME TransferInv, SecureInv, Secure, DeviceStart
    PROVE  SecureInv'
<1> DEFINE m == Head(toDev)
           r == [id |-> "start", arg |-> <<>>, stale |-> m.stale]
<1>1. /\ toDev # <<>> /\ m.id = "start" /\ toDev' = Tail(toDev)
      /\ UNCHANGED <<pc, op, phase, item, num, result, well, bad, ret, synced, reboots, calm>>
  BY HistoryKept DEF DeviceStart, callVars, dataVars
<1>2. /\ toDev \in Seq(Message) /\ toHost \in Seq(Reply) /\ dev \in DeviceType /\ m \in Message
  BY <1>1, TailFacts DEF TransferInv, LineOK, DeviceType
<1>3. /\ dev'.users = dev.users /\ dev'.saved = dev.saved /\ dev'.config = dev.config /\ dev'.image = dev.image
      /\ reboots' = reboots
  BY <1>1, <1>2 DEF DeviceStart, DeviceType
<1>4. r \in Reply /\ r.id = "start" /\ r.stale = m.stale
  <2>1. "start" \in Ids /\ <<>> \in Seq(Nat) /\ m.stale \in BOOLEAN
    BY <1>2 DEF Ids, Message
  <2> HIDE DEF m
  <2> QED
    BY <2>1 DEF Reply
<1>5. toHost' = toHost \/ toHost' = Append(toHost, r)
  <2>1. m.stale \in BOOLEAN
    BY <1>2 DEF Message
  <2> QED
    BY <2>1 DEF DeviceStart, Emit
<1>6. CASE m.stale \/ toHost' = toHost
  <2>1. toHost' = toHost \/ \E q \in Reply : q.stale /\ toHost' = Append(toHost, q)
    BY <1>4, <1>5, <1>6
  <2> QED
    BY <1>1, <1>3, <2>1, StaleStep
<1>7. CASE ~m.stale /\ toHost' = Append(toHost, r)
  <2>1. /\ ~Quiet
        /\ pc = "startReply" => AllStale(Tail(toDev)) /\ AllStale(toHost)
        /\ op \notin KeyOps /\ synced /\ well =>
             pc # "send" /\ (pc = "recv" => Request.id = "start")
        /\ ~(pc = "start" /\ Midway)
        /\ ~(pc = "idle" /\ ret = "Ok" /\ op \notin KeyOps \cup {"Get"})
        /\ op = "Get" /\ pc \in {"send", "recv"} => phase # "item"
    BY <1>1, <1>7, FreshHead
  <2>2. pc = "recv" => Request.id # "start"
    BY RequestIs DEF TransferInv
  <2>3. Starting'
    <3>1. r = [id |-> "start", arg |-> <<>>, stale |-> FALSE]
      <4>1. m.stale = FALSE
        BY <1>2, <1>7 DEF Message
      <4> QED
        BY <4>1
    <3>2. AllStale(toHost) => HasOnly(toHost', r)
      <4> HIDE DEF r, m
      <4> QED
        BY <1>2, <1>4, <1>7, AppendKeeps
    <3> QED
      BY <1>1, <2>1, <3>1, <3>2 DEF Starting
  <2> HIDE DEF r, m
  <2>4. OwnRequests'
    BY <1>1, ReadKeepsOwn
  <2>5. Midway' = Midway
    BY <1>1 DEF Midway
  <2>6. Flow'
    BY <1>1, <2>1, <2>2, <2>5 DEF Flow
  <2>7. GetKnown'
    <3>2. \A k : Lags(k, result[k]) => Lags(k, result[k])'
      BY <1>1, <1>3 DEF Lags
    <3> QED
      BY <1>1, <1>3, <2>1, <3>2 DEF SecureInv, GetKnown
  <2>8. IdsKnown'
    BY <1>1, <1>3 DEF SecureInv, IdsKnown
  <2>9. SetKnown'
    BY <1>1, <1>3 DEF SecureInv, SetKnown, Imported, InFlash, Has
  <2>10. ImageKnown'
    BY <1>1, <1>3 DEF SecureInv, ImageKnown, ImageSoFar
  <2>11. ConfigKnown'
    BY <1>1, <1>3 DEF SecureInv, ConfigKnown
  <2> QED
    BY <2>3, <2>4, <2>6, <2>7, <2>8, <2>9, <2>10, <2>11 DEF SecureInv
<1> QED
  BY <1>5, <1>6, <1>7

LEMMA BegunNext ==
    ASSUME NEW n \in Nat, n > 0
    PROVE  Append(Begun(n), n) = Begun(n + 1)
<1>1. Begun(n) = [k \in 1..n |-> k - 1] /\ Begun(n + 1) = [k \in 1..(n + 1) |-> k - 1]
  BY DEF Begun
<1>2. Begun(n) \in Seq(Nat) /\ Len(Begun(n)) = n
  <2>1. \A k \in 1..n : k - 1 \in Nat
    OBVIOUS
  <2> QED
    BY <1>1, <2>1
<1>3. Append(Begun(n), n) = [k \in 1..(n + 1) |-> k - 1]
  <2> DEFINE b == Begun(n)
  <2>1. b \in Seq(Nat) /\ Len(b) = n /\ b = [k \in 1..n |-> k - 1]
    BY <1>1, <1>2
  <2> DEFINE c == Append(b, n)
             d == [k \in 1..(n + 1) |-> k - 1]
  <2>2. /\ c \in Seq(Nat) /\ Len(c) = n + 1
        /\ c[n + 1] = n /\ \A k \in 1..n : c[k] = k - 1
    BY <2>1, AppendFacts
  <2>3. d \in [1..(n + 1) -> Nat]
    OBVIOUS
  <2>4. d \in Seq(Nat) /\ Len(d) = n + 1 /\ \A k \in 1..(n + 1) : d[k] = k - 1
    BY <2>3
  <2> HIDE DEF b, c, d
  <2>5. \A k \in 1..Len(c) : c[k] = d[k]
    BY <2>2, <2>4
  <2>6. c = d
    BY <2>2, <2>4, <2>5, SeqEqual, Zenon
  <2> QED
    BY <2>6 DEF b, c, d
<1> QED
  BY <1>1, <1>3

\* The device does what the running exchange asks for, and answers it.
LEMMA ServeAnswers ==
    ASSUME TransferInv, SecureInv, Secure, pc = "recv", op \notin KeyOps, ImageSoFar,
           NEW m \in Message, m = Request, Carries(m, dev'), NEW r \in Reply, ReplyTo(m, r),
           UNCHANGED <<op, phase, item, num, result, reboots, calm>>
    PROVE  Answers(r)'
<1>1. /\ CallOK /\ PhaseKnown /\ phase # "open" /\ item \in Nat /\ Len(result) \in Nat /\ op \in Operations
      /\ Len(dev.users) \in Nat /\ dev.users \in Seq(Nat)
  BY DEF TransferInv, CallOK, PhaseKnown, LineOK
<1>2. CASE op = "Get" /\ phase = "count"
  <2>1. m.id = "count"
    BY <1>2 DEF Request
  <2>2. r.id = "count" /\ r.arg = <<Len(dev.users)>> /\ dev'.users = dev.users
    BY <2>1 DEF ReplyTo, Carries
  <2> QED
    BY <1>2, <2>2 DEF Answers
<1>3. CASE op = "Get" /\ phase = "item"
  <2>1. m.id = "features" /\ m.arg = item
    BY <1>3 DEF Request
  <2>2. /\ r.id = "features" /\ item < Len(dev.users) /\ r.arg = <<dev.users[item + 1]>>
        /\ dev'.users = dev.users
    BY <2>1 DEF ReplyTo, Carries
  <2> QED
    BY <1>3, <2>2 DEF Answers
<1>4. CASE op = "Set" /\ phase = "item"
  <2>1. m.id = "set" /\ m.arg = Import[item + 1]
    BY <1>4 DEF Request
  <2>2. r.id = "set" /\ dev'.users = (IF Has(m.arg) THEN dev.users ELSE Append(dev.users, m.arg))
    BY <2>1 DEF ReplyTo, Carries
  <2>3. Has(m.arg)'
    <3>1. CASE Has(m.arg)
      BY <2>2, <3>1 DEF Has
    <3>2. CASE ~Has(m.arg)
      <4>1. m.arg \in Nat
        BY DEF Message
      <4>2. Len(dev'.users) = Len(dev.users) + 1 /\ dev'.users[Len(dev.users) + 1] = m.arg
        BY <1>1, <2>2, <3>2, <4>1, AppendFacts
      <4>3. Len(dev.users) + 1 \in 1..Len(dev'.users)
        BY <1>1, <4>2
      <4> QED
        BY <4>2, <4>3, Zenon DEF Has
    <3> QED
      BY <3>1, <3>2
  <2> QED
    BY <1>4, <2>1, <2>2, <2>3 DEF Answers
<1>5. CASE op = "Ids"
  <2>1. m.id = "ids" /\ m.arg = Len(result)
    BY <1>5 DEF Request
  <2>2. /\ r.id = "ids" /\ dev'.users = dev.users
        /\ r.arg = SubSeq(dev.users, Len(result) + 1, Shorter(Len(result) + ChunkSize, Len(dev.users)))
    BY <2>1 DEF ReplyTo, Carries
  <2> QED
    BY <1>5, <2>2 DEF Answers
<1>6. CASE op = "Config" /\ phase = "count"
  <2>1. m.id = "queryConfig"
    BY <1>6 DEF Request
  <2>2. r.id = "queryConfig"
    BY <2>1 DEF ReplyTo
  <2> QED
    BY <1>6, <2>2 DEF Answers
<1>7. CASE op = "Config" /\ phase = "final"
  <2>1. m.id = "setConfig" /\ m.arg = num
    BY <1>7 DEF Request
  <2>2. r.id = "setConfig" /\ dev'.config = num
    BY <2>1 DEF ReplyTo, Carries
  <2> QED
    BY <1>7, <2>2 DEF Answers
<1>8. CASE op = "Image" /\ phase = "item"
  <2>1. m.id = "chunk" /\ m.arg = item
    BY <1>8 DEF Request
  <2>2. r.id = "chunk" /\ dev'.image = (IF item = 0 THEN <<0>> ELSE Append(dev.image, item))
    BY <2>1 DEF ReplyTo, Carries
  <2>3. reboots = 0 => dev'.image = Begun(item + 1)
    <3>1. CASE item = 0
      <4>1. Begun(1) = <<0>>
        BY DEF Begun
      <4> QED
        BY <2>2, <3>1, <4>1
    <3>2. CASE item > 0
      <4>1. reboots = 0 => dev.image = Begun(item)
        BY <1>8, <3>2 DEF ImageSoFar
      <4>2. dev'.image = Append(dev.image, item)
        BY <2>2, <3>2
      <4>3. Append(Begun(item), item) = Begun(item + 1)
        BY <1>1, <3>2, BegunNext
      <4> QED
        BY <4>1, <4>2, <4>3, Zenon
    <3> QED
      BY <1>1, <3>1, <3>2
  <2> QED
    BY <1>8, <2>2, <2>3 DEF Answers
<1>9. CASE op = "Image" /\ phase = "final"
  <2>1. m.id = "enrollImage"
    BY <1>9 DEF Request
  <2>2. r.id = "reply" /\ dev'.image = dev.image
    BY <2>1 DEF ReplyTo, Carries
  <2>3. reboots = 0 => dev.image = Begun(Chunks)
    BY <1>9 DEF ImageSoFar
  <2> QED
    BY <1>9, <2>2, <2>3 DEF Answers
<1>10. CASE op \in Removals
  <2>1. m.id \in {"removeAll", "removeUser"}
    BY <1>10 DEF Request, Removals, KeyOps
  <2>2. r.id = "reply"
    BY <2>1 DEF ReplyTo
  <2> QED
    BY <1>10, <2>2 DEF Answers, Removals
<1>11. CASE op = "Set" /\ phase = "final"
  <2>1. m.id = "standby"
    BY <1>11 DEF Request
  <2>2. r.id = "reply" /\ dev'.users = dev.users /\ (r.arg = <<1>> => dev'.saved = dev.users)
    BY <2>1 DEF ReplyTo, Carries
  <2> QED
    BY <1>11, <2>2 DEF Answers
<1> QED
  BY <1>1, <1>2, <1>3, <1>4, <1>5, <1>6, <1>7, <1>8, <1>9, <1>10, <1>11 DEF PhaseKnown, Operations

\* A request that the device may refuse.
LEMMA RefusableIs ==
    ASSUME PhaseKnown, pc = "recv", op \notin KeyOps, op \in Operations, Refused(Request)
    PROVE  Refusable
<1>1. Request.id \in {"count", "features", "set", "ids", "queryConfig", "setConfig"}
  BY DEF Refused, DataIds
<1>2. op = "Set" /\ phase = "final" => Request.id = "standby"
  BY DEF Request
<1>3. op = "Image" => Request.id \in {"chunk", "enrollImage"}
  BY DEF Request, PhaseKnown
<1>4. op \in Removals => Request.id \in {"removeAll", "removeUser"}
  BY DEF Request, Removals, KeyOps
<1> QED
  BY <1>1, <1>2, <1>3, <1>4 DEF Refusable, PhaseKnown, Operations

LEMMA ServeSafe ==
    ASSUME TransferInv, SecureInv, Secure, DeviceServe
    PROVE  SecureInv'
<1>1. PICK m : m = Head(toDev)
  OBVIOUS
<1>2. /\ toDev # <<>> /\ toDev' = Tail(toDev) /\ m \in Message /\ m.id # "start" /\ ~Dropped(m)
      /\ (Carried(m) /\ Carries(m, dev')) \/ Refused(m)
      /\ UNCHANGED <<pc, op, phase, item, num, result, well, bad, ret, synced, reboots, calm>>
  BY <1>1, ServeIs, HistoryKept DEF TransferInv
<1>3. /\ toDev \in Seq(Message) /\ toHost \in Seq(Reply) /\ dev \in DeviceType
      /\ dev.users \in Seq(Nat) /\ Len(dev.users) \in Nat /\ CallOK /\ PhaseKnown /\ item \in Nat
  BY DEF TransferInv, LineOK, DeviceType, CallOK
<1>4. CASE m.id = "hostKey"
  <2>1. Carried(m) /\ Carries(m, dev')
    BY <1>2, <1>4 DEF Refused, DataIds
  <2>2. toHost' = toHost \/ \E r \in Reply : r.stale /\ toHost' = Append(toHost, r)
    BY <1>4, <2>1 DEF Carried, ReplyTo
  <2>3. /\ dev'.users = dev.users /\ dev'.saved = dev.saved
        /\ dev'.config = dev.config /\ dev'.image = dev.image
    BY <1>4, <2>1 DEF Carries
  <2> QED
    BY <1>2, <2>2, <2>3, StaleStep
<1>5. CASE m.id # "hostKey"
  <2>1. ~m.stale /\ dev.fresh
    BY <1>2, <1>5 DEF Dropped
  <2> DEFINE Replied(r) == /\ toHost' = Append(toHost, r) /\ ~r.stale
                           /\ \/ ReplyTo(m, r) /\ Carries(m, dev')
                              \/ r.id = "refused" /\ Refused(m)
  <2>2. toHost' = toHost \/ \E r \in Reply : Replied(r)
    BY <1>2, <1>5, <2>1 DEF Carried, Refused, ReplyTo
  <2>3. /\ pc # "startReply"
        /\ op \notin KeyOps /\ synced /\ well =>
             /\ pc # "send"
             /\ pc = "recv" => /\ m = Request /\ AllStale(Tail(toDev)) /\ AllStale(toHost) /\ ImageSoFar
        /\ ~(pc = "start" /\ Midway)
        /\ ~(pc = "idle" /\ ret = "Ok" /\ op \notin KeyOps \cup {"Get"})
    BY <1>1, <1>2, <2>1, FreshHead
  <2>4. /\ op \notin KeyOps /\ (pc \in {"send", "recv"} \/ (pc = "idle" /\ ret = "Ok")
               \/ (pc = "start" /\ op = "Set" /\ phase = "final")) => m.id \in Requests
        /\ ~(op \notin KeyOps /\ pc = "send" /\ op \notin {"Get", "Set"})
        /\ op = "Get" /\ pc \in {"send", "recv"} /\ phase = "item" => m.id = "features" /\ m.arg <= item
    BY <1>1, <1>2, <2>1, FreshHead
  <2>5. /\ m.id \notin {"set", "removeAll", "removeUser"} => dev'.users = dev.users
        /\ m.id # "standby" => dev'.saved = dev.saved
    BY <1>2 DEF Carries, Refused
  <2>6. Starting'
    BY <1>2, <2>3 DEF Starting
  <2>7. OwnRequests'
    BY <1>2, ReadKeepsOwn
  <2>8. Flow'
    <3>1. ASSUME op \notin KeyOps, synced, well, pc = "recv"
          PROVE  \/ Quiet'
                 \/ /\ AllStale(toDev')
                    /\ (\E i \in 1..Len(toHost) : HasOnly(toHost, toHost[i]) /\ Answers(toHost[i]))'
      <4>1. m = Request /\ AllStale(toDev') /\ AllStale(toHost) /\ ImageSoFar
        BY <1>2, <2>3, <3>1
      <4>2. CASE toHost' = toHost
        BY <4>1, <4>2 DEF Quiet
      <4>3. CASE \E r \in Reply : Replied(r)
        <5>1. PICK r \in Reply : Replied(r)
          BY <4>3
        <5>2. HasOnly(toHost', r)
          BY <1>3, <4>1, <5>1, AppendKeeps
        <5>3. Answers(r)'
          <6>1. CASE ReplyTo(m, r) /\ Carries(m, dev')
            BY <1>2, <3>1, <4>1, <6>1, ServeAnswers
          <6>2. CASE r.id = "refused" /\ Refused(m)
            <7>1. Refusable
              <8>1. Refused(Request) /\ PhaseKnown /\ op \in Operations
                BY <1>3, <4>1, <6>2 DEF CallOK
              <8> QED
                BY <3>1, <8>1, RefusableIs
            <7> QED
              BY <1>2, <6>2, <7>1 DEF Answers, Refusable
          <6> QED
            BY <5>1, <6>1, <6>2
        <5>4. Len(toHost) + 1 \in 1..Len(toHost') /\ toHost'[Len(toHost) + 1] = r
          BY <1>3, <5>1, AppendFacts
        <5>5. PICK i \in 1..Len(toHost') : toHost'[i] = r
          BY <5>4
        <5> QED
          BY <4>1, <5>2, <5>3, <5>5
      <4> QED
        BY <2>2, <4>2, <4>3
    <3>2. Midway' = Midway
      BY <1>2 DEF Midway
    <3> QED
      BY <1>2, <2>3, <3>1, <3>2 DEF Flow
  <2>9. GetKnown'
    <3>1. CASE op = "Get" /\ (pc \in {"send", "recv"} \/ (pc = "idle" /\ ret = "Ok"))
      <4>1. m.id \in {"count", "features"}
        BY <2>4, <3>1 DEF Requests, KeyOps
      <4>2. dev'.users = dev.users
        BY <2>5, <4>1
      <4>3. \A n, f : Lags(n, f) => Lags(n, f)'
        BY <4>2 DEF Lags
      <4>4. CASE pc \in {"send", "recv"} /\ phase = "item"
        <5>1. /\ synced /\ FreshIn(toDev, {"features"}) /\ FreshIn(toHost, {"features", "refused"})
              /\ AskedSoFar(toDev) /\ m.id = "features" /\ m.arg <= item
          BY <2>4, <3>1, <4>4 DEF SecureInv, GetKnown
        <5>2. FreshIn(toDev', {"features"})
          BY <1>2, <1>3, <5>1, TailKeeps
        <5>3. AskedSoFar(toDev)'
          <6>1. Within(toDev', toDev)
            BY <1>2, <1>3, TailWithin
          <6> QED
            BY <1>2, <5>1, <6>1 DEF AskedSoFar, Within
        <5>4. /\ FreshIn(toHost', {"features", "refused"})
              /\ SentSoFar(toHost) => SentSoFar(toHost)'
          <6>1. CASE toHost' = toHost
            BY <1>2, <4>3, <5>1, <6>1 DEF SentSoFar
          <6>2. CASE \E r \in Reply : Replied(r)
            <7>1. PICK r \in Reply : Replied(r)
              BY <6>2
            <7>2. /\ r.id = "refused" \/ (/\ r.id = "features" /\ m.arg < Len(dev.users)
                                         /\ r.arg = <<dev.users[m.arg + 1]>>)
              BY <5>1, <7>1 DEF ReplyTo
            <7>3. r.id = "refused" \/ Lags(item + 1, r.arg[1])'
              <8>1. m.arg \in Nat /\ m.arg + 1 \in 1..(item + 1)
                BY <1>2, <1>3, <5>1 DEF Message
              <8>2. Lags(item + 1, dev.users[m.arg + 1])
                BY <8>1 DEF Lags
              <8> QED
                BY <1>2, <4>3, <7>2, <8>2
            <7>4. FreshIn(toHost', {"features", "refused"})
              BY <1>3, <5>1, <7>1, <7>2, AppendKeeps
            <7>5. /\ Len(toHost') = Len(toHost) + 1 /\ Len(toHost) \in Nat /\ toHost'[Len(toHost) + 1] = r
                  /\ \A i \in 1..Len(toHost) : toHost'[i] = toHost[i]
              BY <1>3, <7>1, AppendFacts
            <7>6. \A i \in 1..Len(toHost') : i \in 1..Len(toHost) \/ i = Len(toHost) + 1
              BY <7>5
            <7>7. SentSoFar(toHost) => SentSoFar(toHost)'
              BY <1>2, <4>3, <7>3, <7>5, <7>6 DEF SentSoFar
            <7> QED
              BY <7>4, <7>7
          <6> QED
            BY <2>2, <6>1, <6>2
        <5> HIDE DEF Replied
        <5> QED
          BY <1>2, <3>1, <4>2, <4>3, <4>4, <5>1, <5>2, <5>3, <5>4 DEF SecureInv, GetKnown
      <4>5. CASE ~(pc \in {"send", "recv"} /\ phase = "item")
        BY <1>2, <3>1, <4>2, <4>3, <4>5 DEF SecureInv, GetKnown
      <4> QED
        BY <4>4, <4>5
    <3>2. CASE ~(op = "Get" /\ (pc \in {"send", "recv"} \/ (pc = "idle" /\ ret = "Ok")))
      BY <1>2, <3>2 DEF GetKnown
    <3> QED
      BY <3>1, <3>2
  <2>10. IdsKnown'
    <3>1. CASE op = "Ids" /\ pc = "start"
      <4>1. item = 0
        BY <1>3, <2>3, <3>1 DEF Midway
      <4>2. Len(dev'.users) \in Nat
        BY <1>2, <1>3 DEF Carries, Refused, DeviceType
      <4> QED
        BY <1>2, <3>1, <4>1, <4>2 DEF IdsKnown
    <3>2. CASE op = "Ids" /\ pc = "recv"
      <4>1. m.id \in {"ids"}
        BY <2>4, <3>2 DEF Requests, KeyOps
      <4>2. dev'.users = dev.users
        BY <2>5, <4>1
      <4> QED
        BY <1>2, <3>2, <4>2 DEF SecureInv, IdsKnown
    <3>3. CASE op = "Ids" /\ pc = "idle"
      BY <1>2, <2>3, <3>3 DEF IdsKnown, KeyOps
    <3>4. ~(op = "Ids" /\ pc \in {"startReply", "send"})
      BY <2>3, <2>4 DEF KeyOps
    <3> QED
      BY <1>2, <1>3, <3>1, <3>2, <3>3, <3>4 DEF IdsKnown, CallOK
  <2>11. SetKnown'
    <3>1. CASE op = "Set" /\ pc # "idle" /\ phase # "open"
      <4>1. pc \in {"send", "recv"} \/ (pc = "start" /\ phase = "final")
        BY <1>3, <2>3, <3>1 DEF CallOK, PhaseKnown, Opens
      <4>2. m.id \in {"set", "standby"}
        BY <2>4, <3>1, <4>1 DEF Requests, KeyOps
      <4>3. \A u : Has(u) => Has(u)'
        <5>1. dev'.users = dev.users \/ (m.arg \in Nat /\ dev'.users = Append(dev.users, m.arg))
          BY <1>2, <4>2 DEF Carries, Refused, Message
        <5>2. CASE dev'.users = dev.users
          BY <5>2 DEF Has
        <5>3. CASE m.arg \in Nat /\ dev'.users = Append(dev.users, m.arg)
          <6>1. \A k \in 1..Len(dev.users) : k \in 1..Len(dev'.users) /\ dev'.users[k] = dev.users[k]
            BY <1>3, <5>3, AppendFacts
          <6> QED
            BY <6>1 DEF Has
        <5> QED
          BY <5>1, <5>2, <5>3
      <4>4. \A n : Imported(n) => Imported(n)'
        BY <4>3 DEF Imported
      <4> QED
        BY <1>2, <3>1, <4>4 DEF SecureInv, SetKnown
    <3>2. CASE ~(op = "Set" /\ pc # "idle" /\ phase # "open")
      BY <1>2, <2>3, <3>2 DEF SetKnown, KeyOps
    <3> QED
      BY <3>1, <3>2
  <2>12. ImageKnown'
    <3>1. CASE op = "Image"
      <4>1. pc \notin {"startReply", "send"} /\ ~(pc = "idle" /\ ret = "Ok")
        BY <2>3, <2>4, <3>1 DEF KeyOps
      <4>2. pc = "start" => ~(item > 0 \/ phase = "final")
        BY <2>3, <3>1 DEF Midway
      <4> QED
        BY <1>2, <4>1, <4>2 DEF ImageKnown, ImageSoFar
    <3>2. CASE op # "Image"
      BY <1>2, <3>2 DEF ImageKnown
    <3> QED
      BY <3>1, <3>2
  <2>13. ConfigKnown'
    <3>1. ~(op = "Config" /\ pc = "idle" /\ ret = "Ok")
      BY <2>3 DEF KeyOps
    <3> QED
      BY <1>2, <3>1 DEF ConfigKnown
  <2> QED
    BY <2>6, <2>7, <2>8, <2>9, <2>10, <2>11, <2>12, <2>13 DEF SecureInv
<1> QED
  BY <1>4, <1>5

LEMMA RebootSafe ==
    ASSUME TransferInv, SecureInv, Reboot
    PROVE  SecureInv'
<1>1. /\ toDev' = <<>> /\ UNCHANGED <<pc, op, phase, item, num, result, well, bad, ret, synced, toHost>>
      /\ ~calm' /\ reboots' = reboots + 1
  BY DEF Reboot, callVars, dataVars
<1>2. dev \in DeviceType /\ reboots \in Nat
  BY DEF TransferInv, LineOK, DeviceType
<1>3. dev'.config = dev.config /\ reboots' # 0
  <2>1. PICK kept \in {dev.saved, dev.users} :
          dev' = [dev EXCEPT !.fresh = FALSE, !.image = <<>>, !.users = kept, !.saved = kept]
    BY DEF Reboot
  <2> QED
    BY <1>1, <1>2, <2>1 DEF DeviceType
<1>4. AllStale(toDev') /\ (\A ids : FreshIn(toDev', ids)) /\ AskedSoFar(toDev)'
  BY <1>1 DEF AllStale, FreshIn, AskedSoFar
<1>5. Starting'
  BY <1>1, <1>4 DEF SecureInv, Starting, Quiet
<1>6. OwnRequests'
  BY <1>1, <1>4 DEF OwnRequests
<1>7. Flow'
  <2>1. ASSUME op \notin KeyOps, synced, well, pc = "recv"
        PROVE  \/ Quiet'
               \/ /\ AllStale(toDev')
                  /\ (\E i \in 1..Len(toHost) : HasOnly(toHost, toHost[i]) /\ Answers(toHost[i]))'
    <3>1. CASE AllStale(toHost)
      BY <1>1, <1>4, <3>1 DEF Quiet
    <3>2. CASE ~AllStale(toHost)
      <4>1. PICK i \in 1..Len(toHost) : HasOnly(toHost, toHost[i]) /\ Answers(toHost[i])
        BY <2>1, <3>2 DEF SecureInv, Flow, Quiet
      <4>2. \A r : Answers(r) => Answers(r)'
        BY <1>1, <1>3 DEF Answers, Refusable
      <4>3. PICK r : r = toHost[i]
        OBVIOUS
      <4>4. HasOnly(toHost', r) /\ Answers(r)' /\ i \in 1..Len(toHost') /\ toHost'[i] = r
        BY <1>1, <4>1, <4>2, <4>3
      <4> QED
        BY <1>4, <4>4
    <3> QED
      BY <3>1, <3>2
  <2>2. Quiet => Quiet'
    BY <1>1, <1>4 DEF Quiet
  <2>3. Midway' = Midway
    BY <1>1 DEF Midway
  <2> QED
    BY <1>1, <2>1, <2>2, <2>3 DEF SecureInv, Flow
<1>8. GetKnown'
  BY <1>1, <1>4 DEF SecureInv, GetKnown
<1>9. IdsKnown' /\ SetKnown'
  BY <1>1 DEF IdsKnown, SetKnown
<1>10. ImageKnown'
  BY <1>3 DEF ImageKnown, ImageSoFar
<1>11. ConfigKnown'
  BY <1>1, <1>3 DEF SecureInv, ConfigKnown
<1> QED
  BY <1>5, <1>6, <1>7, <1>8, <1>9, <1>10, <1>11 DEF SecureInv

LEMMA DeviceDropSafe ==
    ASSUME TransferInv, SecureInv, DeviceDrop
    PROVE  SecureInv'
<1>1. /\ toDev # <<>> /\ toDev' = Tail(toDev) /\ toHost' = toHost /\ dev' = dev
      /\ UNCHANGED <<pc, op, phase, item, num, result, well, bad, ret, synced, reboots, calm>>
  BY HistoryKept DEF DeviceDrop, callVars, dataVars
<1> QED
  BY <1>1, StaleStep

LEMMA SafeInit == Init => SecureInv
BY DEF Init, SecureInv, Starting, OwnRequests, Flow, GetKnown, IdsKnown, SetKnown, ImageKnown, ConfigKnown

LEMMA SafeStutter ==
    ASSUME SecureInv, UNCHANGED vars
    PROVE  SecureInv'
<1> USE DEF vars, callVars, dataVars, history
<1>1. Starting' /\ OwnRequests'
  BY DEF SecureInv, Starting, OwnRequests, Requests, Quiet
<1>2. Flow'
  <2>1. ImageSoFar' = ImageSoFar /\ Midway' = Midway /\ Quiet' = Quiet /\ Request' = Request
    BY DEF ImageSoFar, Midway, Quiet, Request, KeyRequest
  <2>2. \A r : Answers(r)' = Answers(r)
    BY DEF Answers, Refusable, Has
  <2> QED
    BY <2>1, <2>2 DEF SecureInv, Flow
<1>3. GetKnown'
  <2>1. \A n, f : Lags(n, f)' = Lags(n, f)
    BY DEF Lags
  <2>2. AskedSoFar(toDev)' = AskedSoFar(toDev) /\ SentSoFar(toHost)' = SentSoFar(toHost)
    BY <2>1 DEF AskedSoFar, SentSoFar
  <2> QED
    BY <2>1, <2>2 DEF SecureInv, GetKnown
<1>4. IdsKnown' /\ SetKnown' /\ ImageKnown' /\ ConfigKnown'
  BY DEF SecureInv, IdsKnown, SetKnown, Imported, InFlash, Has, ImageKnown, ImageSoFar, ConfigKnown
<1> QED
  BY <1>1, <1>2, <1>3, <1>4 DEF SecureInv

LEMMA SafeStep == Secure /\ TransferInv /\ SecureInv /\ [Next]_vars => SecureInv'
<1> SUFFICES ASSUME Secure, TransferInv, SecureInv, [Next]_vars PROVE SecureInv'
  OBVIOUS
<1>1. TransferInv'
  BY InvStep
<1>2. ASSUME NEW o \in Ops, Enter(o) PROVE SecureInv'
  BY <1>2, EnterSafe
<1>3. CASE StartSend
  BY <1>3, StartSendSafe
<1>4. CASE StartReply
  BY <1>4, StartReplySafe
<1>5. CASE StartTimeout \/ RecvTimeout \/ RecvRefused
  BY <1>5, GaveUpSafe
<1>6. CASE Send
  BY <1>6, SendSafe
<1>7. CASE Recv
  BY <1>1, <1>7, RecvSafe
<1>8. CASE DeviceStart
  BY <1>8, DeviceStartSafe
<1>9. CASE DeviceDrop
  BY <1>9, DeviceDropSafe
<1>10. CASE DeviceServe
  BY <1>10, ServeSafe
<1>11. CASE Reboot
  BY <1>11, RebootSafe
<1>12. CASE UNCHANGED vars
  BY <1>12, SafeStutter
<1> QED
  BY <1>2, <1>3, <1>4, <1>5, <1>6, <1>7, <1>8, <1>9, <1>10, <1>11, <1>12 DEF Next

-----------------------------------------------------------------------------
(* The keys of Pair and Unpair.                                             *)

\* Every step of another operation leaves it.
LEMMA OperationKept ==
    ASSUME StartSend \/ StartReply \/ StartTimeout \/ Send \/ RecvTimeout \/ RecvRefused \/ Recv
    PROVE  op' = op
<1> USE DEF callVars, Goto, Return
<1>1. \A status : Failed(status) => op' = op
  BY DEF Failed, FailedGet, FailedSet, FailedConfig, FailedImage, IdsFailed, NextGet, NextSet
<1>2. Opened => op' = op
  BY DEF Opened, NextSet
<1>3. GetThrown => op' = op
  BY DEF GetThrown, NextGet
<1>4. Recv => op' = op
  BY <1>1 DEF Recv, KeyReply, GetCount, GetUser, SetUser, SetEnd, IdsChunk, IdsFailed, ConfigReply,
              ImageReply, RemoveReply, NextGet, NextSet
<1> QED
  BY <1>1, <1>2, <1>3, <1>4
     DEF StartSend, StartReply, StartTimeout, Send, RecvTimeout, RecvRefused

\* The answer that Pair or Unpair takes is the answer to its own key.
LEMMA PairStep == TransferInv /\ PairKnown /\ [Next]_vars => PairKnown'
<1> SUFFICES ASSUME TransferInv, PairKnown, [Next]_vars PROVE PairKnown'
  OBVIOUS
<1> USE DEF OnlyKey, NoKey, NoAnswer
<1>1. /\ toDev \in Seq(Message) /\ toHost \in Seq(Reply) /\ dev \in DeviceType /\ PhaseKnown
      /\ Len(toDev) \in Nat /\ Len(toHost) \in Nat
  BY DEF TransferInv, LineOK, DeviceType, CallOK
<1>2. op' = op => KeyRequest' = KeyRequest
  BY DEF KeyRequest
<1>3. ASSUME NEW o \in Ops, Enter(o) PROVE PairKnown'
  <2>1. op' = o /\ (o \in KeyOps => pc' = "send") /\ toDev' = toDev /\ toHost' = toHost
        /\ (clear' /\ o \in KeyOps => NoKey(toDev) /\ NoAnswer(toHost))
    BY <1>3 DEF Enter, KeyOps
  <2> QED
    BY <2>1 DEF PairKnown
<1>4. CASE StartSend \/ StartReply \/ StartTimeout
  <2>1. op \notin KeyOps
    BY <1>1, <1>4 DEF StartSend, StartReply, StartTimeout, PhaseKnown
  <2> QED
    BY <1>4, <2>1, OperationKept DEF PairKnown
<1>5. CASE op \notin KeyOps /\ (Send \/ RecvTimeout \/ RecvRefused \/ Recv)
  BY <1>5, OperationKept DEF PairKnown
<1>6. op \in KeyOps => \A status : Failed(status) => pc' = "idle" /\ ret' = "Error"
  BY DEF Failed, FailedGet, FailedSet, FailedConfig, FailedImage, Return, KeyOps
<1>7. CASE op \in KeyOps /\ Send
  <2>1. op' = op /\ clear' = clear /\ toHost' = toHost /\ pc = "send"
    BY <1>7, OperationKept, HistoryKept DEF Send
  <2>2. CASE toDev' = Append(toDev, Request) /\ pc' = "recv"
    <3>1. Request = KeyRequest /\ Request \in Message
      BY <1>7, <2>1, RequestIs DEF TransferInv
    <3>5. KeyRequest.id = "hostKey"
      BY DEF KeyRequest
    <3>2. /\ Len(toDev') = Len(toDev) + 1 /\ toDev'[Len(toDev) + 1] = Request
          /\ \A i \in 1..Len(toDev) : toDev'[i] = toDev[i]
      BY <1>1, <2>2, <3>1, AppendFacts
    <3>3. \A i \in 1..Len(toDev') : i \in 1..Len(toDev) \/ i = Len(toDev) + 1
      BY <1>1, <3>2
    <3>4. NoKey(toDev) => OnlyKey(toDev', KeyRequest.arg)
      BY <3>1, <3>2, <3>3, <3>5
    <3> QED
      BY <1>2, <2>1, <2>2, <3>4 DEF PairKnown
  <2>3. CASE pc' = "idle" /\ ret' = "Error"
    BY <2>3 DEF PairKnown
  <2> QED
    BY <1>6, <1>7, <2>2, <2>3 DEF Send, GetThrown, KeyOps
<1>8. CASE op \in KeyOps /\ (RecvTimeout \/ RecvRefused)
  BY <1>6, <1>8 DEF RecvTimeout, RecvRefused, PairKnown
<1>9. CASE op \in KeyOps /\ Recv
  <2>1. /\ op' = op /\ clear' = clear /\ toDev' = toDev /\ dev' = dev /\ pc = "recv" /\ toHost # <<>>
        /\ pc' = "idle" /\ (ret' = "Ok" => Head(toHost).id = "deviceKey")
    <3>1. KeyReply(Head(toHost))
      BY <1>9 DEF Recv, GetCount, GetUser, SetUser, SetEnd, IdsChunk, ConfigReply, ImageReply,
                  RemoveReply, Removals, KeyOps
    <3> QED
      BY <1>9, <3>1, OperationKept, HistoryKept DEF Recv, KeyReply, Return
  <2>2. ret' = "Ok" => ~NoAnswer(toHost)
    BY <1>1, <2>1, TailFacts
  <2> QED
    BY <1>2, <2>1, <2>2 DEF PairKnown
<1>10. ASSUME toDev # <<>>, toDev' = Tail(toDev), UNCHANGED <<pc, op, ret, clear>>,
              \/ Head(toDev).id = "hostKey" /\ dev'.host = Head(toDev).arg
              \/ /\ dev'.host = dev.host
                 /\ \/ toHost' = toHost
                    \/ \E r \in Reply : r.id # "deviceKey" /\ toHost' = Append(toHost, r)
       PROVE  PairKnown'
  <2>1. \A i \in 1..Len(toDev') : \E j \in 1..Len(toDev) : toDev'[i] = toDev[j]
    BY <1>1, <1>10, TailWithin DEF Within
  <2>2. (NoKey(toDev) => NoKey(toDev')) /\ \A key : OnlyKey(toDev, key) => OnlyKey(toDev', key)
    BY <2>1
  <2>3. CASE Head(toDev).id = "hostKey" /\ dev'.host = Head(toDev).arg
    <3>1. ~NoKey(toDev) /\ \A key : OnlyKey(toDev, key) => dev'.host = key
      <4>1. 1 \in 1..Len(toDev) /\ Head(toDev) = toDev[1]
        BY <1>1, <1>10, TailFacts
      <4> QED
        BY <2>3, <4>1
    <3> QED
      BY <1>2, <1>10, <2>2, <3>1 DEF PairKnown
  <2>4. CASE /\ dev'.host = dev.host
             /\ \/ toHost' = toHost
                \/ \E r \in Reply : r.id # "deviceKey" /\ toHost' = Append(toHost, r)
    <3>1. NoAnswer(toHost) => NoAnswer(toHost')
      <4>1. CASE toHost' = toHost
        BY <4>1
      <4>2. ASSUME NEW r \in Reply, r.id # "deviceKey", toHost' = Append(toHost, r)
            PROVE  NoAnswer(toHost) => NoAnswer(toHost')
        <5>1. /\ Len(toHost') = Len(toHost) + 1 /\ toHost'[Len(toHost) + 1] = r
              /\ \A i \in 1..Len(toHost) : toHost'[i] = toHost[i]
          BY <1>1, <4>2, AppendFacts
        <5>2. \A i \in 1..Len(toHost') : i \in 1..Len(toHost) \/ i = Len(toHost) + 1
          BY <1>1, <5>1
        <5> QED
          BY <4>2, <5>1, <5>2
      <4> QED
        BY <2>4, <4>1, <4>2
    <3> QED
      BY <1>2, <1>10, <2>2, <2>4, <3>1 DEF PairKnown
  <2> QED
    BY <1>10, <2>3, <2>4
<1>11. CASE DeviceStart
  <2>1. /\ toDev # <<>> /\ toDev' = Tail(toDev) /\ UNCHANGED <<pc, op, ret, clear>>
        /\ dev'.host = dev.host
    BY <1>1, <1>11, HistoryKept DEF DeviceStart, callVars, DeviceType
  <2>2. toHost' = toHost \/ \E r \in Reply : r.id # "deviceKey" /\ toHost' = Append(toHost, r)
    <3>1. Head(toDev) \in Message
      BY <1>1, <2>1, TailFacts
    <3>2. "start" \in Ids /\ <<>> \in Seq(Nat) /\ (~Head(toDev).stale) \in BOOLEAN
      BY <3>1 DEF Ids, Message
    <3>3. toHost' = toHost \/ Emit("start", <<>>, ~Head(toDev).stale)
      BY <1>11 DEF DeviceStart
    <3> QED
      BY <3>2, <3>3, EmitIs
  <2> QED
    BY <1>10, <2>1, <2>2
<1>12. CASE DeviceDrop
  BY <1>10, <1>12, HistoryKept DEF DeviceDrop, callVars
<1>13. CASE DeviceServe
  <2>1. /\ toDev # <<>> /\ toDev' = Tail(toDev) /\ UNCHANGED <<pc, op, ret, clear>>
        /\ (Carried(Head(toDev)) /\ Carries(Head(toDev), dev')) \/ Refused(Head(toDev))
    BY <1>13, ServeIs, HistoryKept DEF TransferInv
  <2>2. CASE Head(toDev).id = "hostKey"
    BY <1>10, <2>1, <2>2 DEF Carries, Refused, DataIds
  <2>3. CASE Head(toDev).id # "hostKey"
    <3>1. dev'.host = dev.host
      BY <2>1, <2>3 DEF Carries, Refused
    <3>2. toHost' = toHost \/ \E r \in Reply : r.id # "deviceKey" /\ toHost' = Append(toHost, r)
      BY <2>1, <2>3 DEF Carried, ReplyTo, Refused
    <3> QED
      BY <1>10, <2>1, <3>1, <3>2
  <2> QED
    BY <2>2, <2>3
<1>14. CASE Reboot
  <2>1. /\ toDev' = <<>> /\ toHost' = toHost /\ UNCHANGED <<pc, op, ret, clear>>
        /\ dev'.host = dev.host
    BY <1>1, <1>14 DEF Reboot, callVars, DeviceType
  <2>2. NoKey(toDev') /\ \A key : OnlyKey(toDev', key)
    BY <2>1
  <2> QED
    BY <1>2, <2>1, <2>2 DEF PairKnown
<1>15. CASE UNCHANGED vars
  BY <1>2, <1>15 DEF PairKnown, vars, callVars, history
<1> QED
  BY <1>3, <1>4, <1>5, <1>7, <1>8, <1>9, <1>11, <1>12, <1>13, <1>14, <1>15 DEF Next

-----------------------------------------------------------------------------
(* The properties.                                                          *)

\* In the secure build one packet of the session at most is on its way while an exchange runs, the
\* request or its reply, until one exchange fails (SecureSession under FaceAuthenticatorImpl).
THEOREM TransferInvariant == Spec => [](TransferInv /\ PairKnown /\ (Secure => SecureInv))
<1>1. Init => TransferInv /\ PairKnown /\ (Secure => SecureInv)
  BY InvInit, SafeInit DEF Init, PairKnown, KeyOps
<1>2. TransferInv /\ PairKnown /\ (Secure => SecureInv) /\ [Next]_vars
        => (TransferInv /\ PairKnown /\ (Secure => SecureInv))'
  <2>1. Secure' = Secure
    OBVIOUS
  <2> QED
    BY <2>1, InvStep, PairStep, SafeStep
<1> QED
  BY <1>1, <1>2, PTL DEF Spec

\* GetUsersFaceprints: on Ok, with all_is_well, every entry it counts holds the features of the user of
\* that place; without, an entry is missing or that of a user asked for before.
THEOREM ExportedInPlaceHolds == Spec => []ExportedInPlace
<1>1. TransferInv /\ (Secure => SecureInv) => ExportedInPlace
  BY DEF SecureInv, GetKnown, Lags, ExportedInPlace, Returned
<1> QED
  BY <1>1, TransferInvariant, PTL

\* QueryUserIds: on Ok the ids are the first ones of the device, in order, as many as were asked for.
THEOREM IdsInOrderHolds == Spec => []IdsInOrder
<1>1. ASSUME TransferInv, Secure => SecureInv PROVE IdsInOrder
  <2> SUFFICES ASSUME Secure, calm, Returned("Ids")
               PROVE  num = Shorter(Asked, Len(dev.users)) /\ result = SubSeq(dev.users, 1, num)
    BY DEF IdsInOrder
  <2>1. /\ num = Shorter(Asked, Len(dev.users)) /\ Len(result) = num
        /\ \A k \in 1..num : result[k] = dev.users[k]
    BY <1>1 DEF SecureInv, IdsKnown, Returned
  <2>2. result \in Seq(Nat) /\ dev.users \in Seq(Nat) /\ Len(dev.users) \in Nat /\ num \in Nat
    BY <1>1 DEF TransferInv, CallOK, LineOK
  <2> DEFINE t == SubSeq(dev.users, 1, num)
  <2>3. num <= Len(dev.users)
    BY <2>1, <2>2, ConstantFacts DEF Shorter
  <2>4. t \in Seq(Nat) /\ Len(t) = num /\ \A k \in 1..num : t[k] = dev.users[k]
    BY <2>2, <2>3, PrefixFacts, Zenon
  <2> HIDE DEF t
  <2>5. Len(result) = Len(t) /\ \A k \in 1..Len(result) : result[k] = t[k]
    BY <2>1, <2>4
  <2>6. result = t
    BY <2>2, <2>4, <2>5, SeqEqual, Zenon
  <2> QED
    BY <2>1, <2>6 DEF t
<1> QED
  BY <1>1, TransferInvariant, PTL

\* SetUsersFaceprints: on Ok a device that has not rebooted has every user of the array in its flash.
THEOREM AllImportedHolds == Spec => []AllImported
<1>1. TransferInv /\ (Secure => SecureInv) => AllImported
  BY DEF SecureInv, SetKnown, InFlash, AllImported, Returned
<1> QED
  BY <1>1, TransferInvariant, PTL

\* EnrollImage: on success a device that has not rebooted has every chunk of this image, in order.
THEOREM ImageCompleteHolds == Spec => []ImageComplete
<1>1. TransferInv /\ (Secure => SecureInv) => ImageComplete
  BY DEF SecureInv, ImageKnown, Begun, ImageComplete, Returned
<1> QED
  BY <1>1, TransferInvariant, PTL

\* SetDeviceConfig, Pair and Unpair: on Ok the device has the configuration, and the key that was given
\* if no key and no answer to one was on its way when they were called.
THEOREM SettingsTakenHolds == Spec => []SettingsTaken
<1>1. TransferInv /\ PairKnown /\ (Secure => SecureInv) => SettingsTaken
  <2>1. SecureInv => (Returned("Config") => dev.config = num)
    BY DEF SecureInv, ConfigKnown, Returned
  <2>2. PairKnown /\ clear => (Returned("Pair") => dev.host = 1) /\ (Returned("Unpair") => dev.host = 0)
    BY DEF PairKnown, KeyOps, KeyRequest, Returned
  <2> QED
    BY <2>1, <2>2 DEF SettingsTaken
<1> QED
  BY <1>1, TransferInvariant, PTL

=============================================================================
