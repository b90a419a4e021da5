--------------------------- MODULE FwLineProofs ---------------------------
(***************************************************************************)
(* Proofs about the text line of an update, for any modules, blocks, size   *)
(* of the buffer and device that leaves questions without an answer.        *)
(***************************************************************************)
EXTENDS FwLine, TLAPS

-----------------------------------------------------------------------------
(* Where the two threads are. *)

Replies == [text : Texts, of : Nat]

Waiting == pc \in {"enter", "head", "search", "missed"} \/ (pc \in {"idle", "slept"} /\ after = "search")
Unsent == pc = "send" \/ (pc \in {"idle", "slept"} /\ after = "send")
Parsing == pc = "parse" \/ (pc \in {"idle", "slept"} /\ after = "parse")
Opening == pc \in {"idle", "slept"} /\ after = "next"

\* The index of the reader thread before it writes.
ReaderKnown ==
    /\ rpc \in {"back", "recv"} => readIndex = 0
    /\ rpc = "count" => readIndex < ReadBufferSize - 2
    /\ rpc = "terminate" => readIndex < ReadBufferSize - 1
    /\ line \in Seq(Replies)

\* The call in which the updating thread is at each place.
CallKnown ==
    /\ pc \notin {"next", "closing", "over"} /\ ~Opening => step > 0
    /\ Opening => part = "connect" /\ step = 0
    /\ Unsent => Call.op \in {"cmd", "quiet", "binary"}
    /\ Waiting => Call.op \in {"cmd", "wait"}
    /\ Parsing => Call.op \in {"parse", "idleParse", "check"}
    /\ pc \in {"consume", "consumed"} =>
          \/ Call.op \in {"parse", "idleParse", "check", "consume"}
          \/ Call.op \in {"cmd", "wait"} /\ ~good
    /\ pc = "join" => Call.op = "stop"

LineInv == LineTypeOK /\ ReaderKnown /\ CallKnown

-----------------------------------------------------------------------------
(* The calls, one by one. *)

LEMMA CallCases ==
    ASSUME NEW p \in DOMAIN Calls, NEW n \in 1..Len(Calls[p]), NEW c, c = Calls[p][n]
    PROVE
        \/ p = "connect" /\ n = 1 /\ c = Cmd("dlspd")
        \/ p = "connect" /\ n = 2 /\ c = Cmd("dlver")
        \/ p = "look" /\ n = 1 /\ c = Cmd("dlver")
        \/ p = "look" /\ n = 2 /\ c = Parse("versions")
        \/ p = "look" /\ n = 3 /\ c = Cmd("dlinfo")
        \/ p = "look" /\ n = 4 /\ c = Wait("dlinfoEnd")
        \/ p = "look" /\ n = 5 /\ c = Parse("report")
        \/ p = "open" /\ n = 1 /\ c = Cmd("dlinit")
        \/ p = "open" /\ n = 2 /\ c = Binary("crcs")
        \/ p = "open" /\ n = 3 /\ c = Consume
        \/ p = "block" /\ n = 1 /\ c = Cmd("dl")
        \/ p = "block" /\ n = 2 /\ c = IdleParse("blk")
        \/ p = "block" /\ n = 3 /\ c = Binary("block")
        \/ p = "block" /\ n = 4 /\ c = Wait("dlRet")
        \/ p = "block" /\ n = 5 /\ c = Parse("dlRet")
        \/ p = "verify" /\ n = 1 /\ c = Cmd("dlinfo")
        \/ p = "verify" /\ n = 2 /\ c = Wait("dlinfoEnd")
        \/ p = "verify" /\ n = 3 /\ c = Check
        \/ p = "activate" /\ n = 1 /\ c = Cmd("dlact")
        \/ p = "activate" /\ n = 2 /\ c = Wait("validationOk")
        \/ p = "leave" /\ n = 1 /\ c = Stop
        \/ p = "leave" /\ n = 2 /\ c = QuietCmd("dlact")
<1>1. p \in {"connect", "look", "open", "block", "verify", "activate", "leave"}
  BY DEF Calls
<1>2. CASE p = "connect"
  <2>1. Calls[p] = <<Cmd("dlspd"), Cmd("dlver")>>
    BY <1>2 DEF Calls
  <2>2. Len(Calls[p]) = 2
    BY <2>1
  <2>3. n \in {1, 2}
    BY <2>2
  <2> QED
    BY <1>2, <2>1, <2>3
<1>3. CASE p = "look"
  <2>1. Calls[p] = <<Cmd("dlver"), Parse("versions"), Cmd("dlinfo"), Wait("dlinfoEnd"), Parse("report")>>
    BY <1>3 DEF Calls
  <2>2. Len(Calls[p]) = 5
    BY <2>1
  <2>3. n \in {1, 2, 3, 4, 5}
    BY <2>2
  <2> QED
    BY <1>3, <2>1, <2>3
<1>4. CASE p = "open"
  <2>1. Calls[p] = <<Cmd("dlinit"), Binary("crcs"), Consume>>
    BY <1>4 DEF Calls
  <2>2. Len(Calls[p]) = 3
    BY <2>1
  <2>3. n \in {1, 2, 3}
    BY <2>2
  <2> QED
    BY <1>4, <2>1, <2>3
<1>5. CASE p = "block"
  <2>1. Calls[p] = <<Cmd("dl"), IdleParse("blk"), Binary("block"), Wait("dlRet"), Parse("dlRet")>>
    BY <1>5 DEF Calls
  <2>2. Len(Calls[p]) = 5
    BY <2>1
  <2>3. n \in {1, 2, 3, 4, 5}
    BY <2>2
  <2> QED
    BY <1>5, <2>1, <2>3
<1>6. CASE p = "verify"
  <2>1. Calls[p] = <<Cmd("dlinfo"), Wait("dlinfoEnd"), Check>>
    BY <1>6 DEF Calls
  <2>2. Len(Calls[p]) = 3
    BY <2>1
  <2>3. n \in {1, 2, 3}
    BY <2>2
  <2> QED
    BY <1>6, <2>1, <2>3
<1>7. CASE p = "activate"
  <2>1. Calls[p] = <<Cmd("dlact"), Wait("validationOk")>>
    BY <1>7 DEF Calls
  <2>2. Len(Calls[p]) = 2
    BY <2>1
  <2>3. n \in {1, 2}
    BY <2>2
  <2> QED
    BY <1>7, <2>1, <2>3
<1>8. CASE p = "leave"
  <2>1. Calls[p] = <<Stop, QuietCmd("dlact")>>
    BY <1>8 DEF Calls
  <2>2. Len(Calls[p]) = 2
    BY <2>1
  <2>3. n \in {1, 2}
    BY <2>2
  <2> QED
    BY <1>8, <2>1, <2>3
<1> QED
  BY <1>1, <1>2, <1>3, <1>4, <1>5, <1>6, <1>7, <1>8

LEMMA Lengths ==
    ASSUME NEW p \in DOMAIN Calls
    PROVE  /\ Len(Calls[p]) \in 1..5
           /\ p \in {"connect", "look", "open", "block", "verify", "activate", "leave"}
           /\ p \in {"look", "block"} => Len(Calls[p]) = 5
           /\ p \in {"open", "verify"} => Len(Calls[p]) = 3
           /\ p \in {"connect", "activate", "leave"} => Len(Calls[p]) = 2
<1>1. p \in {"connect", "look", "open", "block", "verify", "activate", "leave"}
  BY DEF Calls
<1>2. CASE p = "connect"
  <2>1. Calls[p] = <<Cmd("dlspd"), Cmd("dlver")>>
    BY <1>2 DEF Calls
  <2> QED
    BY <1>2, <2>1
<1>3. CASE p = "look"
  <2>1. Calls[p] = <<Cmd("dlver"), Parse("versions"), Cmd("dlinfo"), Wait("dlinfoEnd"), Parse("report")>>
    BY <1>3 DEF Calls
  <2> QED
    BY <1>3, <2>1
<1>4. CASE p = "open"
  <2>1. Calls[p] = <<Cmd("dlinit"), Binary("crcs"), Consume>>
    BY <1>4 DEF Calls
  <2> QED
    BY <1>4, <2>1
<1>5. CASE p = "block"
  <2>1. Calls[p] = <<Cmd("dl"), IdleParse("blk"), Binary("block"), Wait("dlRet"), Parse("dlRet")>>
    BY <1>5 DEF Calls
  <2> QED
    BY <1>5, <2>1
<1>6. CASE p = "verify"
  <2>1. Calls[p] = <<Cmd("dlinfo"), Wait("dlinfoEnd"), Check>>
    BY <1>6 DEF Calls
  <2> QED
    BY <1>6, <2>1
<1>7. CASE p = "activate"
  <2>1. Calls[p] = <<Cmd("dlact"), Wait("validationOk")>>
    BY <1>7 DEF Calls
  <2> QED
    BY <1>7, <2>1
<1>8. CASE p = "leave"
  <2>1. Calls[p] = <<Stop, QuietCmd("dlact")>>
    BY <1>8 DEF Calls
  <2> QED
    BY <1>8, <2>1
<1> QED
  BY <1>1, <1>2, <1>3, <1>4, <1>5, <1>6, <1>7, <1>8

LEMMA CallWords ==
    ASSUME NEW p \in DOMAIN Calls, NEW n \in 1..Len(Calls[p]), NEW c, c = Calls[p][n]
    PROVE  /\ c = [op |-> c.op, text |-> c.text]
           /\ c.op \in {"cmd", "quiet", "binary", "wait", "parse", "idleParse", "check", "consume", "stop"}
           /\ c.op \in {"cmd", "quiet", "binary"} =>
                 c.text \in {"dlspd", "dlver", "dlinfo", "dlinit", "dl", "dlact", "crcs", "block"}
           /\ c.op \in {"parse", "idleParse", "check"} =>
                 c.text \in {"versions", "report", "blk", "dlRet"}
<1> USE DEF Cmd, QuietCmd, Binary, Wait, Parse, IdleParse, Check, Consume, Stop
<1> QED
  BY CallCases, SMTT(30)

\* What the device says, text by text: the ones that are looked for come where the calls expect them.
Keys == {"report", "dlinfoEnd", "blk", "dlRet"}

LEMMA AnswerIs ==
    ASSUME NEW c, NEW t, t = Answer(c),
           c.text \in {"dlspd", "dlver", "dlinfo", "dlinit", "dl", "dlact", "crcs", "block"}
    PROVE  /\ t \in Seq(Texts) /\ Len(t) \in 0..3
           /\ c.text = "dlinfo" => Len(t) = 3 /\ t[2] = "report" /\ t[3] = "dlinfoEnd"
           /\ \A k \in 1..Len(t) : t[k] \in Keys =>
                 \/ c.text = "dlinfo" /\ k \in {2, 3}
                 \/ c.text = "dl" /\ t[k] = "blk" /\ k = Len(t)
                 \/ c.text = "block" /\ t[k] = "dlRet" /\ k = Len(t)
           /\ c.text = "crcs" => Len(t) = 0
<1>1. CASE c.text = "dlspd"
  BY <1>1 DEF Answer, AckOf, Texts, Keys
<1>2. CASE c.text = "dlinit"
  BY <1>2 DEF Answer, AckOf, Texts, Keys
<1>3. CASE c.text = "dlver"
  BY <1>3 DEF Answer, Texts, Keys
<1>4. CASE c.text = "dlinfo"
  BY <1>4 DEF Answer, Texts, Keys
<1>5. CASE c.text = "dl"
  BY <1>5 DEF Answer, Texts, Keys
<1>6. CASE c.text = "dlact"
  BY <1>6 DEF Answer, Texts, Keys
<1>7. CASE c.text = "crcs"
  BY <1>7 DEF Answer, Texts, Keys
<1>8. CASE c.text = "block"
  BY <1>8 DEF Answer, Texts, Keys
<1> QED
  BY <1>1, <1>2, <1>3, <1>4, <1>5, <1>6, <1>7, <1>8

LEMMA SaidIs ==
    ASSUME NEW t \in Seq(Texts), NEW s, s = Said(t), asked \in Nat
    PROVE  /\ s \in Seq(Replies) /\ Len(s) = Len(t)
           /\ \A k \in 1..Len(t) : s[k] = [text |-> t[k], of |-> asked + 1]
<1>1. s = [k \in 1..Len(t) |-> [text |-> t[k], of |-> asked + 1]]
  BY DEF Said
<1>2. \A k \in 1..Len(t) : [text |-> t[k], of |-> asked + 1] \in Replies
  BY DEF Replies
<1>3. Len(t) \in Nat
  OBVIOUS
<1> DEFINE x(k) == [text |-> t[k], of |-> asked + 1]
<1>4. s = [k \in 1..Len(t) |-> x(k)] /\ \A k \in 1..Len(t) : x(k) \in Replies
  BY <1>1, <1>2
<1>5. \A k \in 1..Len(t) : s[k] = x(k)
  BY <1>4
<1> HIDE DEF x
<1>6. s \in [1..Len(t) -> Replies]
  BY <1>4
<1> QED
  BY <1>3, <1>5, <1>6 DEF x

-----------------------------------------------------------------------------
(* Types. *)

LEMMA RepliesAreTokens == \A s \in Seq(Replies) : s \in Seq(Tokens)
<1>1. Replies \subseteq Tokens
  BY DEF Replies, Tokens
<1> QED
  BY <1>1

LEMMA LineInit == Init => LineInv
<1> SUFFICES ASSUME Init PROVE LineInv
  OBVIOUS
<1> USE LineAssumption
<1>1. part \in DOMAIN Calls
  BY DEF Init, Calls
<1>2. 0 \in 0..Len(Calls[part])
  BY <1>1, Lengths
<1>3. buffer \in [Cells -> Tokens]
  BY DEF Init, Junk, Tokens
<1>0. module \in 0..NModules /\ sent \in 0..NBlocks /\ asked \in Nat
  BY DEF Init
<1>4. {readIndex, scanIndex, scanFrom, prevIndex} \subseteq Cells
  BY DEF Init, Cells
<1>5. line \in Seq(Tokens) /\ line \in Seq(Replies)
  BY DEF Init
<1>6. LineTypeOK
  <2> USE DEF Init
  <2>1. step \in 0..Len(Calls[part])
    BY <1>2
  <2> QED
    BY <1>0, <1>1, <1>3, <1>4, <1>5, <2>1 DEF LineTypeOK
<1>7. ReaderKnown /\ CallKnown
  BY <1>5 DEF Init, ReaderKnown, CallKnown, Opening, Unsent, Waiting, Parsing
<1> QED
  BY <1>6, <1>7 DEF LineInv

LEMMA TurnTypes ==
    ASSUME LineInv, LookAtModule \/ OpenModule \/ SendBlock \/ VerifyModule \/ ActivateModule \/ Leave
    PROVE  LineInv'
<1> USE LineAssumption DEF LookAtModule, OpenModule, SendBlock, VerifyModule, ActivateModule, Leave, Turn,
        Made, readerVars, LineInv
<1>1. part' \in DOMAIN Calls /\ step' = 0
  BY DEF Calls
<1>2. step' \in 0..Len(Calls[part'])
  BY <1>1, Lengths
<1>3. module' \in 0..NModules /\ sent' \in 0..NBlocks
  BY DEF LineTypeOK
<1>4. LineTypeOK'
  BY <1>1, <1>2, <1>3 DEF LineTypeOK
<1>5. ReaderKnown' /\ CallKnown'
  BY DEF ReaderKnown, CallKnown, Opening, Unsent, Waiting, Parsing
<1> QED
  BY <1>4, <1>5

LEMMA BeginGoes ==
    ASSUME LineInv, Begin, NEW c, c = Call'
    PROVE  /\ pc = "next" /\ part' = part /\ part \in DOMAIN Calls
           /\ step' = step + 1 /\ step' \in 1..Len(Calls[part])
           /\ c.op \in {"cmd", "quiet", "binary", "wait", "parse", "idleParse", "check", "consume", "stop"}
           /\ pc' = CASE c.op \in {"cmd", "quiet", "idleParse"} -> "idle"
                      [] c.op = "binary" -> "send" [] c.op = "wait" -> "enter"
                      [] c.op = "stop" -> "join" [] c.op = "check" -> "parse"
                      [] OTHER -> c.op
           /\ after' = (IF c.op = "idleParse" THEN "parse" ELSE "send")
           /\ stop' \in BOOLEAN /\ good' = TRUE /\ prevIndex' = 0 /\ scanFrom' = 0
           /\ UNCHANGED <<module, sent, ret, buffer, readIndex, rpc, scanIndex, line, asked, doubt>>
<1> USE DEF LineInv
<1>1. /\ part' = part /\ part \in DOMAIN Calls /\ step' = step + 1
      /\ step' \in 1..Len(Calls[part])
  BY Lengths DEF Begin, LineTypeOK
<1>2. c = Calls[part][step + 1]
  BY <1>1 DEF Call
<1>3. c.op \in {"cmd", "quiet", "binary", "wait", "parse", "idleParse", "check", "consume", "stop"}
  BY <1>1, <1>2, CallWords
<1> QED
  BY <1>1, <1>2, <1>3 DEF Begin, readerVars, LineTypeOK

LEMMA BeginTypes ==
    ASSUME LineInv, Begin
    PROVE  LineInv'
<1> USE LineAssumption DEF LineInv
<1>1. PICK c : c = Call'
  OBVIOUS
<1>2. pc' \in {"idle", "send", "enter", "join", "parse", "consume"}
  BY <1>1, BeginGoes
<1>3. 0 \in Cells
  BY DEF Cells
<1>4. LineTypeOK'
  <2>1. /\ part \in DOMAIN Calls /\ part' = part /\ step' \in 1..Len(Calls[part])
        /\ after' \in {"send", "parse"} /\ stop' \in BOOLEAN /\ good' = TRUE /\ prevIndex' = 0 /\ scanFrom' = 0
        /\ UNCHANGED <<module, sent, ret, buffer, readIndex, rpc, scanIndex, line, asked, doubt>>
    BY <1>1, BeginGoes
  <2>2. step' \in 0..Len(Calls[part'])
    BY <2>1, Lengths
  <2> QED
    BY <1>2, <1>3, <2>1, <2>2 DEF LineTypeOK
<1>5. ReaderKnown'
  BY <1>1, BeginGoes DEF ReaderKnown
<1>6. CallKnown'
  <2>0. part \in DOMAIN Calls /\ step' \in 1..Len(Calls[part])
    BY <1>1, BeginGoes
  <2>1. step' > 0
    BY <2>0, Lengths
  <2>2. /\ Unsent' => c.op \in {"cmd", "quiet", "binary"}
        /\ Waiting' => c.op = "wait"
        /\ Parsing' => c.op \in {"parse", "idleParse", "check"}
        /\ pc' # "consumed" /\ (pc' = "consume" => c.op = "consume")
        /\ (pc' = "join" => c.op = "stop") /\ ~Opening'
    BY <1>1, BeginGoes DEF Unsent, Waiting, Parsing, Opening
  <2> QED
    BY <1>1, <2>1, <2>2 DEF CallKnown
<1> QED
  BY <1>4, <1>5, <1>6

LEMMA Concatenated ==
    ASSUME NEW S, NEW s \in Seq(S), NEW t \in Seq(S) PROVE s \o t \in Seq(S)
OBVIOUS

LEMMA SendTypes ==
    ASSUME LineInv, Send
    PROVE  LineInv'
<1> USE LineAssumption DEF LineInv, planVars, readerVars
<1>1. step \in 1..Len(Calls[part]) /\ part \in DOMAIN Calls /\ Call.op \in {"cmd", "quiet", "binary"}
  BY Lengths DEF Send, LineTypeOK, CallKnown, Opening, Unsent
<1>2. Call.text \in {"dlspd", "dlver", "dlinfo", "dlinit", "dl", "dlact", "crcs", "block"}
  BY <1>1, CallWords DEF Call
<1>3. Said(Answer(Call)) \in Seq(Replies)
  <2>1. Answer(Call) \in Seq(Texts)
    BY <1>2, AnswerIs
  <2> QED
    BY <2>1, SaidIs DEF LineTypeOK
<1>4. line \in Seq(Replies)
  BY DEF ReaderKnown
<1>5. line' \in Seq(Replies)
  <2> DEFINE s == Said(Answer(Call))
  <2>1. line' = line \o s \/ line' = line
    BY DEF Send, Throw
  <2> HIDE DEF s
  <2>2. s \in Seq(Replies)
    BY <1>3 DEF s
  <2> QED
    BY <1>4, <2>1, <2>2, Concatenated, Zenon
<1>6. line' \in Seq(Tokens)
  BY <1>5, RepliesAreTokens
<1>7. LineTypeOK'
  <2>1. pc' \in {"enter", "next", "closing"} /\ ret' \in {"None", "Ok", "Error"} /\ stop' \in BOOLEAN
    BY DEF Send, Throw, Go, LineTypeOK
  <2>2. asked' \in Nat /\ UNCHANGED <<planVars, after, prevIndex, scanFrom, good, readerVars, scanIndex, doubt>>
    BY DEF Send, LineTypeOK
  <2> QED
    BY <1>6, <2>1, <2>2 DEF LineTypeOK
<1>8. ReaderKnown'
  BY <1>5 DEF Send, ReaderKnown
<1>9. CallKnown'
  BY <1>1 DEF Send, Throw, Go, CallKnown, Call, Opening, Unsent, Waiting, Parsing
<1> QED
  BY <1>7, <1>8, <1>9

LEMMA CallsTypes ==
    ASSUME LineInv,
           Finish \/ Sample \/ Slept \/ WaitEnter \/ WaitGoesOn \/ WaitEnds \/ Search
           \/ Missed \/ WaitThrows \/ ParseText \/ ConsumeLoad \/ ConsumeStore \/ Join
    PROVE  LineInv'
<1> USE LineAssumption DEF LineInv, planVars, readerVars, Made, NextCall, Go, Throw
<1>1. CASE Finish
  <2>1. LineTypeOK'
    BY <1>1 DEF Finish, LineTypeOK
  <2>2. ReaderKnown'
    BY <1>1 DEF Finish, ReaderKnown
  <2>3. CallKnown'
    BY <1>1 DEF Finish, CallKnown, LineTypeOK, Call, Opening, Unsent, Waiting, Parsing
  <2> QED
    BY <2>1, <2>2, <2>3
<1>2. CASE Sample
  <2>1. LineTypeOK'
    BY <1>2 DEF Sample, LineTypeOK
  <2>2. ReaderKnown'
    BY <1>2 DEF Sample, ReaderKnown
  <2>3. CallKnown'
    BY <1>2 DEF Sample, CallKnown, LineTypeOK, Call, Opening, Unsent, Waiting, Parsing
  <2> QED
    BY <2>1, <2>2, <2>3
<1>3. CASE Slept
  <2>1. LineTypeOK'
    BY <1>3 DEF Slept, LineTypeOK, Cells
  <2>2. ReaderKnown'
    BY <1>3 DEF Slept, ReaderKnown
  <2>3. CallKnown'
    BY <1>3 DEF Slept, CallKnown, LineTypeOK, Call, Opening, Unsent, Waiting, Parsing
  <2> QED
    BY <2>1, <2>2, <2>3
<1>4. CASE WaitEnter
  <2>1. LineTypeOK'
    BY <1>4 DEF WaitEnter, LineTypeOK
  <2>2. ReaderKnown'
    BY <1>4 DEF WaitEnter, ReaderKnown
  <2>3. CallKnown'
    BY <1>4 DEF WaitEnter, CallKnown, LineTypeOK, Call, Opening, Unsent, Waiting, Parsing
  <2> QED
    BY <2>1, <2>2, <2>3
<1>5. CASE WaitGoesOn
  <2>1. LineTypeOK'
    BY <1>5 DEF WaitGoesOn, LineTypeOK
  <2>2. ReaderKnown'
    BY <1>5 DEF WaitGoesOn, ReaderKnown
  <2>3. CallKnown'
    BY <1>5 DEF WaitGoesOn, CallKnown, LineTypeOK, Call, Opening, Unsent, Waiting, Parsing
  <2> QED
    BY <2>1, <2>2, <2>3
<1>6. CASE WaitEnds
  <2>1. LineTypeOK'
    BY <1>6 DEF WaitEnds, LineTypeOK
  <2>2. ReaderKnown'
    BY <1>6 DEF WaitEnds, ReaderKnown
  <2>3. CallKnown'
    BY <1>6 DEF WaitEnds, CallKnown, LineTypeOK, Call, Opening, Unsent, Waiting, Parsing
  <2> QED
    BY <2>1, <2>2, <2>3
<1>7. CASE Search
  <2>1. LineTypeOK'
    <3>1. pc' \in {"next", "missed"} /\ doubt' \in BOOLEAN
      BY <1>7 DEF Search, LineTypeOK
    <3>2. UNCHANGED <<planVars, after, prevIndex, scanFrom, good, ret, readerVars, scanIndex, stop, line, asked>>
      BY <1>7 DEF Search
    <3> QED
      BY <3>1, <3>2 DEF LineTypeOK
  <2>2. ReaderKnown'
    BY <1>7 DEF Search, ReaderKnown
  <2>3. CallKnown'
    BY <1>7 DEF Search, CallKnown, LineTypeOK, Call, Opening, Unsent, Waiting, Parsing
  <2> QED
    BY <2>1, <2>2, <2>3
<1>8. CASE Missed
  <2>1. LineTypeOK'
    BY <1>8 DEF Missed, LineTypeOK
  <2>2. ReaderKnown'
    BY <1>8 DEF Missed, ReaderKnown
  <2>3. CallKnown'
    BY <1>8 DEF Missed, CallKnown, LineTypeOK, Call, Opening, Unsent, Waiting, Parsing
  <2> QED
    BY <2>1, <2>2, <2>3
<1>9. CASE WaitThrows
  <2>1. LineTypeOK'
    BY <1>9 DEF WaitThrows, LineTypeOK
  <2>2. ReaderKnown'
    BY <1>9 DEF WaitThrows, ReaderKnown
  <2>3. CallKnown'
    BY <1>9 DEF WaitThrows, CallKnown, LineTypeOK, Call, Opening, Unsent, Waiting, Parsing
  <2> QED
    BY <2>1, <2>2, <2>3
<1>10. CASE ParseText
  <2>1. LineTypeOK'
    <3>1. /\ UNCHANGED <<planVars, after, prevIndex, scanFrom, ret, readerVars, scanIndex, stop, line, asked>>
          /\ pc' \in {"consume", "looping"} /\ good' \in BOOLEAN /\ doubt' \in BOOLEAN
      BY <1>10 DEF ParseText, LineTypeOK, Go
    <3> QED
      BY <3>1 DEF LineTypeOK, planVars, readerVars
  <2>2. ReaderKnown'
    BY <1>10 DEF ParseText, ReaderKnown
  <2>3. CallKnown'
    BY <1>10 DEF ParseText, CallKnown, LineTypeOK, Call, Opening, Unsent, Waiting, Parsing
  <2> QED
    BY <2>1, <2>2, <2>3
<1>11. CASE ConsumeLoad
  <2>1. LineTypeOK'
    BY <1>11 DEF ConsumeLoad, LineTypeOK
  <2>2. ReaderKnown'
    BY <1>11 DEF ConsumeLoad, ReaderKnown
  <2>3. CallKnown'
    BY <1>11 DEF ConsumeLoad, CallKnown, LineTypeOK, Call, Opening, Unsent, Waiting, Parsing
  <2> QED
    BY <2>1, <2>2, <2>3
<1>12. CASE ConsumeStore
  <2>1. LineTypeOK'
    BY <1>12 DEF ConsumeStore, LineTypeOK
  <2>2. ReaderKnown'
    BY <1>12 DEF ConsumeStore, ReaderKnown
  <2>3. CallKnown'
    BY <1>12 DEF ConsumeStore, CallKnown, LineTypeOK, Call, Opening, Unsent, Waiting, Parsing
  <2> QED
    BY <2>1, <2>2, <2>3
<1>13. CASE Join
  <2>1. LineTypeOK'
    BY <1>13 DEF Join, LineTypeOK
  <2>2. ReaderKnown'
    BY <1>13 DEF Join, ReaderKnown
  <2>3. CallKnown'
    BY <1>13 DEF Join, CallKnown, LineTypeOK, Call, Opening, Unsent, Waiting, Parsing
  <2> QED
    BY <2>1, <2>2, <2>3
<1> QED
  BY <1>1, <1>2, <1>3, <1>4, <1>5, <1>6, <1>7, <1>8, <1>9, <1>10, <1>11, <1>12, <1>13

LEMMA ReaderTypes ==
    ASSUME LineInv, Reader \/ ReaderFails
    PROVE  LineInv'
<1> USE LineAssumption DEF LineInv, planVars, callVars, Cells
<1>1. CallKnown'
  BY DEF Reader, ReaderStop, ReaderFull, ReaderBack, ReaderRecv, ReaderTimeout, ReaderFails, ReaderCount,
         ReaderTerminate, CallKnown, Call, Opening, Unsent, Waiting, Parsing
<1>2. CASE ReaderStop
  <2>1. LineTypeOK'
    BY <1>2 DEF ReaderStop, Receiving, HasRoom, LineTypeOK, ReaderKnown
  <2>2. ReaderKnown'
    BY <1>2 DEF ReaderStop, Receiving, HasRoom, LineTypeOK, ReaderKnown
  <2> QED
    BY <1>1, <2>1, <2>2
<1>3. CASE ReaderFull
  <2>1. LineTypeOK'
    BY <1>3 DEF ReaderFull, Receiving, HasRoom, LineTypeOK, ReaderKnown
  <2>2. ReaderKnown'
    BY <1>3 DEF ReaderFull, Receiving, HasRoom, LineTypeOK, ReaderKnown
  <2> QED
    BY <1>1, <2>1, <2>2
<1>4. CASE ReaderBack
  <2>1. LineTypeOK'
    BY <1>4 DEF ReaderBack, Receiving, HasRoom, LineTypeOK, ReaderKnown
  <2>2. ReaderKnown'
    BY <1>4 DEF ReaderBack, Receiving, HasRoom, LineTypeOK, ReaderKnown
  <2> QED
    BY <1>1, <2>1, <2>2
<1>5. CASE ReaderRecv
  <2>1. line # <<>> /\ line \in Seq(Replies) /\ line' = Tail(line) /\ readIndex \in Cells
    BY <1>5 DEF ReaderRecv, ReaderKnown, LineTypeOK
  <2>2. Head(line) \in Replies /\ line' \in Seq(Replies)
    BY <2>1
  <2>3. line' \in Seq(Tokens) /\ Head(line) \in Tokens
    BY <2>2, RepliesAreTokens DEF Replies, Tokens
  <2>4. buffer' \in [Cells -> Tokens]
    BY <1>5, <2>1, <2>3 DEF ReaderRecv, LineTypeOK
  <2>5. readIndex < ReadBufferSize - 2
    BY <1>5 DEF ReaderRecv, Receiving, HasRoom, ReaderKnown
  <2>6. LineTypeOK'
    BY <1>5, <2>1, <2>3, <2>4, <2>5 DEF ReaderRecv, LineTypeOK
  <2>7. ReaderKnown'
    BY <1>5, <2>2, <2>5 DEF ReaderRecv, ReaderKnown
  <2> QED
    BY <1>1, <2>6, <2>7
<1>6. CASE ReaderTimeout
  <2>1. LineTypeOK'
    BY <1>6 DEF ReaderTimeout, Receiving, HasRoom, LineTypeOK, ReaderKnown
  <2>2. ReaderKnown'
    BY <1>6 DEF ReaderTimeout, Receiving, HasRoom, LineTypeOK, ReaderKnown
  <2> QED
    BY <1>1, <2>1, <2>2
<1>7. CASE ReaderFails
  <2>1. LineTypeOK'
    BY <1>7 DEF ReaderFails, Receiving, HasRoom, LineTypeOK, ReaderKnown
  <2>2. ReaderKnown'
    BY <1>7 DEF ReaderFails, Receiving, HasRoom, LineTypeOK, ReaderKnown
  <2> QED
    BY <1>1, <2>1, <2>2
<1>8. CASE ReaderCount
  <2>1. LineTypeOK'
    BY <1>8 DEF ReaderCount, Receiving, HasRoom, LineTypeOK, ReaderKnown
  <2>2. ReaderKnown'
    BY <1>8 DEF ReaderCount, Receiving, HasRoom, LineTypeOK, ReaderKnown
  <2> QED
    BY <1>1, <2>1, <2>2
<1>9. CASE ReaderTerminate
  <2>1. End \in Tokens /\ readIndex \in Cells
    BY DEF End, Tokens, LineTypeOK
  <2>2. buffer' \in [Cells -> Tokens]
    BY <1>9, <2>1 DEF ReaderTerminate, LineTypeOK
  <2>3. LineTypeOK'
    BY <1>9, <2>1, <2>2 DEF ReaderTerminate, LineTypeOK
  <2>4. ReaderKnown'
    BY <1>9 DEF ReaderTerminate, ReaderKnown
  <2> QED
    BY <1>1, <2>3, <2>4
<1> QED
  BY <1>2, <1>3, <1>4, <1>5, <1>6, <1>7, <1>8, <1>9 DEF Reader

LEMMA LineStep == LineInv /\ [Next]_vars => LineInv'
<1> SUFFICES ASSUME LineInv, [Next]_vars PROVE LineInv'
  OBVIOUS
<1>1. CASE UNCHANGED vars
  BY <1>1 DEF vars, planVars, callVars, readerVars, LineInv, LineTypeOK, ReaderKnown, CallKnown, Call,
              Opening, Unsent, Waiting, Parsing
<1>2. CASE Updater \/ Expire
  BY <1>2, TurnTypes, BeginTypes, SendTypes, CallsTypes DEF Updater, Expire
<1>3. CASE Reader \/ ReaderFails
  BY <1>3, ReaderTypes
<1> QED
  BY <1>1, <1>2, <1>3 DEF Next, Over

\* ReaderThreadLoop writes neither a text nor its terminator behind the buffer, and the searches begin
\* within it, wherever the two threads write their indexes.
THEOREM LineTypeCorrect == Spec => []LineTypeOK
<1>1. LineInv => LineTypeOK
  BY DEF LineInv
<1> QED
  BY <1>1, LineInit, LineStep, PTL DEF Spec

-----------------------------------------------------------------------------
(* The buffer, until something happened that leaves doubt. *)

\* The texts the reader has stored, and with the line all that was said, the first at the head of the
\* buffer.
Stored == readIndex + (IF rpc = "count" THEN 1 ELSE 0)
Total == Stored + Len(line)
At(i) == IF i < Stored THEN buffer[i] ELSE line[i - Stored + 1]

StoredKnown ==
    /\ rpc \notin {"back", "recv"}
    /\ scanIndex <= readIndex
    /\ \A i \in Cells : buffer[i] \in (IF i < Stored THEN Replies ELSE {End, Junk})

IndexKnown ==
    /\ Waiting /\ pc # "enter" => scanFrom = scanIndex
    /\ pc = "consumed" => scanIndex <= prevIndex /\ prevIndex <= readIndex

MemoryKnown == ~doubt => StoredKnown /\ IndexKnown

LEMMA Indexes ==
    ASSUME LineInv
    PROVE  /\ readIndex \in Nat /\ scanIndex \in Nat /\ prevIndex \in Nat /\ scanFrom \in Nat
           /\ {readIndex, scanIndex, prevIndex, scanFrom} \subseteq Cells
           /\ Stored \in Nat /\ Stored \in {readIndex, readIndex + 1}
           /\ line \in Seq(Replies) /\ Len(line) \in Nat /\ Total \in Nat /\ asked \in Nat
           /\ doubt \in BOOLEAN /\ buffer \in [Cells -> Tokens]
BY LineAssumption DEF LineInv, LineTypeOK, ReaderKnown, Cells, Stored, Total

LEMMA MemoryInit == Init => MemoryKnown
BY LineAssumption DEF Init, MemoryKnown, StoredKnown, IndexKnown, Stored, Cells, Waiting

LEMMA StoredStep ==
    ASSUME LineInv, StoredKnown, IndexKnown, [Next]_vars, ~doubt'
    PROVE  StoredKnown'
<1> USE LineAssumption, Indexes
<1>1. CASE UNCHANGED <<buffer, readIndex, rpc, scanIndex>>
  BY <1>1 DEF StoredKnown, Stored, Cells
<1>2. CASE ConsumeStore
  BY <1>2 DEF ConsumeStore, IndexKnown, StoredKnown, Stored, readerVars, Cells
<1>3. CASE ReaderStop
  BY <1>3 DEF ReaderStop, StoredKnown, Stored, Cells
<1>4. CASE ReaderRecv
  <2>1. rpc = "top" /\ rpc' = "count" /\ readIndex' = readIndex /\ scanIndex' = scanIndex /\ line # <<>>
    BY <1>4 DEF ReaderRecv, Receiving, StoredKnown
  <2>2. buffer' = [buffer EXCEPT ![readIndex] = Head(line)] /\ Head(line) \in Replies
    BY <1>4, <2>1 DEF ReaderRecv
  <2>3. Stored = readIndex /\ Stored' = readIndex + 1
    BY <2>1 DEF Stored
  <2> QED
    BY <2>1, <2>2, <2>3 DEF StoredKnown, Cells
<1>5. CASE ReaderFails
  <2>1. rpc = "top" /\ rpc' = "ended" /\ UNCHANGED <<buffer, readIndex, scanIndex>>
    BY <1>5 DEF ReaderFails, Receiving, StoredKnown
  <2> QED
    BY <2>1 DEF StoredKnown, Stored, Cells
<1>6. CASE ReaderCount
  <2>1. /\ rpc = "count" /\ rpc' = "terminate" /\ readIndex' = readIndex + 1
        /\ UNCHANGED <<buffer, scanIndex>>
    BY <1>6 DEF ReaderCount
  <2> QED
    BY <2>1 DEF StoredKnown, Stored, Cells
<1>7. CASE ReaderTerminate
  <2>1. /\ rpc = "terminate" /\ rpc' = "top" /\ UNCHANGED <<readIndex, scanIndex>>
        /\ buffer' = [buffer EXCEPT ![readIndex] = End]
    BY <1>7 DEF ReaderTerminate
  <2>2. Stored = readIndex /\ Stored' = readIndex
    BY <2>1 DEF Stored
  <2> QED
    BY <2>1, <2>2 DEF StoredKnown, Cells
<1>8. CASE ReaderFull \/ ReaderBack \/ ReaderTimeout
  BY <1>8 DEF ReaderFull, ReaderBack, ReaderTimeout, StoredKnown
<1>9. Updater \/ Expire => ConsumeStore \/ UNCHANGED <<buffer, readIndex, rpc, scanIndex>>
  <2> USE DEF readerVars
  <2>1. Finish \/ Sample \/ Slept => UNCHANGED <<buffer, readIndex, rpc, scanIndex>>
    BY DEF Finish, Sample, Slept
  <2>2. LookAtModule \/ OpenModule \/ SendBlock \/ VerifyModule \/ ActivateModule \/ Leave
           => UNCHANGED <<buffer, readIndex, rpc, scanIndex>>
    BY DEF LookAtModule, OpenModule, SendBlock, VerifyModule, ActivateModule, Leave, Turn
  <2>3. Begin \/ Send => UNCHANGED <<buffer, readIndex, rpc, scanIndex>>
    BY DEF Begin, Send
  <2>4. WaitEnter \/ WaitGoesOn \/ WaitEnds \/ Search \/ Missed \/ WaitThrows
           => UNCHANGED <<buffer, readIndex, rpc, scanIndex>>
    BY DEF WaitEnter, WaitGoesOn, WaitEnds, Search, Missed, WaitThrows
  <2>5. ParseText \/ ConsumeLoad \/ Join => UNCHANGED <<buffer, readIndex, rpc, scanIndex>>
    BY DEF ParseText, ConsumeLoad, Join
  <2> QED
    BY <2>1, <2>2, <2>3, <2>4, <2>5 DEF Updater, Expire
<1> QED
  BY <1>1, <1>2, <1>3, <1>4, <1>5, <1>6, <1>7, <1>8, <1>9
     DEF Next, Reader, Over, vars, callVars, planVars, readerVars

LEMMA IndexStep ==
    ASSUME LineInv, StoredKnown, IndexKnown, [Next]_vars, ~doubt'
    PROVE  IndexKnown'
<1> USE LineAssumption, Indexes DEF IndexKnown, Waiting
<1>1. CASE UNCHANGED vars
  BY <1>1 DEF vars, callVars, planVars, readerVars
<1>2. CASE Reader \/ ReaderFails
  <2>1. UNCHANGED callVars
    BY <1>2 DEF Reader, ReaderStop, ReaderFull, ReaderBack, ReaderRecv, ReaderTimeout, ReaderFails,
                ReaderCount, ReaderTerminate
  <2>2. readIndex' \in {readIndex, readIndex + 1} /\ scanIndex' = scanIndex
    <3>1. ~ReaderFull /\ ~ReaderBack
      BY DEF ReaderFull, ReaderBack, StoredKnown
    <3> QED
      BY <1>2, <3>1 DEF Reader, ReaderStop, ReaderRecv, ReaderTimeout, ReaderFails, ReaderCount,
                        ReaderTerminate
  <2> QED
    BY <2>1, <2>2 DEF callVars
<1> USE DEF Go, NextCall, Throw, readerVars
<1>3. CASE LookAtModule \/ OpenModule \/ SendBlock \/ VerifyModule \/ ActivateModule \/ Leave
  BY <1>3 DEF LookAtModule, OpenModule, SendBlock, VerifyModule, ActivateModule, Leave, Turn
<1>4. CASE Begin
  <2>1. pc' # "consumed" /\ pc' \notin {"head", "search", "missed"} /\ after' # "search"
    <3>1. PICK c : c = Call'
      OBVIOUS
    <3> QED
      BY <1>4, <3>1, BeginGoes
  <2> QED
    BY <2>1
<1>5. CASE Finish
  BY <1>5 DEF Finish
<1>6. CASE Sample
  BY <1>6 DEF Sample
<1>7. CASE Slept
  <2>1. pc' \in {after, "idle"} /\ after \in {"next", "send", "search", "parse"}
    BY <1>7 DEF Slept, LineInv, LineTypeOK
  <2> QED
    BY <1>7, <2>1 DEF Slept
<1>8. CASE Send
  BY <1>8 DEF Send
<1>9. CASE WaitEnter \/ WaitGoesOn \/ WaitEnds \/ Missed \/ WaitThrows
  BY <1>9 DEF WaitEnter, WaitGoesOn, WaitEnds, Missed, WaitThrows
<1>10. CASE Search
  BY <1>10 DEF Search
<1>11. CASE ParseText
  BY <1>11 DEF ParseText
<1>12. CASE ConsumeLoad
  BY <1>12 DEF ConsumeLoad, StoredKnown
<1>13. CASE ConsumeStore
  BY <1>13 DEF ConsumeStore
<1>14. CASE Join
  BY <1>14 DEF Join
<1> QED
  BY <1>1, <1>2, <1>3, <1>4, <1>5, <1>6, <1>7, <1>8, <1>9, <1>10, <1>11, <1>12, <1>13, <1>14
     DEF Next, Updater, Expire, Over

\* Doubt stays.
LEMMA DoubtStays ==
    ASSUME LineInv, [Next]_vars, doubt
    PROVE  doubt'
<1> USE DEF LineInv, LineTypeOK
<1>1. CASE UNCHANGED vars
  BY <1>1 DEF vars
<1>2. CASE Reader \/ ReaderFails
  BY <1>2 DEF Reader, ReaderStop, ReaderFull, ReaderBack, ReaderRecv, ReaderTimeout, ReaderFails,
              ReaderCount, ReaderTerminate
<1>3. CASE LookAtModule \/ OpenModule \/ SendBlock \/ VerifyModule \/ ActivateModule \/ Leave
  BY <1>3 DEF LookAtModule, OpenModule, SendBlock, VerifyModule, ActivateModule, Leave, Turn
<1>4. CASE Begin \/ Finish \/ Sample \/ Slept \/ Send \/ WaitEnter \/ WaitGoesOn
  BY <1>4 DEF Begin, Finish, Sample, Slept, Send, WaitEnter, WaitGoesOn
<1>5. CASE WaitEnds \/ Missed \/ WaitThrows \/ ConsumeLoad \/ ConsumeStore \/ Join
  BY <1>5 DEF WaitEnds, Missed, WaitThrows, ConsumeLoad, ConsumeStore, Join
<1>6. CASE Search
  BY <1>6 DEF Search
<1>7. CASE ParseText
  BY <1>7 DEF ParseText
<1> QED
  BY <1>1, <1>2, <1>3, <1>4, <1>5, <1>6, <1>7 DEF Next, Updater, Expire, Over

LEMMA MemoryStep == LineInv /\ MemoryKnown /\ [Next]_vars => MemoryKnown'
<1> SUFFICES ASSUME LineInv, MemoryKnown, [Next]_vars, ~doubt' PROVE StoredKnown' /\ IndexKnown'
  BY DEF MemoryKnown
<1>1. ~doubt
  BY DoubtStays
<1> QED
  BY <1>1, StoredStep, IndexStep DEF MemoryKnown

-----------------------------------------------------------------------------
(* The answers, until something happened that leaves doubt.                 *)
(*                                                                         *)
(* ConsumeScanned may load the index before the reader thread counted the    *)
(* last text, which then stays at the scan index: what is looked for next    *)
(* is never what was consumed last.                                         *)

Done(n) == step > n \/ (step = n /\ pc = "next")      \* the call n of the part has returned
Asking(n) == step > n \/ (step = n /\ ~Unsent)        \* ... has been sent

\* The text that ends the answer a parser will look for, and the one that was looked for before it.
Awaited ==
    CASE part = "look" /\ Asking(3) /\ ~Done(5) -> "dlinfoEnd"
      [] part = "verify" /\ Asking(1) /\ ~Done(3) -> "dlinfoEnd"
      [] part = "block" /\ Asking(1) /\ ~Done(2) -> "blk"
      [] part = "block" /\ Asking(3) /\ ~Done(5) -> "dlRet"
      [] OTHER -> "none"
Old ==
    CASE part = "look" /\ (~Done(2) \/ Done(5)) -> "dlinfoEnd"
      [] part = "open" /\ ~Done(3) -> "dlinfoEnd"
      [] part = "block" /\ (~Done(2) \/ Done(5)) -> "dlRet"
      [] part = "block" /\ Done(2) /\ ~Done(5) -> "blk"
      [] part = "verify" /\ ~Done(3) -> "dlRet"
      [] part = "verify" /\ Done(3) -> "dlinfoEnd"
      [] part \in {"activate", "leave"} -> "dlinfoEnd"
      [] OTHER -> "none"

\* What is looked for by a parser and not yet consumed was said to the last command, at its end, but
\* for an old text at the scan index.
Own(i) ==
    \/ i = Total - 1 /\ At(i) = [text |-> Awaited, of |-> asked]
    \/ i = Total - 2 /\ At(i) = [text |-> "report", of |-> asked] /\ Awaited = "dlinfoEnd"
Flow ==
    \A i \in scanIndex..(Total - 1) : At(i).text \in Keys => Own(i) \/ (i = scanIndex /\ At(i).text = Old)
Ended(text) == scanIndex < Total /\ At(Total - 1).text = text
Whole ==
    Awaited = "dlinfoEnd" /\ Ended("dlinfoEnd") =>
        Total - 2 >= scanIndex /\ At(Total - 2) = [text |-> "report", of |-> asked]

\* Once the awaited text was found, the device has nothing more to say, and what is consumed ends at
\* that text or behind it.
Arrived ==
    \/ part = "look" /\ Done(4) /\ ~Done(5)
    \/ part = "verify" /\ Done(2) /\ ~Done(3)
    \/ part = "block" /\ step \in {2, 5} /\ pc \in {"consume", "consumed"} /\ good
ArrivedKnown ==
    Arrived => line = <<>> /\ Ended(Awaited) /\ (pc = "consumed" => prevIndex >= Total - 1)

\* Where another text was found, behind the old one, the old one is consumed.
Passed ==
    \/ part = "look" /\ step = 2 /\ pc \in {"consume", "consumed"} /\ good
    \/ part = "open" /\ Done(1) /\ ~Done(3)
PassedKnown ==
    Passed /\ scanIndex < Total /\ At(scanIndex).text \in Keys =>
        readIndex > scanIndex /\ (pc = "consumed" => prevIndex > scanIndex)

Answers == Flow /\ Whole /\ ArrivedKnown /\ PassedKnown
AnswersKnown == ~doubt /\ pc \notin {"closing", "over", "looping"} => Answers

\* The texts that were said stay what they are.
Same == Total' = Total /\ \A i \in 0..(Total - 1) : At(i)' = At(i)

LEMMA ReaderStream ==
    ASSUME LineInv, StoredKnown, ~doubt', Reader \/ ReaderFails
    PROVE  /\ Same /\ UNCHANGED <<callVars, scanIndex, asked>>
           /\ readIndex' \in Nat /\ readIndex' >= readIndex
           /\ line = <<>> => line' = <<>>
<1>0. /\ readIndex \in Nat /\ readIndex \in Cells /\ Len(line) \in Nat /\ Total \in Nat /\ Stored \in Nat
      /\ ReadBufferSize \in Nat /\ buffer \in [Cells -> Tokens]
  BY Indexes, LineAssumption
<1>00. line \in Seq(Replies)
  BY Indexes
<1>1. CASE ReaderStop \/ ReaderFails
  <2>1. rpc = "top" /\ rpc' = "ended" /\ UNCHANGED <<callVars, scanIndex, asked, buffer, readIndex, line>>
    BY <1>1 DEF ReaderStop, ReaderFails, Receiving, StoredKnown
  <2>2. Stored' = Stored
    BY <1>0, <2>1 DEF Stored
  <2> QED
    BY <1>0, <2>1, <2>2 DEF Same, Total, At
<1>2. CASE ReaderFull \/ ReaderBack \/ ReaderTimeout
  BY <1>2 DEF ReaderFull, ReaderBack, ReaderTimeout, StoredKnown
<1>3. CASE ReaderRecv
  <2>1. rpc = "top" /\ rpc' = "count" /\ UNCHANGED <<callVars, scanIndex, asked, readIndex>>
    BY <1>3 DEF ReaderRecv, Receiving, StoredKnown
  <2>2. line # <<>> /\ line' = Tail(line) /\ buffer' = [buffer EXCEPT ![readIndex] = Head(line)]
    BY <1>3 DEF ReaderRecv
  <2>3. Stored = readIndex /\ Stored' = readIndex + 1
    BY <1>0, <2>1 DEF Stored
  <2>4. /\ Len(line) \in Nat /\ Len(line) > 0 /\ Len(line') = Len(line) - 1
        /\ Head(line) = line[1]
        /\ \A k \in 1..(Len(line) - 1) : line'[k] = line[k + 1]
    BY <1>00, <2>2
  <2>5. Total' = Total
    BY <1>0, <2>3, <2>4 DEF Total
  <2>6. ASSUME NEW i \in 0..(Total - 1) PROVE At(i)' = At(i)
    <3>1. CASE i < readIndex
      <4>1. i \in Cells
        BY <1>0, <3>1 DEF Cells
      <4>2. At(i) = buffer[i] /\ At(i)' = buffer'[i]
        BY <1>0, <2>3, <3>1 DEF At
      <4>3. buffer'[i] = buffer[i]
        BY <1>0, <2>2, <3>1, <4>1
      <4> QED
        BY <4>2, <4>3
    <3>2. CASE i = readIndex
      <4>1. At(i) = line[1] /\ At(i)' = buffer'[i]
        BY <2>3, <3>2 DEF At
      <4>2. buffer'[i] = line[1]
        BY <1>0, <2>2, <2>4, <3>2
      <4> QED
        BY <4>1, <4>2
    <3>3. CASE i > readIndex
      <4>1. At(i) = line[i - readIndex + 1] /\ At(i)' = line'[i - readIndex]
        BY <1>0, <2>3, <3>3 DEF At
      <4>2. i - readIndex \in 1..(Len(line) - 1)
        BY <1>0, <2>3, <2>4, <3>3 DEF Total
      <4> QED
        BY <2>4, <4>1, <4>2
    <3> QED
      BY <1>0, <3>1, <3>2, <3>3
  <2> QED
    BY <1>0, <2>1, <2>2, <2>5, <2>6 DEF Same
<1>4. CASE ReaderCount
  <2>1. /\ rpc = "count" /\ rpc' = "terminate" /\ readIndex' = readIndex + 1
        /\ UNCHANGED <<callVars, scanIndex, asked, buffer, line>>
    BY <1>4 DEF ReaderCount
  <2>2. Stored' = Stored
    BY <1>0, <2>1 DEF Stored
  <2> QED
    BY <1>0, <2>1, <2>2 DEF Same, Total, At
<1>5. CASE ReaderTerminate
  <2>1. /\ rpc = "terminate" /\ rpc' = "top" /\ UNCHANGED <<callVars, scanIndex, asked, readIndex, line>>
        /\ buffer' = [buffer EXCEPT ![readIndex] = End]
    BY <1>5 DEF ReaderTerminate
  <2>2. Stored = readIndex /\ Stored' = readIndex
    BY <1>0, <2>1 DEF Stored
  <2>3. ASSUME NEW i \in 0..(Total - 1) PROVE At(i)' = At(i)
    <3>1. i < readIndex => i \in Cells /\ buffer'[i] = buffer[i]
      BY <1>0, <2>1 DEF Cells
    <3> QED
      BY <2>1, <2>2, <3>1 DEF At
  <2> QED
    BY <1>0, <2>1, <2>2, <2>3 DEF Same, Total
<1> QED
  BY <1>1, <1>2, <1>3, <1>4, <1>5 DEF Reader

LEMMA UpdaterStream ==
    ASSUME UNCHANGED <<readerVars, line>>
    PROVE  Same /\ UNCHANGED <<buffer, readIndex, rpc>>
BY DEF readerVars, Same, Total, Stored, At

LEMMA Appended ==
    ASSUME NEW S, NEW a \in Seq(S), NEW b \in Seq(S), NEW c, c = a \o b
    PROVE  /\ Len(c) = Len(a) + Len(b)
           /\ \A k \in 1..Len(a) : c[k] = a[k]
           /\ \A k \in 1..Len(b) : c[Len(a) + k] = b[k]
<1>1. Len(c) = Len(a) + Len(b)
  OBVIOUS
<1>2. ASSUME NEW k \in 1..Len(a) PROVE c[k] = a[k]
  OBVIOUS
<1>3. ASSUME NEW k \in 1..Len(b) PROVE c[Len(a) + k] = b[k]
  OBVIOUS
<1> QED
  BY <1>1, <1>2, <1>3

LEMMA SendStream ==
    ASSUME LineInv, StoredKnown, Send, NEW t, t = Answer(Call), t \in Seq(Texts), NEW n, n = Total
    PROVE  \/ Same
           \/ /\ Total' = n + Len(t) /\ \A i \in 0..(n - 1) : At(i)' = At(i)
              /\ \A i \in n..(n + Len(t) - 1) : At(i)' = [text |-> t[i - n + 1], of |-> asked + 1]
<1>0. Stored \in Nat /\ Len(line) \in Nat /\ Len(t) \in Nat /\ n \in Nat /\ asked \in Nat
  BY Indexes
<1>00. line \in Seq(Replies)
  BY Indexes
<1>1. UNCHANGED readerVars /\ (line' = line \/ line' = line \o Said(t))
  BY DEF Send, Throw
<1>2. CASE line' = line
  BY <1>1, <1>2, UpdaterStream
<1>3. CASE line' = line \o Said(t)
  <2>1. PICK s : s = Said(t)
    OBVIOUS
  <2>2. /\ s \in Seq(Replies) /\ Len(s) = Len(t)
        /\ \A k \in 1..Len(t) : s[k] = [text |-> t[k], of |-> asked + 1]
    BY <1>0, <2>1, SaidIs
  <2>3. line' = line \o s
    BY <1>3, <2>1
  <2>10. PICK a, c : a = line /\ c = line'
    OBVIOUS
  <2>11. a \in Seq(Replies) /\ c = a \o s
    BY <1>00, <2>3, <2>10
  <2>11a. s \in Seq(Replies)
    BY <2>2
  <2>12. /\ Len(c) = Len(a) + Len(s)
         /\ \A k \in 1..Len(a) : c[k] = a[k]
         /\ \A k \in 1..Len(s) : c[Len(a) + k] = s[k]
    BY <2>11, <2>11a, Appended
  <2>9. /\ Len(line') = Len(line) + Len(s)
        /\ \A k \in 1..Len(line) : line'[k] = line[k]
        /\ \A k \in 1..Len(s) : line'[Len(line) + k] = s[k]
    BY <2>10, <2>12
  <2>4. /\ Len(line') = Len(line) + Len(t)
        /\ \A k \in 1..Len(line) : line'[k] = line[k]
        /\ \A k \in 1..Len(t) : line'[Len(line) + k] = s[k]
    BY <2>2, <2>9, Zenon
  <2>5. Stored' = Stored /\ buffer' = buffer
    BY <1>1 DEF readerVars, Stored
  <2>6. Total' = n + Len(t) /\ n = Stored + Len(line)
    BY <1>0, <2>4, <2>5 DEF Total
  <2>7. ASSUME NEW i \in 0..(n - 1) PROVE At(i)' = At(i)
    <3>1. i >= Stored => i - Stored + 1 \in 1..Len(line)
      BY <1>0, <2>6
    <3> QED
      BY <1>0, <2>4, <2>5, <3>1 DEF At
  <2>8. ASSUME NEW i \in n..(n + Len(t) - 1) PROVE At(i)' = [text |-> t[i - n + 1], of |-> asked + 1]
    <3>1. i \in Int /\ i >= Stored /\ i - n + 1 \in 1..Len(t) /\ i - Stored + 1 = Len(line) + (i - n + 1)
      BY <1>0, <2>6
    <3>2. At(i)' = line'[i - Stored + 1]
      BY <1>0, <2>5, <3>1 DEF At
    <3> QED
      BY <2>2, <2>4, <3>1, <3>2
  <2> QED
    BY <2>6, <2>7, <2>8
<1> QED
  BY <1>1, <1>2, <1>3

\* A step that leaves the texts and the indexes as they are, and neither asks nor consumes.
LEMMA Kept ==
    ASSUME LineInv, Flow, Whole, Same, UNCHANGED <<scanIndex, asked>>,
           Awaited' = Awaited, Old' = Old \/ Old = "none"
    PROVE  Flow' /\ Whole'
<1>1. scanIndex \in Nat /\ Total \in Nat /\ scanIndex' = scanIndex /\ asked' = asked /\ Total' = Total
  BY Indexes DEF Same
<1>2. \A i \in scanIndex..(Total - 1) : At(i)' = At(i)
  BY <1>1 DEF Same
<1>3. Flow'
  <2> SUFFICES ASSUME NEW i \in scanIndex..(Total - 1), At(i).text \in Keys
               PROVE  Own(i)' \/ (i = scanIndex /\ At(i).text = Old')
    BY <1>1, <1>2 DEF Flow
  <2>1. Own(i) \/ (i = scanIndex /\ At(i).text = Old)
    BY DEF Flow
  <2>2. Own(i) => Own(i)'
    BY <1>1, <1>2 DEF Own
  <2> QED
    BY <2>1, <2>2 DEF Keys
<1>4. Whole'
  BY <1>1, <1>2 DEF Whole, Ended
<1> QED
  BY <1>3, <1>4

LEMMA EndedKept ==
    ASSUME LineInv, Same, UNCHANGED scanIndex, Awaited' = Awaited
    PROVE  Ended(Awaited)' <=> Ended(Awaited)
<1>1. scanIndex \in Nat /\ Total \in Nat /\ Total' = Total
  BY Indexes DEF Same
<1>2. scanIndex < Total => At(Total - 1)' = At(Total - 1)
  BY <1>1 DEF Same
<1> QED
  BY <1>1, <1>2 DEF Ended

LEMMA ReaderAnswers ==
    ASSUME LineInv, StoredKnown, Answers, ~doubt', Reader \/ ReaderFails
    PROVE  Answers'
<1>1. /\ Same /\ UNCHANGED <<callVars, scanIndex, asked>>
      /\ readIndex \in Nat /\ readIndex' \in Nat /\ readIndex' >= readIndex
      /\ line = <<>> => line' = <<>>
  BY ReaderStream, Indexes
<1>2. Awaited' = Awaited /\ Old' = Old
  BY <1>1 DEF Awaited, Old, Done, Asking, Unsent, callVars, planVars
<1>3. Flow' /\ Whole'
  BY <1>1, <1>2, Kept DEF Answers
<1>4. (Arrived' <=> Arrived) /\ (Passed' <=> Passed)
  BY <1>1 DEF Arrived, Passed, Done, callVars, planVars
<1>5. ArrivedKnown'
  <2>1. pc' = pc /\ prevIndex' = prevIndex /\ Total' = Total
    BY <1>1 DEF callVars, Same
  <2> QED
    BY <1>1, <1>2, <1>4, <2>1, EndedKept DEF Answers, ArrivedKnown
<1>6. PassedKnown'
  <2>1. pc' = pc /\ prevIndex' = prevIndex /\ Total' = Total /\ scanIndex' = scanIndex
    BY <1>1 DEF callVars, Same
  <2>2. scanIndex < Total => At(scanIndex)' = At(scanIndex)
    BY <1>1, <2>1, Indexes DEF Same
  <2>3. scanIndex \in Nat
    BY Indexes
  <2> QED
    BY <1>1, <1>4, <2>1, <2>2, <2>3 DEF Answers, PassedKnown
<1> QED
  BY <1>3, <1>5, <1>6 DEF Answers

LEMMA AnswersInit == Init => AnswersKnown
<1> SUFFICES ASSUME Init PROVE Answers
  BY DEF AnswersKnown
<1>1. Total = 0 /\ scanIndex = 0
  BY DEF Init, Total, Stored
<1>2. Flow /\ ~Ended("dlinfoEnd")
  BY <1>1 DEF Flow, Ended
<1>3. ~Arrived /\ ~Passed
  BY DEF Init, Arrived, Passed
<1> QED
  BY <1>2, <1>3 DEF Answers, Whole, ArrivedKnown, PassedKnown

LEMMA SameAims ==
    ASSUME UNCHANGED <<part, step>>, pc # "next", pc' # "next", Unsent' <=> Unsent
    PROVE  Awaited' = Awaited /\ Old' = Old
BY DEF Awaited, Old, Done, Asking

LEMMA TurnAnswers ==
    ASSUME LineInv, Answers, LookAtModule \/ OpenModule \/ SendBlock \/ VerifyModule \/ ActivateModule \/ Leave
    PROVE  Answers'
<1>1. /\ Same /\ UNCHANGED <<scanIndex, asked>> /\ pc = "next" /\ pc' = "next" /\ step' = 0
      /\ step = Len(Calls[part]) /\ part \in DOMAIN Calls
      /\ \/ part \in {"connect", "look", "activate"} /\ part' = "look"
         \/ part = "look" /\ part' = "open"
         \/ part \in {"open", "block"} /\ part' \in {"block", "verify"}
         \/ part = "verify" /\ part' = "activate"
         \/ part \in {"look", "verify"} /\ part' = "leave"
  BY UpdaterStream DEF LookAtModule, OpenModule, SendBlock, VerifyModule, ActivateModule, Leave, Turn, Made,
                       LineInv, LineTypeOK
<1>2. ~Unsent /\ ~Unsent'
  BY <1>1 DEF Unsent
<1>2a. /\ part \in {"look", "block"} => step = 5
       /\ part \in {"open", "verify"} => step = 3
       /\ part \in {"connect", "activate", "leave"} => step = 2
  BY <1>1, Lengths
<1>3. Awaited = "none"
  BY <1>1, <1>2, <1>2a DEF Awaited, Done, Asking
<1>3a. Awaited' = "none"
  <2>1. ~Asking(1)' /\ ~Asking(3)'
    BY <1>1 DEF Asking
  <2> QED
    BY <2>1 DEF Awaited
<1>4. Old' = Old \/ Old = "none"
  <2>1. Old = (IF part \in {"connect", "open"} THEN "none" ELSE IF part = "block" THEN "dlRet" ELSE "dlinfoEnd")
    BY <1>1, <1>2a, Lengths DEF Old, Done
  <2>2. Old' = (IF part' \in {"block", "verify"} THEN "dlRet" ELSE "dlinfoEnd")
    BY <1>1 DEF Old, Done
  <2> QED
    BY <1>1, <2>1, <2>2
<1>5. Flow' /\ Whole'
  BY <1>1, <1>3, <1>3a, <1>4, Kept DEF Answers
<1>6. ~Arrived' /\ ~Passed'
  BY <1>1 DEF Arrived, Passed, Done
<1> QED
  BY <1>5, <1>6 DEF Answers, ArrivedKnown, PassedKnown

LEMMA BeginAnswers ==
    ASSUME LineInv, Answers, Begin
    PROVE  Answers'
<1>0. PICK c : c = Call'
  OBVIOUS
<1>1. /\ Same /\ UNCHANGED <<scanIndex, asked, part, line, readIndex>> /\ pc = "next" /\ pc' # "next"
      /\ step' = step + 1 /\ step \in Nat /\ step' \in 1..Len(Calls[part]) /\ part \in DOMAIN Calls
      /\ pc' # "consumed" /\ (pc' = "consume" => c.op = "consume")
      /\ Unsent' <=> c.op \in {"cmd", "quiet", "binary"}
  <2>1. UNCHANGED <<readerVars, line>>
    BY DEF Begin
  <2>2. step \in Nat
    BY Lengths DEF LineInv, LineTypeOK
  <2>3. Unsent' <=> c.op \in {"cmd", "quiet", "binary"}
    BY <1>0, BeginGoes DEF Unsent
  <2> QED
    BY <1>0, <2>1, <2>2, <2>3, BeginGoes, UpdaterStream
<1>2. c = Calls[part][step']
  BY <1>0, <1>1 DEF Call
<1>3. ~Unsent
  BY <1>1 DEF Unsent
<1>4. Awaited' = Awaited /\ Old' = Old /\ (Arrived' <=> Arrived) /\ (Passed' <=> Passed)
  <2> USE DEF Cmd, QuietCmd, Binary, Wait, Parse, IdleParse, Check, Consume, Stop
  <2>1. Awaited' = Awaited
    BY <1>1, <1>2, <1>3, CallCases DEF Awaited, Done, Asking
  <2>2. Old' = Old
    BY <1>1 DEF Old, Done
  <2>3. Arrived' <=> Arrived
    BY <1>1, <1>2, CallCases DEF Arrived, Done
  <2>4. Passed' <=> Passed
    BY <1>1, <1>2, CallCases DEF Passed, Done
  <2> QED
    BY <2>1, <2>2, <2>3, <2>4
<1>5. Flow' /\ Whole'
  BY <1>1, <1>4, Kept DEF Answers
<1>6. ArrivedKnown'
  BY <1>1, <1>4, EndedKept DEF Answers, ArrivedKnown
<1>7. PassedKnown'
  <2>1. scanIndex < Total => At(scanIndex)' = At(scanIndex)
    BY <1>1, Indexes DEF Same
  <2> QED
    BY <1>1, <1>4, <2>1 DEF Answers, PassedKnown, Same
<1> QED
  BY <1>5, <1>6, <1>7 DEF Answers

\* What a search finds, until it runs into junk.
LEMMA TextKnown ==
    ASSUME LineInv, StoredKnown, NEW f \in Cells, f <= readIndex, NEW j
    PROVE  /\ j \in Text(f) => j \in Nat /\ j >= f /\ j < Stored /\ buffer[j] = At(j) /\ j < Total
           /\ j \in f..(Stored - 1) => j \in Text(f) /\ buffer[j] = At(j)
<1>1. /\ Stored \in Nat /\ Len(line) \in Nat /\ ReadBufferSize \in Nat /\ Total = Stored + Len(line)
      /\ Stored <= ReadBufferSize
  BY Indexes, LineAssumption DEF Stored, Total, Cells, LineInv, ReaderKnown
<1>2. \A i \in Cells : buffer[i] \in (IF i < Stored THEN Replies ELSE {End, Junk})
  BY DEF StoredKnown
<1>3. ASSUME j \in Text(f) PROVE j \in Nat /\ j >= f /\ j < Stored /\ buffer[j] = At(j) /\ j < Total
  <2>1. j \in Cells /\ j >= f /\ \A k \in f..j : buffer[k] \notin {End, Junk}
    BY <1>3 DEF Text
  <2>2. j \in f..j /\ j \in Nat
    BY <2>1 DEF Cells
  <2>3. j < Stored
    BY <1>2, <2>1, <2>2
  <2> QED
    BY <1>1, <2>1, <2>2, <2>3 DEF At
<1>4. ASSUME j \in f..(Stored - 1) PROVE j \in Text(f) /\ buffer[j] = At(j)
  <2>1. j \in Cells /\ j \in Int /\ j >= f /\ j < Stored /\ f \in Nat
    BY <1>1, <1>4 DEF Cells
  <2>2. \A r \in Replies : r \notin {End, Junk}
    BY DEF Replies, Texts, End, Junk
  <2>3. ASSUME NEW k \in f..j PROVE buffer[k] \notin {End, Junk}
    <3>1. k \in Cells /\ k < Stored
      BY <1>1, <2>1 DEF Cells
    <3> QED
      BY <1>2, <2>2, <3>1
  <2> QED
    BY <2>1, <2>3 DEF Text, At
<1> QED
  BY <1>3, <1>4

\* Where the awaited text was found, nothing is left on the line.
LEMMA FoundLast ==
    ASSUME LineInv, StoredKnown, Flow, NEW text \in {"dlinfoEnd", "blk", "dlRet"},
           Found(scanIndex, text), Old # text
    PROVE  /\ line = <<>> /\ Ended(text) /\ Awaited = text
<1>1. scanIndex \in Cells /\ scanIndex <= readIndex /\ scanIndex \in Nat /\ Total \in Nat
  BY Indexes DEF StoredKnown
<1>2. PICK j : j \in Text(scanIndex) /\ buffer[j].text = text
  BY DEF Found
<1>3. j \in Nat /\ j >= scanIndex /\ j < Stored /\ j < Total /\ At(j).text = text
  BY <1>1, <1>2, TextKnown
<1>4. Own(j)
  BY <1>1, <1>3 DEF Flow, Keys
<1>5. j = Total - 1 /\ Awaited = text
  BY <1>3, <1>4 DEF Own
<1>6. line \in Seq(Replies) /\ Len(line) \in Nat /\ Stored \in Nat /\ Total = Stored + Len(line)
  BY Indexes DEF Total
<1>6a. Len(line) = 0
  BY <1>3, <1>5, <1>6
<1>7. line = <<>>
  BY <1>6, <1>6a
<1> QED
  BY <1>1, <1>3, <1>5, <1>7 DEF Ended

\* Where another text was found, it is behind the old one, and the reader has counted the old one.
LEMMA FoundBehind ==
    ASSUME LineInv, StoredKnown, NEW text, text \notin Keys, Found(scanIndex, text),
           scanIndex < Total, At(scanIndex).text \in Keys
    PROVE  readIndex > scanIndex
<1>1. scanIndex \in Cells /\ scanIndex <= readIndex /\ scanIndex \in Nat
  BY Indexes DEF StoredKnown
<1>2. PICK j : j \in Text(scanIndex) /\ buffer[j].text = text
  BY DEF Found
<1>3. j \in Nat /\ j >= scanIndex /\ j < Stored /\ At(j).text = text
  BY <1>1, <1>2, TextKnown
<1>4. j # scanIndex
  BY <1>3
<1> QED
  BY <1>1, <1>3, <1>4, Indexes

\* A step within a call that finds nothing.
LEMMA SteadyAnswers ==
    ASSUME LineInv, Answers, UNCHANGED <<readerVars, line, scanIndex, asked, part, step>>,
           pc # "next", pc' # "next", Unsent' <=> Unsent, pc' # "consumed", pc' = "consume" => ~good'
    PROVE  Answers'
<1>1. Same /\ UNCHANGED <<buffer, readIndex, rpc>>
  BY UpdaterStream
<1>2. Awaited' = Awaited /\ Old' = Old
  BY SameAims
<1>3. Flow' /\ Whole'
  BY <1>1, <1>2, Kept DEF Answers
<1>4. (Arrived' => Arrived) /\ (Passed' => Passed)
  BY DEF Arrived, Passed, Done
<1>5. ArrivedKnown'
  BY <1>1, <1>2, <1>4, EndedKept DEF Answers, ArrivedKnown
<1>6. PassedKnown'
  <2>1. scanIndex < Total => At(scanIndex)' = At(scanIndex)
    BY <1>1, Indexes DEF Same
  <2> QED
    BY <1>1, <1>4, <2>1 DEF Answers, PassedKnown, Same
<1> QED
  BY <1>3, <1>5, <1>6 DEF Answers

LEMMA WaitAnswers ==
    ASSUME LineInv, Answers, Sample \/ Slept \/ WaitEnter \/ WaitGoesOn \/ Missed \/ WaitThrows
    PROVE  Answers'
<1> USE DEF Go, planVars
<1>1. UNCHANGED <<readerVars, line, scanIndex, asked, part, step>>
  BY DEF Sample, Slept, WaitEnter, WaitGoesOn, Missed, WaitThrows
<1>2. CASE Slept /\ pc' = "next"
  <2>1. Opening /\ part = "connect" /\ step = 0
    BY <1>2 DEF Slept, Opening, LineInv, CallKnown
  <2>2. Awaited = "none" /\ Old = "none" /\ Awaited' = "none"
    BY <1>1, <2>1 DEF Awaited, Old
  <2>3. Same
    BY <1>1, UpdaterStream
  <2>4. Flow' /\ Whole'
    BY <1>1, <2>2, <2>3, Kept DEF Answers
  <2>5. ~Arrived' /\ ~Passed'
    BY <1>1, <2>1 DEF Arrived, Passed
  <2> QED
    BY <2>4, <2>5 DEF Answers, ArrivedKnown, PassedKnown
<1>3. CASE Slept /\ pc' # "next"
  <2>1. /\ pc = "slept" /\ after' = after /\ (pc' = after \/ pc' = "idle")
        /\ after \in {"next", "send", "search", "parse"}
    BY <1>3 DEF Slept, LineInv, LineTypeOK
  <2>2. pc # "next" /\ (Unsent' <=> Unsent) /\ pc' # "consumed" /\ pc' # "consume"
    BY <1>3, <2>1 DEF Unsent
  <2> QED
    BY <1>1, <1>3, <2>2, SteadyAnswers
<1>4. CASE Sample
  <2>1. pc # "next" /\ pc' = "slept" /\ (Unsent' <=> Unsent)
    BY <1>4 DEF Sample, Unsent
  <2> QED
    BY <1>1, <2>1, SteadyAnswers
<1>5. CASE WaitEnter \/ WaitGoesOn \/ Missed
  <2>1. pc # "next" /\ pc' \in {"head", "idle"} /\ (Unsent' <=> Unsent)
    BY <1>5 DEF WaitEnter, WaitGoesOn, Missed, Unsent
  <2> QED
    BY <1>1, <2>1, SteadyAnswers
<1>6. CASE WaitThrows
  <2>1. pc # "next" /\ pc' = "consume" /\ ~good' /\ (Unsent' <=> Unsent)
    BY <1>6 DEF WaitThrows, Unsent
  <2> QED
    BY <1>1, <2>1, SteadyAnswers
<1> QED
  BY <1>2, <1>3, <1>4, <1>5, <1>6

LEMMA SearchAnswers ==
    ASSUME LineInv, StoredKnown, IndexKnown, Answers, Search, ~doubt'
    PROVE  Answers'
<1>1. /\ UNCHANGED <<readerVars, line, scanIndex, asked, part, step, readIndex>> /\ pc = "search"
      /\ scanFrom = scanIndex
      /\ pc' = "missed" \/ (pc' = "next" /\ Found(scanIndex, Ack(Call)))
  BY DEF Search, planVars, readerVars, Go, NextCall, IndexKnown, Waiting
<1>2. ~Unsent /\ ~Unsent'
  BY <1>1 DEF Unsent
<1>3. CASE pc' = "missed"
  BY <1>1, <1>2, <1>3, SteadyAnswers
<1>4. CASE pc' = "next" /\ Found(scanIndex, Ack(Call))
  <2>0. PICK c : c = Call
    OBVIOUS
  <2>1. /\ part \in DOMAIN Calls /\ step \in 1..Len(Calls[part]) /\ c = Calls[part][step]
        /\ c.op \in {"cmd", "wait"}
    BY <1>1, <2>0, Lengths DEF LineInv, LineTypeOK, CallKnown, Waiting, Opening, Call
  <2> USE DEF Cmd, QuietCmd, Binary, Wait, Parse, IdleParse, Check, Consume, Stop
  <2>2. \/ part = "connect" \/ part = "activate" \/ (part \in {"look", "block", "verify"} /\ step = 1)
        \/ part = "look" /\ step = 3
        \/ part = "look" /\ step = 4 /\ Ack(c) = "dlinfoEnd"
        \/ part = "open" /\ step = 1 /\ Ack(c) = "dlinitAck"
        \/ part = "block" /\ step = 4
        \/ part = "verify" /\ step = 2 /\ Ack(c) = "dlinfoEnd"
    BY <2>1, CallCases DEF Ack, AckOf
  <2>3. Same /\ pc = "search" /\ pc' = "next" /\ part' = part /\ step' = step /\ scanIndex' = scanIndex
    BY <1>1, <1>4, UpdaterStream
  <2>4. Awaited' = Awaited
    BY <1>2, <2>2, <2>3 DEF Awaited, Done, Asking
  <2>5. Old' = Old
    BY <2>2, <2>3 DEF Old, Done
  <2>6. Flow' /\ Whole'
    BY <1>1, <2>3, <2>4, <2>5, Kept DEF Answers
  <2>7. ArrivedKnown'
    <3>1. CASE Arrived'
      <4>1. \/ part = "look" /\ step = 4 /\ Ack(c) = "dlinfoEnd"
            \/ part = "verify" /\ step = 2 /\ Ack(c) = "dlinfoEnd"
        BY <2>2, <2>3, <3>1 DEF Arrived, Done
      <4>2. Found(scanIndex, "dlinfoEnd")
        BY <1>4, <2>0, <4>1
      <4>3. Old # "dlinfoEnd"
        BY <2>3, <4>1 DEF Old, Done
      <4>4. line = <<>> /\ Ended("dlinfoEnd") /\ Awaited = "dlinfoEnd"
        BY <4>2, <4>3, FoundLast DEF Answers
      <4>5. line' = <<>> /\ Ended(Awaited)'
        BY <1>1, <2>3, <2>4, <4>4, EndedKept
      <4> QED
        BY <2>3, <4>5 DEF ArrivedKnown
    <3> QED
      BY <3>1 DEF ArrivedKnown
  <2>8. PassedKnown'
    <3>1. CASE Passed'
      <4>1. part = "open" /\ step = 1 /\ Ack(c) = "dlinitAck"
        BY <2>2, <2>3, <3>1 DEF Passed, Done
      <4>2. Found(scanIndex, "dlinitAck")
        BY <1>4, <2>0, <4>1
      <4>3. scanIndex < Total /\ At(scanIndex).text \in Keys => readIndex > scanIndex
        BY <4>2, FoundBehind DEF Keys
      <4>4. scanIndex < Total => At(scanIndex)' = At(scanIndex)
        BY <2>3, Indexes DEF Same
      <4> QED
        BY <1>1, <2>3, <4>3, <4>4 DEF PassedKnown, Same
    <3> QED
      BY <3>1 DEF PassedKnown
  <2> QED
    BY <2>6, <2>7, <2>8 DEF Answers
<1> QED
  BY <1>1, <1>3, <1>4

LEMMA ParseAnswers ==
    ASSUME LineInv, StoredKnown, Answers, ParseText, ~doubt', pc' # "looping"
    PROVE  Answers'
<1>1. /\ UNCHANGED <<readerVars, line, scanIndex, asked, part, step, readIndex>> /\ pc = "parse" /\ pc' = "consume"
      /\ good' => Call.text = "report" \/ Found(scanIndex, Call.text)
  BY DEF ParseText, planVars, readerVars, Go
<1>2. PICK c : c = Call
  OBVIOUS
<1>3. /\ part \in DOMAIN Calls /\ step \in 1..Len(Calls[part]) /\ c = Calls[part][step]
      /\ c.op \in {"parse", "idleParse", "check"}
  BY <1>1, <1>2, Lengths DEF LineInv, LineTypeOK, CallKnown, Parsing, Opening, Call
<1>4. \/ part = "look" /\ step = 2 /\ c.text = "versions"
      \/ part = "look" /\ step = 5
      \/ part = "block" /\ step = 2 /\ c.text = "blk"
      \/ part = "block" /\ step = 5 /\ c.text = "dlRet"
      \/ part = "verify" /\ step = 3
  BY <1>3, CallCases DEF Cmd, QuietCmd, Binary, Wait, Parse, IdleParse, Check, Consume, Stop
<1>5. Same
  BY <1>1, UpdaterStream
<1>6. Awaited' = Awaited /\ Old' = Old
  BY <1>1, SameAims DEF Unsent
<1>7. Flow' /\ Whole'
  BY <1>1, <1>5, <1>6, Kept DEF Answers
<1>8. ArrivedKnown'
  <2>1. ASSUME Arrived' PROVE line = <<>> /\ Ended(Awaited)
    <3>1. Arrived \/ (part = "block" /\ step \in {2, 5} /\ good')
      BY <1>1, <2>1 DEF Arrived, Done
    <3>2. CASE part = "block" /\ step \in {2, 5} /\ good'
      <4>1. c.text \in {"blk", "dlRet"} /\ Found(scanIndex, c.text)
        BY <1>1, <1>2, <1>4, <3>2
      <4>2. Old # c.text
        BY <1>1, <1>4, <3>2 DEF Old, Done
      <4> QED
        BY <4>1, <4>2, FoundLast DEF Answers
    <3> QED
      BY <3>1, <3>2 DEF Answers, ArrivedKnown
  <2> QED
    BY <1>1, <1>5, <1>6, <2>1, EndedKept DEF ArrivedKnown
<1>9. PassedKnown'
  <2>1. ASSUME Passed', scanIndex < Total, At(scanIndex).text \in Keys PROVE readIndex > scanIndex
    <3>1. Passed \/ (part = "look" /\ step = 2 /\ good')
      BY <1>1, <2>1 DEF Passed, Done
    <3>2. CASE part = "look" /\ step = 2 /\ good'
      <4>1. Found(scanIndex, "versions")
        BY <1>1, <1>2, <1>4, <3>2
      <4> QED
        BY <2>1, <4>1, FoundBehind DEF Keys
    <3> QED
      BY <2>1, <3>1, <3>2 DEF Answers, PassedKnown
  <2>2. scanIndex < Total => At(scanIndex)' = At(scanIndex)
    BY <1>1, <1>5, Indexes DEF Same
  <2> QED
    BY <1>1, <1>5, <2>1, <2>2 DEF PassedKnown, Same
<1> QED
  BY <1>7, <1>8, <1>9 DEF Answers

LEMMA LoadAnswers ==
    ASSUME LineInv, Answers, ConsumeLoad
    PROVE  Answers'
<1>1. /\ UNCHANGED <<readerVars, line, scanIndex, asked, part, step, good, readIndex>>
      /\ pc = "consume" /\ pc' = "consumed" /\ prevIndex' = readIndex
  BY DEF ConsumeLoad, planVars, readerVars, Go
<1>2. Same
  BY <1>1, UpdaterStream
<1>3. Awaited' = Awaited /\ Old' = Old
  BY <1>1, SameAims DEF Unsent
<1>4. Flow' /\ Whole'
  BY <1>1, <1>2, <1>3, Kept DEF Answers
<1>5. (Arrived' => Arrived) /\ (Passed' => Passed)
  BY <1>1 DEF Arrived, Passed, Done
<1>6. ArrivedKnown'
  <2>1. line = <<>> => readIndex >= Total - 1
    BY Indexes DEF Total
  <2> QED
    BY <1>1, <1>2, <1>3, <1>5, <2>1, EndedKept DEF Answers, ArrivedKnown, Same
<1>7. PassedKnown'
  <2>1. scanIndex < Total => At(scanIndex)' = At(scanIndex)
    BY <1>1, <1>2, Indexes DEF Same
  <2> QED
    BY <1>1, <1>2, <1>5, <2>1 DEF Answers, PassedKnown, Same
<1> QED
  BY <1>4, <1>6, <1>7 DEF Answers

LEMMA StoreAnswers ==
    ASSUME LineInv, IndexKnown, Answers, ConsumeStore, good
    PROVE  Answers'
<1>1. /\ UNCHANGED <<readerVars, line, asked, part, step, prevIndex, readIndex>>
      /\ pc = "consumed" /\ pc' = "next" /\ scanIndex' = prevIndex
  BY DEF ConsumeStore, planVars, readerVars, NextCall, Go
<1>2. PICK c : c = Call
  OBVIOUS
<1>3. /\ part \in DOMAIN Calls /\ step \in 1..Len(Calls[part]) /\ c = Calls[part][step]
      /\ c.op \in {"parse", "idleParse", "check", "consume"}
  BY <1>1, <1>2, Lengths DEF LineInv, LineTypeOK, CallKnown, Opening, Call
<1>4. \/ part = "look" /\ step \in {2, 5}
      \/ part = "open" /\ step = 3
      \/ part = "block" /\ step \in {2, 5}
      \/ part = "verify" /\ step = 3
  BY <1>3, CallCases DEF Cmd, QuietCmd, Binary, Wait, Parse, IdleParse, Check, Consume, Stop
<1>5. Same
  BY <1>1, UpdaterStream
<1>6. scanIndex \in Nat /\ prevIndex \in Nat /\ scanIndex <= prevIndex /\ Total \in Nat /\ Total' = Total
  BY <1>1, <1>5, Indexes DEF IndexKnown, Same
<1>7. Awaited' = "none"
  BY <1>1, <1>4 DEF Awaited, Done, Asking, Unsent
<1>8. ~Arrived' /\ ~Passed'
  BY <1>1, <1>4 DEF Arrived, Passed, Done
<1>9. Flow'
  <2> SUFFICES ASSUME NEW i \in prevIndex..(Total - 1), At(i).text \in Keys
               PROVE  i = prevIndex /\ At(i).text = Old'
    BY <1>1, <1>5, <1>6 DEF Flow, Same
  <2>1. i \in scanIndex..(Total - 1) /\ i \in Int
    BY <1>6
  <2>2. CASE (part = "look" /\ step = 2) \/ part = "open"
    <3>1. Passed /\ Awaited = "none"
      BY <1>1, <1>4, <2>2 DEF Passed, Awaited, Done, Asking
    <3>2. i = scanIndex
      BY <2>1, <3>1 DEF Answers, Flow, Own, Keys
    <3>3. scanIndex < Total
      BY <1>6, <2>1, <3>2
    <3> QED
      BY <1>1, <1>6, <3>1, <3>2, <3>3 DEF Answers, PassedKnown
  <2>3. CASE ~((part = "look" /\ step = 2) \/ part = "open")
    <3>1. Arrived /\ Awaited = Old'
      <4>1. Arrived
        BY <1>1, <1>4, <2>3 DEF Arrived, Done
      <4>2. Awaited = Old'
        BY <1>1, <1>4, <2>3 DEF Awaited, Old, Done, Asking, Unsent
      <4> QED
        BY <4>1, <4>2
    <3>2. Ended(Awaited) /\ prevIndex >= Total - 1
      BY <1>1, <3>1 DEF Answers, ArrivedKnown
    <3> QED
      BY <1>6, <3>1, <3>2 DEF Ended
  <2> QED
    BY <2>2, <2>3
<1> QED
  BY <1>7, <1>8, <1>9 DEF Answers, Whole, ArrivedKnown, PassedKnown

LEMMA JoinAnswers ==
    ASSUME LineInv, Answers, Join, pc' # "over"
    PROVE  Answers'
<1>1. /\ UNCHANGED <<readerVars, line, scanIndex, asked, part, step>> /\ pc = "join" /\ pc' = "next"
  BY DEF Join, planVars, Go
<1>2. PICK c : c = Call
  OBVIOUS
<1>3. /\ part \in DOMAIN Calls /\ step \in 1..Len(Calls[part]) /\ c = Calls[part][step] /\ c.op = "stop"
  BY <1>1, <1>2, Lengths DEF LineInv, LineTypeOK, CallKnown, Opening, Call
<1>4. part = "leave"
  BY <1>3, CallCases DEF Cmd, QuietCmd, Binary, Wait, Parse, IdleParse, Check, Consume, Stop
<1>5. Same
  BY <1>1, UpdaterStream
<1>6. Awaited' = Awaited /\ Old' = Old /\ ~Arrived' /\ ~Passed'
  BY <1>1, <1>4 DEF Awaited, Old, Arrived, Passed
<1>7. Flow' /\ Whole'
  BY <1>1, <1>5, <1>6, Kept DEF Answers
<1> QED
  BY <1>6, <1>7 DEF Answers, ArrivedKnown, PassedKnown

LEMMA SendAnswers ==
    ASSUME LineInv, StoredKnown, Answers, Send, pc' # "closing"
    PROVE  Answers'
<1>1. /\ UNCHANGED <<scanIndex, part, step, readIndex, prevIndex>> /\ asked' = asked + 1
      /\ pc = "send" /\ pc' \in {"enter", "next"} /\ (Call.op # "binary" => part = "leave" \/ pc' = "enter")
  <2>1. pc' = (IF Call.op = "cmd" THEN "enter" ELSE "next") /\ pc = "send" /\ asked' = asked + 1
    BY DEF Send, Throw, Go
  <2>2. UNCHANGED <<scanIndex, part, step, readIndex, prevIndex>>
    BY DEF Send, planVars, readerVars
  <2>3. Call.op = "quiet" => part = "leave"
    <3>1. PICK c : c = Call
      OBVIOUS
    <3>2. part \in DOMAIN Calls /\ step \in 1..Len(Calls[part]) /\ c = Calls[part][step]
      BY <2>1, <3>1, Lengths DEF LineInv, LineTypeOK, CallKnown, Opening, Call
    <3> QED
      BY <3>1, <3>2, CallCases DEF Cmd, QuietCmd, Binary, Wait, Parse, IdleParse, Check, Consume, Stop
  <2>4. Call.op \in {"cmd", "quiet", "binary"}
    BY <2>1 DEF LineInv, CallKnown, Unsent
  <2> QED
    BY <2>1, <2>2, <2>3, <2>4
<1>2. PICK c : c = Call
  OBVIOUS
<1>3. /\ part \in DOMAIN Calls /\ step \in 1..Len(Calls[part]) /\ c = Calls[part][step]
      /\ c.op \in {"cmd", "quiet", "binary"}
  BY <1>1, <1>2, Lengths DEF LineInv, LineTypeOK, CallKnown, Unsent, Opening, Call
<1>4. \/ part \in {"connect", "activate", "leave"} /\ c.text \in {"dlspd", "dlver", "dlact"}
      \/ part = "look" /\ step = 1 /\ c.text = "dlver"
      \/ part \in {"look", "verify"} /\ (part = "look" => step = 3) /\ (part = "verify" => step = 1)
            /\ c.text = "dlinfo"
      \/ part = "open" /\ step = 1 /\ c.text = "dlinit" /\ c.op = "cmd"
      \/ part = "open" /\ step = 2 /\ c.text = "crcs"
      \/ part = "block" /\ step = 1 /\ c.text = "dl"
      \/ part = "block" /\ step = 3 /\ c.text = "block"
  BY <1>3, CallCases DEF Cmd, QuietCmd, Binary, Wait, Parse, IdleParse, Check, Consume, Stop
<1>5. PICK t : t = Answer(c)
  OBVIOUS
<1>6. /\ t \in Seq(Texts) /\ Len(t) \in 0..3 /\ (c.text = "crcs" => Len(t) = 0)
      /\ c.text = "dlinfo" => Len(t) = 3 /\ t[2] = "report" /\ t[3] = "dlinfoEnd"
      /\ \A k \in 1..Len(t) : t[k] \in Keys =>
            \/ c.text = "dlinfo" /\ k \in {2, 3}
            \/ c.text = "dl" /\ t[k] = "blk" /\ k = Len(t)
            \/ c.text = "block" /\ t[k] = "dlRet" /\ k = Len(t)
  <2>1. c.text \in {"dlspd", "dlver", "dlinfo", "dlinit", "dl", "dlact", "crcs", "block"}
    BY <1>4
  <2> QED
    BY <1>5, <2>1, AnswerIs
<1>7. PICK n : n = Total
  OBVIOUS
<1>8. n \in Nat /\ scanIndex \in Nat /\ scanIndex <= n /\ asked \in Nat
  <2>1. /\ Stored \in Nat /\ scanIndex \in Nat /\ readIndex \in Nat /\ asked \in Nat /\ Len(line) \in Nat
        /\ Stored \in {readIndex, readIndex + 1}
    BY Indexes
  <2>2. scanIndex <= readIndex /\ n = Stored + Len(line)
    BY <1>7 DEF StoredKnown, Total
  <2> QED
    BY <2>1, <2>2
<1>9. /\ Total' = n \/ (Total' = n + Len(t)
                        /\ \A i \in n..(n + Len(t) - 1) : At(i)' = [text |-> t[i - n + 1], of |-> asked + 1])
      /\ \A i \in 0..(n - 1) : At(i)' = At(i)
  BY <1>2, <1>5, <1>6, <1>7, SendStream DEF Same
<1>10. Unsent /\ ~Unsent'
  BY <1>1 DEF Unsent
<1>11. Awaited = "none"
  BY <1>1, <1>4, <1>10 DEF Awaited, Done, Asking
<1>12. Old' = Old
  BY <1>1, <1>4 DEF Old, Done
<1>13. /\ c.text = "dlinfo" => Awaited' = "dlinfoEnd" /\ Old # "dlinfoEnd"
       /\ Awaited' = "dlinfoEnd" => c.text = "dlinfo"
       /\ c.text = "dl" => Awaited' = "blk"
       /\ c.text = "block" => Awaited' = "dlRet"
  <2>1. Awaited' = (CASE c.text = "dlinfo" -> "dlinfoEnd" [] c.text = "dl" -> "blk"
                      [] c.text = "block" -> "dlRet" [] OTHER -> "none")
    BY <1>1, <1>4, <1>10 DEF Awaited, Done, Asking
  <2>2. c.text = "dlinfo" => Old # "dlinfoEnd"
    BY <1>1, <1>4 DEF Old, Done
  <2> QED
    BY <2>1, <2>2
<1>14. ASSUME NEW i \in scanIndex..(n - 1), At(i)'.text \in Keys
       PROVE  i = scanIndex /\ At(i)' = At(i) /\ At(i).text = Old
  <2>1. At(i)' = At(i)
    BY <1>8, <1>9
  <2>2. ~Own(i)
    BY <1>11, <1>14, <2>1 DEF Own, Keys
  <2> QED
    BY <1>7, <1>14, <2>1, <2>2 DEF Answers, Flow
<1>15. ASSUME NEW i \in n..(Total' - 1), At(i)'.text \in Keys
       PROVE  /\ c.text = "dlinfo" => i \in {Total' - 2, Total' - 1}
              /\ c.text # "dlinfo" => i = Total' - 1
              /\ At(i)' = [text |-> IF i = Total' - 2 THEN "report" ELSE Awaited', of |-> asked']
  <2>1. /\ Total' = n + Len(t) /\ i - n + 1 \in 1..Len(t) /\ i \in Int
        /\ At(i)' = [text |-> t[i - n + 1], of |-> asked + 1]
    BY <1>6, <1>8, <1>9, <1>15
  <2>2. PICK k \in 1..Len(t) : k = i - n + 1
    BY <2>1
  <2>3. t[k] \in Keys /\ At(i)' = [text |-> t[k], of |-> asked']
    BY <1>1, <1>15, <2>1, <2>2
  <2>4. Len(t) \in Nat /\ i = n + k - 1 /\ k \in Int
    BY <1>6, <1>8, <2>1, <2>2
  <2>5. CASE c.text = "dlinfo"
    <3>1. k \in {2, 3} /\ Len(t) = 3
      BY <1>6, <2>3, <2>5
    <3>2. k = 2 => i = Total' - 2 /\ t[k] = "report"
      BY <1>6, <1>8, <2>1, <2>4, <2>5, <3>1
    <3>3. k = 3 => i = Total' - 1 /\ t[k] = Awaited'
      BY <1>6, <1>8, <1>13, <2>1, <2>4, <2>5, <3>1
    <3> QED
      BY <1>8, <2>1, <2>3, <2>5, <3>1, <3>2, <3>3
  <2>6. CASE c.text # "dlinfo"
    <3>1. k = Len(t) /\ t[k] = Awaited'
      BY <1>6, <1>13, <2>3, <2>6
    <3>2. i = Total' - 1
      BY <1>8, <2>1, <2>4, <3>1
    <3> QED
      BY <1>8, <2>1, <2>3, <2>6, <3>1, <3>2
  <2> QED
    BY <2>5, <2>6
<1>16. Flow'
  <2> SUFFICES ASSUME NEW i \in scanIndex..(Total' - 1), At(i)'.text \in Keys
               PROVE  Own(i)' \/ (i = scanIndex /\ At(i)'.text = Old')
    BY <1>1 DEF Flow
  <2>1. CASE i < n
    BY <1>8, <1>12, <1>14, <2>1
  <2>2. CASE i >= n
    <3>1. i \in n..(Total' - 1)
      BY <1>8, <1>9, <1>6, <2>2
    <3>2. i \in Int /\ Total' \in Int
      BY <1>6, <1>8, <1>9
    <3>3. /\ c.text = "dlinfo" => i \in {Total' - 2, Total' - 1}
          /\ c.text # "dlinfo" => i = Total' - 1
          /\ At(i)' = [text |-> IF i = Total' - 2 THEN "report" ELSE Awaited', of |-> asked']
      BY <1>15, <3>1
    <3>4. i = Total' - 1 => At(i)' = [text |-> Awaited', of |-> asked']
      BY <3>2, <3>3
    <3> QED
      BY <1>13, <3>2, <3>3, <3>4 DEF Own
  <2> QED
    BY <1>8, <2>1, <2>2
<1>17. Whole'
  <2> SUFFICES ASSUME Awaited' = "dlinfoEnd", scanIndex < Total', At(Total - 1)'.text = "dlinfoEnd"
               PROVE  Total' - 2 >= scanIndex /\ At(Total - 2)' = [text |-> "report", of |-> asked']
    BY <1>1 DEF Whole, Ended
  <2>1. c.text = "dlinfo" /\ Old # "dlinfoEnd" /\ Len(t) = 3 /\ t[2] = "report"
    BY <1>6, <1>13
  <2>2. CASE Total' = n
    <3>1. n - 1 \in scanIndex..(n - 1) /\ At(n - 1)'.text = "dlinfoEnd"
      BY <1>8, <2>2
    <3>2. At(n - 1)'.text = Old
      BY <1>14, <3>1 DEF Keys
    <3> QED
      BY <2>1, <3>1, <3>2
  <2>3. CASE Total' # n
    <3>1. Total' = n + 3 /\ \A i \in n..(n + 2) : At(i)' = [text |-> t[i - n + 1], of |-> asked + 1]
      BY <1>8, <1>9, <2>1, <2>3
    <3>2. At(n + 1)' = [text |-> "report", of |-> asked']
      BY <1>1, <1>8, <2>1, <3>1
    <3>3. Total' - 2 = n + 1
      BY <1>8, <3>1
    <3> QED
      BY <1>8, <3>2, <3>3
  <2> QED
    BY <2>2, <2>3
<1>18. ~Arrived'
  BY <1>1, <1>4 DEF Arrived, Done
<1>19. PassedKnown'
  <2>1. CASE Passed'
    <3>1. part = "open" /\ step = 2 /\ c.text = "crcs"
      BY <1>1, <1>2, <1>4, <2>1 DEF Passed, Done
    <3>2. Passed /\ Total' = n
      BY <1>1, <1>6, <1>8, <1>9, <3>1 DEF Passed, Done
    <3>3. scanIndex < n => At(scanIndex)' = At(scanIndex)
      BY <1>1, <1>8, <1>9
    <3> QED
      BY <1>1, <1>7, <3>2, <3>3 DEF Answers, PassedKnown
  <2> QED
    BY <2>1 DEF PassedKnown
<1> QED
  BY <1>16, <1>17, <1>18, <1>19 DEF Answers, ArrivedKnown

LEMMA AnswersStep == LineInv /\ MemoryKnown /\ AnswersKnown /\ [Next]_vars => AnswersKnown'
<1> SUFFICES ASSUME LineInv, MemoryKnown, AnswersKnown, [Next]_vars, ~doubt', pc' \notin {"closing", "over", "looping"}
             PROVE  Answers'
  BY DEF AnswersKnown
<1>1. StoredKnown /\ IndexKnown /\ (pc \notin {"closing", "over", "looping"} => Answers)
  BY DoubtStays DEF MemoryKnown, AnswersKnown
<1>2. CASE UNCHANGED vars
  <2>1. UNCHANGED <<callVars, readerVars, scanIndex, line, asked>>
    BY <1>2 DEF vars
  <2>2. UNCHANGED <<planVars, pc, after, prevIndex, good, buffer, readIndex, rpc, scanIndex, line, asked>>
    BY <2>1 DEF callVars, readerVars
  <2>3. Answers
    BY <1>1, <2>2
  <2> QED
    BY <2>2, <2>3 DEF Answers, Flow, Whole, ArrivedKnown, PassedKnown, Own, Ended, Awaited, Old, Arrived, Passed,
          Total, Stored, At, Done, Asking, Unsent, planVars
<1>3. CASE Reader \/ ReaderFails
  <2>1. UNCHANGED callVars
    BY <1>1, <1>3, ReaderStream
  <2>2. pc' = pc
    BY <2>1 DEF callVars
  <2> QED
    BY <1>1, <1>3, <2>2, ReaderAnswers
<1>4. CASE LookAtModule \/ OpenModule \/ SendBlock \/ VerifyModule \/ ActivateModule \/ Leave
  <2>1. pc = "next"
    BY <1>4 DEF LookAtModule, OpenModule, SendBlock, VerifyModule, ActivateModule, Leave, Made
  <2> QED
    BY <1>1, <1>4, <2>1, TurnAnswers
<1>5. CASE Begin
  <2>1. pc = "next"
    BY <1>5 DEF Begin
  <2> QED
    BY <1>1, <1>5, <2>1, BeginAnswers
<1>6. CASE Sample \/ Slept \/ WaitEnter \/ WaitGoesOn \/ Missed \/ WaitThrows
  <2>1. pc \notin {"closing", "over", "looping"}
    BY <1>6 DEF Sample, Slept, WaitEnter, WaitGoesOn, Missed, WaitThrows
  <2> QED
    BY <1>1, <1>6, <2>1, WaitAnswers
<1>7. CASE Send
  <2>1. pc = "send"
    BY <1>7 DEF Send
  <2> QED
    BY <1>1, <1>7, <2>1, SendAnswers
<1>8. CASE Search
  <2>1. pc = "search"
    BY <1>8 DEF Search
  <2> QED
    BY <1>1, <1>8, <2>1, SearchAnswers
<1>9. CASE ParseText
  <2>1. pc = "parse"
    BY <1>9 DEF ParseText
  <2> QED
    BY <1>1, <1>9, <2>1, ParseAnswers
<1>10. CASE ConsumeLoad
  <2>1. pc = "consume"
    BY <1>10 DEF ConsumeLoad
  <2> QED
    BY <1>1, <1>10, <2>1, LoadAnswers
<1>11. CASE ConsumeStore
  <2>1. pc = "consumed" /\ good
    BY <1>11 DEF ConsumeStore, Throw
  <2> QED
    BY <1>1, <1>11, <2>1, StoreAnswers
<1>12. CASE Join
  <2>1. pc = "join"
    BY <1>12 DEF Join, Go
  <2> QED
    BY <1>1, <1>12, <2>1, JoinAnswers
<1>13. ~Finish /\ ~WaitEnds
  BY DEF Finish, WaitEnds, Go
<1>14. ~Over
  BY DEF Over, vars, callVars
<1> QED
  BY <1>2, <1>3, <1>4, <1>5, <1>6, <1>7, <1>8, <1>9, <1>10, <1>11, <1>12, <1>13, <1>14
     DEF Next, Updater, Expire

\* When a parser looks, what it looks for is there from this question only.
LEMMA ParserSees ==
    ASSUME LineInv, MemoryKnown, AnswersKnown
    PROVE  AnswerIsOwn
<1> SUFFICES ASSUME pc = "parse", ~doubt, Call.text # "versions"
             PROVE  /\ \A j \in Text(scanIndex) : buffer[j].text = Call.text => buffer[j].of = asked
                    /\ Call.text = "report" => \E k, j \in Text(scanIndex) :
                         /\ k < j /\ buffer[k] = [text |-> "report", of |-> asked]
                         /\ buffer[j] = [text |-> "dlinfoEnd", of |-> asked]
  BY DEF AnswerIsOwn
<1>1. StoredKnown /\ Answers
  BY DEF MemoryKnown, AnswersKnown
<1>2. scanIndex \in Cells /\ scanIndex <= readIndex /\ scanIndex \in Nat /\ Total \in Nat /\ Stored \in Nat
  BY <1>1, Indexes DEF StoredKnown
<1>3. PICK c : c = Call
  OBVIOUS
<1>4. /\ part \in DOMAIN Calls /\ step \in 1..Len(Calls[part]) /\ c = Calls[part][step]
      /\ c.op \in {"parse", "idleParse", "check"} /\ c.text # "versions"
  BY <1>3, Lengths DEF LineInv, LineTypeOK, CallKnown, Parsing, Opening, Call
<1>5. \/ part = "look" /\ step = 5 /\ c.text = "report"
      \/ part = "block" /\ step = 2 /\ c.text = "blk"
      \/ part = "block" /\ step = 5 /\ c.text = "dlRet"
      \/ part = "verify" /\ step = 3 /\ c.text = "report"
  BY <1>4, CallCases DEF Cmd, QuietCmd, Binary, Wait, Parse, IdleParse, Check, Consume, Stop
<1>6. Old # c.text
  BY <1>5 DEF Old, Done
<1>7. ASSUME NEW j \in Text(scanIndex), buffer[j].text = c.text PROVE buffer[j].of = asked
  <2>1. j \in scanIndex..(Total - 1) /\ buffer[j] = At(j)
    BY <1>1, <1>2, TextKnown
  <2>2. Own(j)
    BY <1>1, <1>5, <1>6, <1>7, <2>1 DEF Answers, Flow, Keys
  <2> QED
    BY <2>1, <2>2 DEF Own
<1>8. ASSUME c.text = "report"
      PROVE  \E k, j \in Text(scanIndex) :
                /\ k < j /\ buffer[k] = [text |-> "report", of |-> asked]
                /\ buffer[j] = [text |-> "dlinfoEnd", of |-> asked]
  <2>1. Arrived /\ Awaited = "dlinfoEnd" /\ Old # "dlinfoEnd"
    BY <1>5, <1>8 DEF Arrived, Awaited, Old, Done, Asking, Unsent
  <2>2. line = <<>> /\ Ended("dlinfoEnd")
    BY <1>1, <2>1 DEF Answers, ArrivedKnown
  <2>3. Total = Stored
    BY <1>2, <2>2 DEF Total
  <2>4. Total - 2 >= scanIndex /\ At(Total - 2) = [text |-> "report", of |-> asked]
    BY <1>1, <2>1, <2>2 DEF Answers, Whole
  <2>5. At(Total - 1) = [text |-> "dlinfoEnd", of |-> asked]
    <3>1. Total - 1 \in scanIndex..(Total - 1) /\ At(Total - 1).text = "dlinfoEnd"
      BY <1>2, <2>2 DEF Ended
    <3>2. Own(Total - 1)
      BY <1>1, <2>1, <3>1 DEF Answers, Flow, Keys
    <3> QED
      BY <1>2, <2>1, <3>2 DEF Own
  <2>6. /\ Total - 2 \in Text(scanIndex) /\ buffer[Total - 2] = At(Total - 2)
        /\ Total - 1 \in Text(scanIndex) /\ buffer[Total - 1] = At(Total - 1)
    BY <1>1, <1>2, <2>3, <2>4, TextKnown
  <2> QED
    BY <1>2, <2>4, <2>5, <2>6
<1> QED
  BY <1>3, <1>7, <1>8

\* What a parser of the engine reads was said to the command before it: WaitForStr, ParseText and
\* ConsumeScanned pass an old answer in time, wherever the reader thread is between storing a text
\* and counting it.
THEOREM AnswerIsOwnHolds == Spec => []AnswerIsOwn
<1>1. LineInv /\ MemoryKnown /\ AnswersKnown => AnswerIsOwn
  BY ParserSees
<1> QED
  BY <1>1, LineInit, MemoryInit, AnswersInit, LineStep, MemoryStep, AnswersStep, PTL DEF Spec

=============================================================================
