--------------------------- MODULE SessionProofs ---------------------------
(***************************************************************************)
(* Proofs about Session, for every value of its constants: any number of    *)
(* operations, packets and cancel requests, any MAX_SEQ_NUMBER_DELTA and    *)
(* any width of the sequence numbers.                                       *)
(***************************************************************************)
EXTENDS Session, TLAPS, SequenceTheorems

\* Appending keeps a sequence over its set.
LEMMA AppendType == ASSUME NEW S, NEW s \in Seq(S), NEW x \in S PROVE Append(s, x) \in Seq(S)
  OBVIOUS

\* The bound of a uint32_t is a natural number.
LEMMA WidthType == SeqMod \in Nat \ {0} /\ 0 \in 0..(SeqMod - 1)
  BY SessionAssumption

\* What one emission leaves on the line is well typed.
LEMMA CarryType ==
    ASSUME NEW p \in Packet, toHost \in Seq(Packet \cup {Damaged}), Carry(p)
    PROVE  toHost' \in Seq(Packet \cup {Damaged})
<1>1. Append(toHost, p) \in Seq(Packet \cup {Damaged})
  BY AppendType
<1>2. Append(toHost, Damaged) \in Seq(Packet \cup {Damaged})
  BY AppendType
<1>3. toHost' = Append(toHost, p) \/ toHost' = toHost \/ toHost' = Append(toHost, Damaged)
  BY DEF Carry
<1> QED
  BY <1>1, <1>2, <1>3

\* What the host sends: a session start, a request, a cancel.
LEMMA HostMsgType ==
    ASSUME NEW s \in Nat, NEW n \in Nat
    PROVE  /\ [id |-> "start", seq |-> 0, sess |-> s] \in HostMsg
           /\ [id |-> "request", seq |-> n, sess |-> s] \in HostMsg
           /\ [id |-> "cancel", seq |-> 0, sess |-> s] \in HostMsg
  BY DEF HostMsg

\* Steps of the host that leave the line alone.
LEMMA LineStutter == LineTypeOK /\ UNCHANGED lineVars => LineTypeOK'
  BY DEF LineTypeOK, lineVars

\* Steps of the device and the line that leave the host alone.
LEMMA HostStutter == HostTypeOK /\ UNCHANGED hostVars => HostTypeOK'
  BY DEF HostTypeOK, hostVars

\* Every reachable state of the session, the line and the device is well typed.
THEOREM TypeCorrect == Spec => []TypeOK
<1>1. Init => TypeOK
  <2> SUFFICES ASSUME Init PROVE TypeOK
    OBVIOUS
  <2>1. HostTypeOK
    BY WidthType DEF Init, HostTypeOK, Locations, Statuses
  <2>2. LineTypeOK
    BY SessionAssumption DEF Init, LineTypeOK
  <2>3. HistoryTypeOK
    BY DEF Init, HistoryTypeOK
  <2> QED
    BY <2>1, <2>2, <2>3 DEF TypeOK
<1>2. TypeOK /\ [Next]_vars => TypeOK'
  <2> SUFFICES ASSUME HostTypeOK, LineTypeOK, HistoryTypeOK, [Next]_vars
               PROVE  HostTypeOK' /\ LineTypeOK' /\ HistoryTypeOK'
    BY DEF TypeOK
  <2>1. CASE Connect
    <3>1. HostTypeOK'
      BY <2>1 DEF HostTypeOK, Connect
    <3>2. LineTypeOK'
      BY <2>1, LineStutter DEF Connect
    <3>3. HistoryTypeOK'
      BY <2>1 DEF HistoryTypeOK, Connect, cancelHist
    <3> QED
      BY <3>1, <3>2, <3>3
  <2>2. CASE Disconnect
    <3>1. HostTypeOK'
      BY <2>2 DEF HostTypeOK, Disconnect
    <3>2. LineTypeOK'
      BY <2>2, LineStutter DEF Disconnect
    <3>3. HistoryTypeOK'
      BY <2>2 DEF HistoryTypeOK, Disconnect, cancelHist
    <3> QED
      BY <3>1, <3>2, <3>3
  <2>3. CASE BeginOperation
    <3>1. HostTypeOK'
      BY <2>3 DEF HostTypeOK, BeginOperation, Locations
    <3>2. LineTypeOK'
      BY <2>3, LineStutter DEF BeginOperation
    <3>3. HistoryTypeOK'
      BY <2>3 DEF HistoryTypeOK, BeginOperation, cancelHist
    <3> QED
      BY <3>1, <3>2, <3>3
  <2>4. CASE StartReset
    <3>1. HostTypeOK'
      <4>1. lastSent' \in 0..(SeqMod - 1) /\ lastRecv' \in Nat /\ sess' \in Nat
        BY <2>4, WidthType DEF HostTypeOK, StartReset
      <4> QED
        BY <2>4, <4>1 DEF HostTypeOK, StartReset, Locations, Statuses
    <3>2. LineTypeOK'
      BY <2>4, LineStutter DEF StartReset
    <3>3. HistoryTypeOK'
      BY <2>4 DEF HistoryTypeOK, StartReset
    <3> QED
      BY <3>1, <3>2, <3>3
  <2>5. CASE StartSend
    <3>1. HostTypeOK'
      BY <2>5 DEF HostTypeOK, StartSend, Locations, Statuses
    <3>2. LineTypeOK'
      <4>1. [id |-> "start", seq |-> 0, sess |-> sess] \in HostMsg
        BY HostMsgType DEF HostTypeOK
      <4>3. toDev' = toDev \/ toDev' = Append(toDev, [id |-> "start", seq |-> 0, sess |-> sess])
        BY <2>5 DEF StartSend
      <4>2. toDev' \in Seq(HostMsg)
        BY <4>1, <4>3, AppendType DEF LineTypeOK
      <4> QED
        BY <2>5, <4>2 DEF LineTypeOK, StartSend
    <3>3. HistoryTypeOK'
      BY <2>5 DEF HistoryTypeOK, StartSend, cancelHist
    <3> QED
      BY <3>1, <3>2, <3>3
  <2>6. CASE StartRecvPacket
    <3> DEFINE p == Head(toHost)
    <3>p. p \in Packet \cup {Damaged} /\ Tail(toHost) \in Seq(Packet \cup {Damaged})
      BY <2>6, HeadTailProperties DEF LineTypeOK, StartRecvPacket
    <3>g. p.gen \in Nat
      BY <3>p DEF Packet, Damaged
    <3>1. HostTypeOK'
      BY <2>6, <3>g DEF HostTypeOK, StartRecvPacket, Locations, Statuses
    <3>2. LineTypeOK'
      BY <2>6, <3>p DEF LineTypeOK, StartRecvPacket
    <3>3. HistoryTypeOK'
      BY <2>6, <3>p DEF HistoryTypeOK, StartRecvPacket, cancelHist
    <3> QED
      BY <3>1, <3>2, <3>3
  <2>7. CASE StartRecvTimeout
    <3>1. HostTypeOK'
      BY <2>7 DEF HostTypeOK, StartRecvTimeout, Locations, Statuses
    <3>2. LineTypeOK'
      BY <2>7, LineStutter DEF StartRecvTimeout
    <3>3. HistoryTypeOK'
      BY <2>7 DEF HistoryTypeOK, StartRecvTimeout, cancelHist
    <3> QED
      BY <3>1, <3>2, <3>3
  <2>8. CASE SendPacket
    <3>0. lastSent' \in 0..(SeqMod - 1) /\ sess \in Nat
      BY <2>8, SessionAssumption DEF HostTypeOK, SendPacket
    <3>1. HostTypeOK'
      BY <2>8, <3>0 DEF HostTypeOK, SendPacket, Statuses
    <3>2. LineTypeOK'
      <4>a. [id |-> "request", seq |-> lastSent', sess |-> sess] \in HostMsg
        BY <3>0, WidthType DEF HostMsg
      <4>b. toDev' = toDev \/ toDev' = Append(toDev, [id |-> "request", seq |-> lastSent', sess |-> sess])
        BY <2>8 DEF SendPacket
      <4>1. toDev' \in Seq(HostMsg)
        BY <4>a, <4>b, AppendType DEF LineTypeOK
      <4> QED
        BY <2>8, <4>1 DEF LineTypeOK, SendPacket
    <3>3. HistoryTypeOK'
      BY <2>8 DEF HistoryTypeOK, SendPacket, cancelHist
    <3> QED
      BY <3>1, <3>2, <3>3
  <2>9. CASE RecvBegin
    <3>1. HostTypeOK'
      BY <2>9 DEF HostTypeOK, RecvBegin, Locations
    <3>2. LineTypeOK'
      BY <2>9, LineStutter DEF RecvBegin
    <3>3. HistoryTypeOK'
      BY <2>9 DEF HistoryTypeOK, RecvBegin, cancelHist
    <3> QED
      BY <3>1, <3>2, <3>3
  <2>10. CASE CancelClear
    <3>1. HostTypeOK'
      BY <2>10 DEF HostTypeOK, CancelClear, Locations
    <3>2. LineTypeOK'
      BY <2>10, LineStutter DEF CancelClear
    <3>3. HistoryTypeOK'
      BY <2>10 DEF HistoryTypeOK, CancelClear, cancelHist
    <3> QED
      BY <3>1, <3>2, <3>3
  <2>11. CASE CancelSend
    <3>1. HostTypeOK'
      BY <2>11 DEF HostTypeOK, CancelSend, Locations, Statuses
    <3>2. LineTypeOK'
      <4>1. [id |-> "cancel", seq |-> 0, sess |-> sess] \in HostMsg
        BY HostMsgType DEF HostTypeOK
      <4>3. toDev' = toDev \/ toDev' = Append(toDev, [id |-> "cancel", seq |-> 0, sess |-> sess])
        BY <2>11 DEF CancelSend
      <4>2. toDev' \in Seq(HostMsg)
        BY <4>1, <4>3, AppendType DEF LineTypeOK
      <4> QED
        BY <2>11, <4>2 DEF LineTypeOK, CancelSend
    <3>c. cancels' \in Nat
      BY <2>11 DEF HistoryTypeOK, CancelSend
    <3>o. owed' \in BOOLEAN
      BY <2>11 DEF HistoryTypeOK, CancelSend
    <3>3. HistoryTypeOK'
      BY <2>11, <3>c, <3>o DEF HistoryTypeOK, CancelSend
    <3> QED
      BY <3>1, <3>2, <3>3
  <2>12. ASSUME NEW want \in {"any", "fa", "data"}, RecvPacket(want)
         PROVE  HostTypeOK' /\ LineTypeOK' /\ HistoryTypeOK'
    <3> DEFINE p == Head(toHost)
    <3>p. p \in Packet \cup {Damaged} /\ Tail(toHost) \in Seq(Packet \cup {Damaged})
      BY <2>12, HeadTailProperties DEF LineTypeOK, RecvPacket
    <3>a. lastRecv' \in Nat /\ lastAcc' \in Packet \cup {NoPacket}
      BY <2>12, <3>p DEF HostTypeOK, HistoryTypeOK, RecvPacket, Packet
    <3>1. HostTypeOK'
      BY <2>12, <3>a DEF HostTypeOK, RecvPacket, Locations, Statuses
    <3>2. LineTypeOK'
      BY <2>12, <3>p DEF LineTypeOK, RecvPacket
    <3>3. HistoryTypeOK'
      BY <2>12, <3>a DEF HistoryTypeOK, RecvPacket, cancelHist
    <3> QED
      BY <3>1, <3>2, <3>3
  <2>13. CASE RecvTimeout
    <3>1. HostTypeOK'
      BY <2>13 DEF HostTypeOK, RecvTimeout, Locations, Statuses
    <3>2. LineTypeOK'
      BY <2>13, LineStutter DEF RecvTimeout
    <3>3. HistoryTypeOK'
      BY <2>13 DEF HistoryTypeOK, RecvTimeout, cancelHist
    <3> QED
      BY <3>1, <3>2, <3>3
  <2>14. CASE EndOperation
    <3>1. HostTypeOK'
      BY <2>14 DEF HostTypeOK, EndOperation, Locations
    <3>2. LineTypeOK'
      BY <2>14, LineStutter DEF EndOperation
    <3>3. HistoryTypeOK'
      BY <2>14 DEF HistoryTypeOK, EndOperation, cancelHist
    <3> QED
      BY <3>1, <3>2, <3>3
  <2>15. CASE Destroy
    <3>1. HostTypeOK'
      BY <2>15 DEF HostTypeOK, Destroy, Locations
    <3>2. LineTypeOK'
      <4>1. [id |-> "cancel", seq |-> 0, sess |-> sess] \in HostMsg
        BY HostMsgType DEF HostTypeOK
      <4>3. toDev' = toDev \/ toDev' = Append(toDev, [id |-> "cancel", seq |-> 0, sess |-> sess])
        BY <2>15 DEF Destroy
      <4>2. toDev' \in Seq(HostMsg)
        BY <4>1, <4>3, AppendType DEF LineTypeOK
      <4> QED
        BY <2>15, <4>2 DEF LineTypeOK, Destroy
    <3>c. cancels' \in Nat
      BY <2>15 DEF HistoryTypeOK, Destroy
    <3>o. owed' \in BOOLEAN
      BY <2>15 DEF HistoryTypeOK, Destroy
    <3>3. HistoryTypeOK'
      BY <2>15, <3>c, <3>o DEF HistoryTypeOK, Destroy
    <3> QED
      BY <3>1, <3>2, <3>3
  <2>16. CASE Cancel
    <3>1. HostTypeOK'
      BY <2>16 DEF HostTypeOK, Cancel
    <3>2. LineTypeOK'
      BY <2>16, LineStutter DEF Cancel
    <3>3. HistoryTypeOK'
      BY <2>16 DEF HistoryTypeOK, Cancel
    <3> QED
      BY <3>1, <3>2, <3>3
  <2>17. CASE DeviceStart
    <3>1. HostTypeOK'
      BY <2>17, HostStutter DEF DeviceStart
    <3>m. Head(toDev) \in HostMsg /\ Tail(toDev) \in Seq(HostMsg)
      BY <2>17, HeadTailProperties DEF LineTypeOK, DeviceStart
    <3>p. [id |-> "start", seq |-> 0, sess |-> Head(toDev).sess, gen |-> dev.gen + 1,
           uid |-> dev.uid + 1] \in Packet
      BY <3>m DEF LineTypeOK, Packet, HostMsg
    <3>d. dev' \in [sess : Nat, gen : Nat, sent : 0..MaxEmits, busy : BOOLEAN, uid : Nat]
      <4>1. Head(toDev).sess \in Nat /\ dev.gen + 1 \in Nat /\ dev.uid + 1 \in Nat /\ 0 \in 0..MaxEmits
        <5>1. Head(toDev).sess \in Nat
          BY <3>m DEF HostMsg
        <5>2. dev.gen \in Nat /\ dev.uid \in Nat
          BY DEF LineTypeOK
        <5>3. 0 \in 0..MaxEmits
          BY SessionAssumption
        <5> QED
          BY <5>1, <5>2, <5>3
      <4>2. dev' = [sess |-> Head(toDev).sess, gen |-> dev.gen + 1, sent |-> 0, busy |-> FALSE,
                    uid |-> dev.uid + 1]
        BY <2>17 DEF DeviceStart
      <4> QED
        BY <4>1, <4>2
    <3>h. toHost' \in Seq(Packet \cup {Damaged})
      BY <2>17, <3>p, CarryType DEF LineTypeOK, DeviceStart
    <3>2. LineTypeOK'
      BY <2>17, <3>m, <3>d, <3>h DEF LineTypeOK, DeviceStart
    <3>3. HistoryTypeOK'
      BY <2>17 DEF HistoryTypeOK, DeviceStart, Carry, cancelHist
    <3> QED
      BY <3>1, <3>2, <3>3
  <2>18. CASE DeviceRequest
    <3>1. HostTypeOK'
      BY <2>18, HostStutter DEF DeviceRequest
    <3>m. Tail(toDev) \in Seq(HostMsg)
      BY <2>18, HeadTailProperties DEF LineTypeOK, DeviceRequest
    <3>d. dev' \in [sess : Nat, gen : Nat, sent : 0..MaxEmits, busy : BOOLEAN, uid : Nat]
      BY <2>18 DEF LineTypeOK, DeviceRequest
    <3>2. LineTypeOK'
      BY <2>18, <3>m, <3>d DEF LineTypeOK, DeviceRequest
    <3>3. HistoryTypeOK'
      BY <2>18 DEF HistoryTypeOK, DeviceRequest, cancelHist
    <3> QED
      BY <3>1, <3>2, <3>3
  <2>19. CASE DeviceEmit
    <3>1. HostTypeOK'
      BY <2>19, HostStutter DEF DeviceEmit
    <3>a. PICK id \in {"fa", "data"}, more \in BOOLEAN :
            /\ Carry(SessionPacket(id))
            /\ emitted' = emitted \cup {SessionPacket(id)}
            /\ dev' = [dev EXCEPT !.sent = @ + 1, !.uid = @ + 1, !.busy = more]
      BY <2>19 DEF DeviceEmit
    <3>p. SessionPacket(id) \in Packet
      BY DEF LineTypeOK, Packet, SessionPacket
    <3>d. dev' \in [sess : Nat, gen : Nat, sent : 0..MaxEmits, busy : BOOLEAN, uid : Nat]
      <4>1. dev.sent + 1 \in 0..MaxEmits /\ dev.uid + 1 \in Nat
        BY <2>19, SessionAssumption DEF LineTypeOK, DeviceEmit
      <4> QED
        BY <3>a, <4>1 DEF LineTypeOK
    <3>h. toHost' \in Seq(Packet \cup {Damaged})
      BY <3>a, <3>p, CarryType DEF LineTypeOK
    <3>2. LineTypeOK'
      BY <2>19, <3>a, <3>p, <3>d, <3>h DEF LineTypeOK, DeviceEmit
    <3>3. HistoryTypeOK'
      BY <2>19, <3>a DEF HistoryTypeOK, DeviceEmit, Carry, cancelHist
    <3> QED
      BY <3>1, <3>2, <3>3
  <2>20. CASE LineRepeat
    <3>1. HostTypeOK'
      BY <2>20, HostStutter DEF LineRepeat
    <3>h. toHost' \in Seq(Packet \cup {Damaged})
      BY <2>20 DEF LineTypeOK, LineRepeat
    <3>2. LineTypeOK'
      BY <2>20, <3>h DEF LineTypeOK, LineRepeat
    <3>3. HistoryTypeOK'
      BY <2>20 DEF HistoryTypeOK, LineRepeat, cancelHist
    <3> QED
      BY <3>1, <3>2, <3>3
  <2>21. CASE UNCHANGED vars
    <3>1. HostTypeOK'
      BY <2>21, HostStutter DEF vars
    <3>2. LineTypeOK'
      BY <2>21, LineStutter DEF vars
    <3>3. HistoryTypeOK'
      BY <2>21 DEF HistoryTypeOK, vars, cancelHist
    <3> QED
      BY <3>1, <3>2, <3>3
  <2> QED
    BY <2>1, <2>2, <2>3, <2>4, <2>5, <2>6, <2>7, <2>8, <2>9, <2>10, <2>11, <2>12,
        <2>13, <2>14, <2>15, <2>16, <2>17, <2>18, <2>19, <2>20, <2>21 DEF Next
<1>3. QED
  BY <1>1, <1>2, PTL DEF Spec

-----------------------------------------------------------------------------
(* The cancel flag. *)

\* The accounting of cancel requests is inductive: the flag is raised by any thread at any
\* moment, also between HandleCancelFlag's read, its clear and its send.
THEOREM CancelAccounted == Spec => []CancelInv
<1>1. Init => CancelInv
  BY DEF Init, CancelInv
<1>2. TypeOK /\ CancelInv /\ [Next]_vars => CancelInv'
  <2> SUFFICES ASSUME TypeOK, CancelInv, [Next]_vars PROVE CancelInv'
    OBVIOUS
  <2>0. asked \in Nat /\ cancels \in Nat
    BY DEF TypeOK, HistoryTypeOK
  <2> USE DEF CancelInv
  <2>1. CASE Connect \/ Disconnect \/ EndOperation \/ RecvTimeout \/ StartRecvTimeout
    BY <2>1 DEF Connect, Disconnect, EndOperation, RecvTimeout, StartRecvTimeout, cancelHist
  <2>2. CASE BeginOperation
    BY <2>2 DEF BeginOperation, cancelHist
  <2>3. CASE StartReset
    BY <2>3 DEF StartReset
  <2>4. CASE StartSend
    BY <2>4 DEF StartSend, cancelHist
  <2>5. CASE StartRecvPacket
    BY <2>5 DEF StartRecvPacket, cancelHist
  <2>6. CASE SendPacket
    BY <2>6 DEF SendPacket, cancelHist
  <2>7. CASE RecvBegin
    BY <2>7 DEF RecvBegin, cancelHist
  <2>8. CASE CancelClear
    BY <2>8 DEF CancelClear, cancelHist
  <2>9. CASE CancelSend
    BY <2>9, <2>0 DEF CancelSend
  <2>10. ASSUME NEW want \in {"any", "fa", "data"}, RecvPacket(want) PROVE CancelInv'
    BY <2>10 DEF RecvPacket, cancelHist
  <2>11. CASE Destroy
    <3>1. pc' = "dead" /\ cancelReq' = FALSE /\ asked' = asked
      BY <2>11 DEF Destroy
    <3>2. cancels' <= asked
      BY <2>11, <2>0 DEF Destroy
    <3> QED
      BY <3>1, <3>2
  <2>12. CASE Cancel
    <3>1. pc' = pc /\ cancelReq' = TRUE /\ asked' = asked + 1 /\ cancels' = cancels
      BY <2>12 DEF Cancel
    <3> QED
      BY <2>0, <3>1
  <2>13. CASE DeviceStart \/ DeviceRequest \/ DeviceEmit \/ LineRepeat \/ UNCHANGED vars
    <3>1. UNCHANGED <<pc, cancelReq, asked, cancels, owed>>
      BY <2>13 DEF DeviceStart, DeviceRequest, DeviceEmit, LineRepeat, vars, hostVars, cancelHist
    <3> QED
      BY <3>1
  <2> QED
    BY <2>1, <2>2, <2>3, <2>4, <2>5, <2>6, <2>7, <2>8, <2>9, <2>10, <2>11, <2>12, <2>13 DEF Next
<1>3. QED
  BY <1>1, <1>2, TypeCorrect, PTL DEF Spec

\* A cancel request is never sent more often than it was made since the last Start: nothing
\* left over from an earlier operation cancels a later one.
THEOREM NoStaleCancelHolds == Spec => []NoStaleCancel
<1>1. CancelInv => NoStaleCancel
  BY DEF CancelInv, NoStaleCancel
<1>2. QED
  BY <1>1, CancelAccounted, PTL

\* A request made after Start cleared the flag precedes the next receive.
THEOREM CancelBeforeNextRecvHolds == Spec => CancelBeforeNextRecv
<1>1. CancelInv /\ [Next]_vars => [pc' = "recv" /\ pc # "recv" => ~owed']_vars
  <2> SUFFICES ASSUME CancelInv, Next, pc' = "recv", pc # "recv" PROVE ~owed'
    OBVIOUS
  <2>1. CASE RecvBegin
    BY <2>1 DEF RecvBegin, CancelInv, cancelHist
  <2>2. CASE CancelSend
    BY <2>2 DEF CancelSend
  <2>3. ASSUME NEW want \in {"any", "fa", "data"}, RecvPacket(want) PROVE FALSE
    BY <2>3 DEF RecvPacket
  <2>4. CASE Connect \/ Disconnect \/ BeginOperation \/ StartReset \/ StartSend \/ StartRecvPacket
             \/ StartRecvTimeout \/ SendPacket \/ CancelClear \/ RecvTimeout \/ EndOperation
             \/ Destroy \/ Cancel
    BY <2>4 DEF Connect, Disconnect, BeginOperation, StartReset, StartSend, StartRecvPacket,
                StartRecvTimeout, SendPacket, CancelClear, RecvTimeout, EndOperation, Destroy, Cancel
  <2>5. CASE DeviceStart \/ DeviceRequest \/ DeviceEmit \/ LineRepeat
    BY <2>5 DEF DeviceStart, DeviceRequest, DeviceEmit, LineRepeat, hostVars
  <2> QED
    BY <2>1, <2>2, <2>3, <2>4, <2>5 DEF Next
<1>2. QED
  BY <1>1, CancelAccounted, PTL DEF Spec, CancelBeforeNextRecv

-----------------------------------------------------------------------------
(* The order of accepted packets. *)

\* Every message on the line names a session.
LEMMA ToDevSess == ASSUME LineTypeOK PROVE \A i \in 1..Len(toDev) : toDev[i].sess \in Nat
<1> SUFFICES ASSUME NEW i \in 1..Len(toDev) PROVE toDev[i].sess \in Nat
  OBVIOUS
<1>1. toDev[i] \in HostMsg
  BY ElementOfSeq DEF LineTypeOK
<1> QED
  BY <1>1 DEF HostMsg

\* A message of the current session at the end of the line to the device keeps the order.
LEMMA ToDevAppend ==
    ASSUME LineTypeOK, ToDevOrder, NEW m \in HostMsg, m.sess = sess,
           sess \in Nat, sess' = sess, dev' = dev, toDev' = Append(toDev, m)
    PROVE  ToDevOrder'
<1>1. /\ Len(toDev') = Len(toDev) + 1 /\ Len(toDev) \in Nat
      /\ \A i \in 1..Len(toDev) : toDev'[i] = toDev[i]
      /\ toDev'[Len(toDev) + 1] = m
  BY DEF LineTypeOK
<1>2. \A i \in 1..Len(toDev') : i \in 1..Len(toDev) \/ i = Len(toDev) + 1
  BY <1>1
<1>3. \A i \in 1..Len(toDev') : dev.sess <= toDev'[i].sess /\ toDev'[i].sess <= sess
  BY <1>1, <1>2 DEF ToDevOrder, LineTypeOK
<1>4. \A i, j \in 1..Len(toDev') : i < j => toDev'[i].sess <= toDev'[j].sess
  <2> SUFFICES ASSUME NEW i \in 1..Len(toDev'), NEW j \in 1..Len(toDev'), i < j
               PROVE  toDev'[i].sess <= toDev'[j].sess
    OBVIOUS
  <2>1. i \in 1..Len(toDev)
    BY <1>1
  <2>2. CASE j \in 1..Len(toDev)
    BY <1>1, <2>1, <2>2 DEF ToDevOrder
  <2>3. CASE j = Len(toDev) + 1
    BY <1>1, <1>3, <2>1, <2>3
  <2> QED
    BY <1>2, <2>2, <2>3
<1> QED
  BY <1>3, <1>4 DEF ToDevOrder

\* Taking the first message keeps it too, whether or not it opens its session.
LEMMA ToDevTail ==
    ASSUME LineTypeOK, ToDevOrder, sess \in Nat, sess' = sess, toDev # <<>>, toDev' = Tail(toDev),
           dev'.sess = dev.sess \/ dev'.sess = Head(toDev).sess
    PROVE  ToDevOrder'
<1>1. /\ Len(toDev) \in Nat \ {0} /\ Head(toDev) = toDev[1]
      /\ Len(toDev') = Len(toDev) - 1
      /\ \A i \in 1..Len(toDev') : i + 1 \in 1..Len(toDev) /\ toDev'[i] = toDev[i + 1]
  BY DEF LineTypeOK
<1>2. \A i \in 1..Len(toDev) : toDev[i].sess \in Nat
  BY ToDevSess
<1>3. dev.sess <= dev'.sess /\ dev'.sess <= Head(toDev).sess
  BY <1>1, <1>2 DEF ToDevOrder, LineTypeOK
<1>4. \A i \in 1..Len(toDev) : Head(toDev).sess <= toDev[i].sess
  BY <1>1, <1>2 DEF ToDevOrder
<1>5. dev'.sess \in Nat /\ dev'.sess <= sess
  BY <1>1, <1>2, <1>3 DEF ToDevOrder, LineTypeOK
<1>6. \A i \in 1..Len(toDev') : dev'.sess <= toDev'[i].sess /\ toDev'[i].sess <= sess
  BY <1>1, <1>2, <1>3, <1>4, <1>5 DEF ToDevOrder
<1>7. \A i, j \in 1..Len(toDev') : i < j => toDev'[i].sess <= toDev'[j].sess
  BY <1>1 DEF ToDevOrder
<1> QED
  BY <1>5, <1>6, <1>7 DEF ToDevOrder

\* The line to the device stays ordered by session.
LEMMA ToDevOrderStep == TypeOK /\ ToDevOrder /\ [Next]_vars => ToDevOrder'
<1> SUFFICES ASSUME TypeOK, ToDevOrder, [Next]_vars PROVE ToDevOrder'
  OBVIOUS
<1>0. sess \in Nat /\ lastSent \in Nat /\ LineTypeOK
  BY SessionAssumption DEF TypeOK, HostTypeOK
<1>1. CASE UNCHANGED <<toDev, dev, sess>>
  BY <1>1 DEF ToDevOrder
<1>2. ASSUME NEW m \in HostMsg, m.sess = sess, sess' = sess, dev' = dev,
             toDev' = toDev \/ toDev' = Append(toDev, m)
      PROVE  ToDevOrder'
  BY <1>0, <1>1, <1>2, ToDevAppend
<1>3. CASE StartReset
  <2>1. toDev' = toDev /\ dev' = dev /\ (sess' = sess \/ sess' = sess + 1)
    BY <1>3 DEF StartReset, lineVars
  <2>2. dev.sess \in Nat /\ \A i \in 1..Len(toDev) : toDev[i].sess \in Nat
    BY <1>0, ToDevSess DEF LineTypeOK
  <2> QED
    BY <1>0, <2>1, <2>2 DEF ToDevOrder
<1>4. CASE StartSend
  <2> DEFINE m == [id |-> "start", seq |-> 0, sess |-> sess]
  <2>1. m \in HostMsg /\ m.sess = sess
    BY <1>0, HostMsgType
  <2>2. sess' = sess /\ dev' = dev /\ (toDev' = toDev \/ toDev' = Append(toDev, m))
    BY <1>4 DEF StartSend
  <2> HIDE DEF m
  <2> QED
    BY <1>2, <2>1, <2>2
<1>5. CASE SendPacket
  <2> DEFINE m == [id |-> "request", seq |-> lastSent', sess |-> sess]
  <2>1. lastSent' \in Nat
    BY <1>0, <1>5, WidthType DEF SendPacket
  <2>2. m \in HostMsg /\ m.sess = sess
    BY <1>0, <2>1, HostMsgType
  <2>3. sess' = sess /\ dev' = dev /\ (toDev' = toDev \/ toDev' = Append(toDev, m))
    BY <1>5 DEF SendPacket
  <2> HIDE DEF m
  <2> QED
    BY <1>2, <2>2, <2>3
<1>6. CASE CancelSend \/ Destroy
  <2> DEFINE m == [id |-> "cancel", seq |-> 0, sess |-> sess]
  <2>1. m \in HostMsg /\ m.sess = sess
    BY <1>0, HostMsgType
  <2>2. sess' = sess /\ dev' = dev /\ (toDev' = toDev \/ toDev' = Append(toDev, m))
    BY <1>6 DEF CancelSend, Destroy
  <2> HIDE DEF m
  <2> QED
    BY <1>2, <2>1, <2>2
<1>7. CASE DeviceStart \/ DeviceRequest
  <2>1. toDev # <<>> /\ toDev' = Tail(toDev) /\ sess' = sess
    BY <1>7 DEF DeviceStart, DeviceRequest, hostVars
  <2>2. dev'.sess = dev.sess \/ dev'.sess = Head(toDev).sess
    BY <1>0, <1>7 DEF DeviceStart, DeviceRequest, LineTypeOK
  <2> QED
    BY <1>0, <2>1, <2>2, ToDevTail
<1>8. CASE DeviceEmit
  <2>1. toDev' = toDev /\ sess' = sess /\ dev'.sess = dev.sess
    BY <1>0, <1>8 DEF DeviceEmit, hostVars, LineTypeOK
  <2> QED
    BY <2>1 DEF ToDevOrder
<1>9. ASSUME NEW want \in {"any", "fa", "data"}, RecvPacket(want) PROVE ToDevOrder'
  BY <1>9, <1>1 DEF RecvPacket
<1>10. CASE Connect \/ Disconnect \/ BeginOperation \/ StartRecvPacket \/ StartRecvTimeout
            \/ RecvBegin \/ CancelClear \/ RecvTimeout \/ EndOperation \/ Cancel \/ LineRepeat
            \/ UNCHANGED vars
  BY <1>10, <1>1 DEF Connect, Disconnect, BeginOperation, StartRecvPacket, StartRecvTimeout,
       RecvBegin, CancelClear, RecvTimeout, EndOperation, Cancel, LineRepeat, vars, hostVars, lineVars
<1> QED
  BY <1>3, <1>4, <1>5, <1>6, <1>7, <1>8, <1>9, <1>10 DEF Next

\* One emission adds at most the emitted packet (or damaged bytes) to what the host can receive.
LEMMA CarryEmitted ==
    ASSUME toHost \in Seq(Packet \cup {Damaged}), ToHostEmitted, NEW p \in Packet, Carry(p),
           emitted \subseteq emitted', p.id \in {"fa", "data"} => p \in emitted'
    PROVE  ToHostEmitted'
<1> SUFFICES ASSUME NEW i \in 1..Len(toHost'), toHost'[i].id \in {"fa", "data"}
             PROVE  toHost'[i] \in emitted'
  BY DEF ToHostEmitted
<1>1. CASE toHost' = toHost
  BY <1>1 DEF ToHostEmitted
<1>2. ASSUME NEW x \in Packet \cup {Damaged}, toHost' = Append(toHost, x),
             x.id \in {"fa", "data"} => x \in emitted'
      PROVE  toHost'[i] \in emitted'
  <2>1. CASE i = Len(toHost) + 1
    BY <1>2, <2>1
  <2>2. CASE i \in 1..Len(toHost)
    BY <1>2, <2>2 DEF ToHostEmitted
  <2> QED
    BY <1>2, <2>1, <2>2
<1> QED
  BY <1>1, <1>2 DEF Carry, Damaged

\* A receive takes the first packet and leaves the others known.
LEMMA TailEmitted ==
    ASSUME toHost \in Seq(Packet \cup {Damaged}), toHost # <<>>, ToHostEmitted,
           toHost' = Tail(toHost), emitted' = emitted
    PROVE  ToHostEmitted'
<1>1. \A i \in 1..Len(toHost') : i + 1 \in 1..Len(toHost) /\ toHost'[i] = toHost[i + 1]
  OBVIOUS
<1> QED
  BY <1>1 DEF ToHostEmitted

\* The line to the host carries only what the device has emitted.
LEMMA ToHostEmittedStep == TypeOK /\ ToHostEmitted /\ [Next]_vars => ToHostEmitted'
<1> SUFFICES ASSUME TypeOK, ToHostEmitted, [Next]_vars PROVE ToHostEmitted'
  OBVIOUS
<1>0. LineTypeOK /\ toHost \in Seq(Packet \cup {Damaged}) /\ emitted \subseteq Packet
  BY DEF TypeOK, LineTypeOK
<1>1. CASE UNCHANGED <<toHost, emitted>>
  BY <1>1 DEF ToHostEmitted
<1>2. CASE StartRecvPacket
  BY <1>0, <1>2, TailEmitted DEF StartRecvPacket
<1>3. ASSUME NEW want \in {"any", "fa", "data"}, RecvPacket(want) PROVE ToHostEmitted'
  BY <1>0, <1>3, TailEmitted DEF RecvPacket
<1>4. CASE DeviceStart
  <2> DEFINE p == [id |-> "start", seq |-> 0, sess |-> Head(toDev).sess, gen |-> dev.gen + 1,
                   uid |-> dev.uid + 1]
  <2>1. Head(toDev) \in HostMsg
    BY <1>0, <1>4, HeadTailProperties DEF DeviceStart, LineTypeOK
  <2>2. p \in Packet /\ p.id = "start"
    BY <1>0, <2>1 DEF Packet, HostMsg, LineTypeOK
  <2>3. Carry(p) /\ emitted' = emitted
    BY <1>4 DEF DeviceStart
  <2> HIDE DEF p
  <2> QED
    BY <1>0, <2>2, <2>3, CarryEmitted
<1>5. CASE DeviceEmit
  <2>1. PICK id \in {"fa", "data"} : Carry(SessionPacket(id)) /\ emitted' = emitted \cup {SessionPacket(id)}
    BY <1>5 DEF DeviceEmit
  <2>2. SessionPacket(id) \in Packet
    BY <1>0 DEF Packet, SessionPacket, LineTypeOK
  <2> QED
    BY <1>0, <2>1, <2>2, CarryEmitted
<1>6. CASE LineRepeat
  <2>1. PICK p \in emitted : toHost' = Append(toHost, p)
    BY <1>6 DEF LineRepeat
  <2>3. emitted' = emitted
    BY <1>6 DEF LineRepeat
  <2> SUFFICES ASSUME NEW i \in 1..Len(toHost'), toHost'[i].id \in {"fa", "data"}
               PROVE  toHost'[i] \in emitted
    BY <2>3 DEF ToHostEmitted
  <2>4. p \in Packet \cup {Damaged}
    BY <1>0
  <2>5. CASE i = Len(toHost) + 1
    BY <1>0, <2>1, <2>4, <2>5
  <2>6. CASE i \in 1..Len(toHost)
    BY <1>0, <2>1, <2>4, <2>6 DEF ToHostEmitted
  <2> QED
    BY <1>0, <2>1, <2>4, <2>5, <2>6
<1>7. CASE StartSend \/ SendPacket \/ CancelSend \/ Destroy \/ DeviceRequest
  BY <1>7, <1>1 DEF StartSend, SendPacket, CancelSend, Destroy, DeviceRequest
<1>8. CASE Connect \/ Disconnect \/ BeginOperation \/ StartReset \/ StartRecvTimeout \/ RecvBegin
           \/ CancelClear \/ RecvTimeout \/ EndOperation \/ Cancel \/ UNCHANGED vars
  BY <1>8, <1>1 DEF Connect, Disconnect, BeginOperation, StartReset, StartRecvTimeout, RecvBegin,
       CancelClear, RecvTimeout, EndOperation, Cancel, vars, lineVars
<1> QED
  BY <1>2, <1>3, <1>4, <1>5, <1>6, <1>7, <1>8 DEF Next

\* The numbers of emitted packets are natural numbers.
LEMMA EmittedNat ==
    ASSUME LineTypeOK
    PROVE  \A p \in emitted : p.uid \in Nat /\ p.sess \in Nat /\ p.gen \in Nat /\ p.seq \in Nat
  BY DEF LineTypeOK, Packet

\* Steps that emit nothing and leave the device alone.
LEMMA EmittedStutter ==
    ASSUME UNCHANGED <<dev, emitted>>, EmittedBefore, EmittedInOrder
    PROVE  EmittedBefore' /\ EmittedInOrder'
  BY DEF EmittedBefore, EmittedInOrder

\* A device emission takes the next number of its key generation and the next place overall.
LEMMA EmitStep ==
    ASSUME LineTypeOK, EmittedBefore, EmittedInOrder, DeviceEmit
    PROVE  EmittedBefore' /\ EmittedInOrder'
<1>0. PICK id \in {"fa", "data"}, more \in BOOLEAN :
        /\ emitted' = emitted \cup {SessionPacket(id)}
        /\ dev' = [dev EXCEPT !.sent = @ + 1, !.uid = @ + 1, !.busy = more]
  BY DEF DeviceEmit
<1> DEFINE n == SessionPacket(id)
<1>1. /\ dev.uid \in Nat /\ dev.sess \in Nat /\ dev.gen \in Nat /\ dev.sent \in Nat
      /\ dev'.uid = dev.uid + 1 /\ dev'.sess = dev.sess /\ dev'.gen = dev.gen
      /\ dev'.sent = dev.sent + 1
  BY <1>0, SessionAssumption DEF LineTypeOK
<1>2. n.uid = dev.uid + 1 /\ n.sess = dev.sess /\ n.gen = dev.gen /\ n.seq = dev.sent + 1
  BY DEF SessionPacket
<1>3. emitted' = emitted \cup {n}
  BY <1>0
<1> HIDE DEF n
<1>4. EmittedBefore'
  <2> SUFFICES ASSUME NEW p \in emitted'
               PROVE  /\ 1 <= p.uid /\ p.uid <= dev'.uid
                      /\ p.sess <= dev'.sess /\ p.gen <= dev'.gen
                      /\ p.gen = dev'.gen => p.seq <= dev'.sent
    BY DEF EmittedBefore
  <2>1. CASE p = n
    BY <1>1, <1>2, <2>1
  <2>2. CASE p \in emitted
    BY <1>1, <2>2, EmittedNat DEF EmittedBefore
  <2> QED
    BY <1>3, <2>1, <2>2
<1>5. EmittedInOrder'
  <2> SUFFICES ASSUME NEW p \in emitted', NEW q \in emitted',
                      p.sess < q.sess \/ (p.gen = q.gen /\ p.seq < q.seq)
               PROVE  p.uid < q.uid
    BY DEF EmittedInOrder
  <2>1. CASE p \in emitted /\ q \in emitted
    BY <2>1 DEF EmittedInOrder
  <2>2. CASE p \in emitted /\ q = n
    BY <1>1, <1>2, <2>2, EmittedNat DEF EmittedBefore
  <2>3. CASE p = n /\ q \in emitted
    BY <1>1, <1>2, <2>3, EmittedNat DEF EmittedBefore
  <2>4. CASE p = n /\ q = n
    BY <1>1, <1>2, <2>4
  <2> QED
    BY <1>3, <2>1, <2>2, <2>3, <2>4
<1> QED
  BY <1>4, <1>5

\* A new device session takes a fresh key generation and never an older session.
LEMMA DeviceStartStep ==
    ASSUME LineTypeOK, ToDevOrder, EmittedBefore, EmittedInOrder, DeviceStart
    PROVE  EmittedBefore' /\ EmittedInOrder'
<1>1. emitted' = emitted
  BY DEF DeviceStart
<1>2. /\ dev.uid \in Nat /\ dev.gen \in Nat /\ dev.sess \in Nat
      /\ dev'.uid = dev.uid + 1 /\ dev'.gen = dev.gen + 1 /\ dev'.sess = Head(toDev).sess
  BY DEF DeviceStart, LineTypeOK
<1>3. Len(toDev) \in Nat \ {0} /\ Head(toDev) = toDev[1]
  BY DEF DeviceStart, LineTypeOK
<1>4. dev.sess <= dev'.sess /\ dev'.sess \in Nat
  BY <1>2, <1>3, ToDevSess DEF ToDevOrder
<1>5. EmittedBefore'
  BY <1>1, <1>2, <1>4, EmittedNat DEF EmittedBefore
<1> QED
  BY <1>1, <1>5 DEF EmittedInOrder

\* The device's emissions stay ordered.
LEMMA EmittedStep ==
    ASSUME TypeOK, ToDevOrder, EmittedBefore, EmittedInOrder, [Next]_vars
    PROVE  EmittedBefore' /\ EmittedInOrder'
<1>0. LineTypeOK
  BY DEF TypeOK
<1>1. CASE DeviceEmit
  BY <1>0, <1>1, EmitStep
<1>2. CASE DeviceStart
  BY <1>0, <1>2, DeviceStartStep
<1>3. CASE DeviceRequest
  <2>1. /\ emitted' = emitted /\ dev'.uid = dev.uid /\ dev'.gen = dev.gen
        /\ dev'.sess = dev.sess /\ dev'.sent = dev.sent
    BY <1>0, <1>3 DEF DeviceRequest, LineTypeOK
  <2> QED
    BY <2>1 DEF EmittedBefore, EmittedInOrder
<1>4. ASSUME NEW want \in {"any", "fa", "data"}, RecvPacket(want) PROVE UNCHANGED <<dev, emitted>>
  BY <1>4 DEF RecvPacket
<1>5. CASE Connect \/ Disconnect \/ BeginOperation \/ StartReset \/ StartSend \/ StartRecvPacket
           \/ StartRecvTimeout \/ SendPacket \/ RecvBegin \/ CancelClear \/ CancelSend
           \/ RecvTimeout \/ EndOperation \/ Destroy \/ Cancel \/ LineRepeat \/ UNCHANGED vars
  <2>1. UNCHANGED <<dev, emitted>>
    BY <1>5 DEF Connect, Disconnect, BeginOperation, StartReset, StartSend, StartRecvPacket,
         StartRecvTimeout, SendPacket, RecvBegin, CancelClear, CancelSend, RecvTimeout,
         EndOperation, Destroy, Cancel, LineRepeat, vars, lineVars
  <2> QED
    BY <2>1, EmittedStutter
<1> QED
  BY <1>1, <1>2, <1>3, <1>4, <1>5, EmittedStutter DEF Next

\* What RecvPacket does to the last accepted packet: nothing, or it accepts an authentic packet
\* of the running session that the device has emitted.
LEMMA AcceptStep ==
    ASSUME Secure, LineTypeOK, ToHostEmitted,
           NEW want \in {"any", "fa", "data"}, RecvPacket(want),
           ~UNCHANGED <<lastRecv, lastAcc>> \/ ret' \in {"Ok", "RecvUnexpectedPacket"}
    PROVE  /\ lastAcc' \in emitted /\ lastRecv' = lastAcc'.seq
           /\ lastAcc'.sess = sess /\ lastAcc'.gen = peerGen
           /\ lastRecv < lastAcc'.seq
<1> DEFINE p == Head(toHost)
<1>1. p # Damaged /\ Authentic(p) /\ ValidateSeqNumber(lastRecv, p.seq)
      /\ lastRecv' = p.seq /\ lastAcc' = p
  BY DEF RecvPacket
<1>2. toHost # <<>> /\ Len(toHost) \in Nat \ {0} /\ p = toHost[1] /\ p \in Packet \cup {Damaged}
  BY HeadTailProperties DEF RecvPacket, LineTypeOK
<1>3. p.id \in {"fa", "data"}
  BY <1>1, <1>2 DEF Authentic, Packet
<1>4. p \in emitted
  BY <1>2, <1>3 DEF ToHostEmitted
<1> QED
  BY <1>1, <1>4 DEF Authentic, ValidateSeqNumber

\* The memory of the last accepted packet stays true.
LEMMA AcceptedStep ==
    ASSUME Secure, TypeOK, ToHostEmitted, AcceptedKnown, [Next]_vars
    PROVE  AcceptedKnown'
<1>0. LineTypeOK /\ sess \in Nat
  BY DEF TypeOK, HostTypeOK
<1>1. ASSUME UNCHANGED <<sess, peerGen, lastRecv, lastAcc>>, emitted \subseteq emitted',
             pc' \notin {"startSend", "startRecv"} \/ pc' = pc
                \/ (pc' = "startRecv" /\ pc = "startSend")
      PROVE  AcceptedKnown'
  BY <1>1 DEF AcceptedKnown
<1>2. CASE StartReset
  <2>1. lastAcc' = lastAcc /\ peerGen' = peerGen /\ emitted' = emitted
    BY <1>2 DEF StartReset, lineVars
  <2>2. CASE sess' = sess /\ lastRecv' = lastRecv /\ pc' = "idle"
    BY <2>1, <2>2 DEF AcceptedKnown
  <2>3. CASE sess' = sess + 1
    <3>1. lastAcc = NoPacket \/ lastAcc.sess \in Nat
      BY <1>0, EmittedNat DEF AcceptedKnown
    <3> QED
      BY <1>0, <2>1, <2>3, <3>1 DEF AcceptedKnown
  <2> QED
    BY <1>2, <2>2, <2>3 DEF StartReset
<1>3. CASE StartRecvPacket
  <2>1. lastAcc = NoPacket \/ (lastAcc \in emitted /\ lastAcc.sess <= sess /\ lastAcc.sess # sess)
    BY <1>3 DEF AcceptedKnown, StartRecvPacket
  <2>2. lastAcc' = lastAcc /\ sess' = sess /\ emitted' = emitted
    BY <1>3 DEF StartRecvPacket
  <2> QED
    BY <2>1, <2>2 DEF AcceptedKnown
<1>4. ASSUME NEW want \in {"any", "fa", "data"}, RecvPacket(want) PROVE AcceptedKnown'
  <2>1. UNCHANGED <<sess, peerGen, emitted>> /\ pc' = "ready"
    BY <1>4 DEF RecvPacket
  <2>2. CASE UNCHANGED <<lastRecv, lastAcc>>
    BY <1>1, <2>1, <2>2
  <2>3. CASE ~UNCHANGED <<lastRecv, lastAcc>>
    BY <1>0, <1>4, <2>1, <2>3, AcceptStep DEF AcceptedKnown
  <2> QED
    BY <2>2, <2>3
<1>5. CASE Connect \/ Disconnect \/ BeginOperation \/ StartSend \/ StartRecvTimeout \/ SendPacket
           \/ RecvBegin \/ CancelClear \/ CancelSend \/ RecvTimeout \/ EndOperation \/ Destroy
           \/ Cancel
  BY <1>5, <1>1 DEF Connect, Disconnect, BeginOperation, StartSend, StartRecvTimeout, SendPacket,
       RecvBegin, CancelClear, CancelSend, RecvTimeout, EndOperation, Destroy, Cancel, lineVars
<1>6. CASE DeviceStart \/ DeviceRequest \/ DeviceEmit \/ LineRepeat \/ UNCHANGED vars
  BY <1>6, <1>1 DEF DeviceStart, DeviceRequest, DeviceEmit, LineRepeat, vars, hostVars, lineVars
<1> QED
  BY <1>2, <1>3, <1>4, <1>5, <1>6 DEF Next

\* The order of the line, the device's emissions and the host's memory, together.
THEOREM Ordered == Spec => []OrderInv
<1>1. Init => OrderInv
  BY DEF Init, OrderInv, ToDevOrder, ToHostEmitted, EmittedBefore, EmittedInOrder, AcceptedKnown
<1>2. TypeOK /\ OrderInv /\ [Next]_vars => OrderInv'
  BY ToDevOrderStep, ToHostEmittedStep, EmittedStep, AcceptedStep DEF OrderInv
<1>3. QED
  BY <1>1, <1>2, TypeCorrect, PTL DEF Spec

\* In a secure build no packet is accepted twice or out of order, whatever the line does.
THEOREM AcceptedInOrderHolds == Spec => AcceptedInOrder
<1>1. TypeOK /\ OrderInv /\ [Next]_vars => [Secure /\ Accepting => lastAcc'.uid > lastAcc.uid]_vars
  <2> SUFFICES ASSUME TypeOK, OrderInv, [Next]_vars, Secure, Accepting
               PROVE  lastAcc'.uid > lastAcc.uid
    OBVIOUS
  <2>0. LineTypeOK /\ sess \in Nat /\ lastRecv \in Nat
    BY DEF TypeOK, HostTypeOK
  <2>1. PICK want \in {"any", "fa", "data"} : RecvPacket(want)
    BY DEF Next, Connect, Disconnect, BeginOperation, StartReset, StartSend, StartRecvPacket,
       StartRecvTimeout, SendPacket, RecvBegin, CancelClear, CancelSend, RecvTimeout, EndOperation,
       Destroy, Cancel, DeviceStart, DeviceRequest, DeviceEmit, LineRepeat, Accepting, vars, hostVars
  <2>2. /\ lastAcc' \in emitted /\ lastAcc'.sess = sess /\ lastAcc'.gen = peerGen
        /\ lastRecv < lastAcc'.seq
    BY <2>0, <2>1, AcceptStep DEF OrderInv, Accepting
  <2>3. CASE lastAcc = NoPacket
    BY <2>0, <2>2, <2>3, EmittedNat DEF OrderInv, EmittedBefore, NoPacket
  <2>4. CASE lastAcc \in emitted /\ lastAcc.sess < sess
    BY <2>0, <2>2, <2>4, EmittedNat DEF OrderInv, EmittedInOrder
  <2>5. CASE lastAcc \in emitted /\ lastAcc.gen = peerGen /\ lastRecv = lastAcc.seq
    BY <2>0, <2>2, <2>5, EmittedNat DEF OrderInv, EmittedInOrder
  <2>6. lastAcc \in emitted => lastAcc.sess \in Nat
    BY <2>0, EmittedNat
  <2> QED
    BY <2>0, <2>3, <2>4, <2>5, <2>6 DEF OrderInv, AcceptedKnown
<1>2. QED
  BY <1>1, TypeCorrect, Ordered, PTL DEF Spec, AcceptedInOrder

-----------------------------------------------------------------------------
(* The answer of Start, and the builds without security.                    *)

Open == {"ready", "recv", "cancelClear", "cancelSend"}

LEMMA AppendMembers ==
    ASSUME NEW S, NEW s \in Seq(S), NEW x \in S
    PROVE  \A i \in 1..Len(Append(s, x)) :
               Append(s, x)[i] = x \/ (i \in 1..Len(s) /\ Append(s, x)[i] = s[i])
OBVIOUS

LEMMA TailMembers ==
    ASSUME NEW S, NEW s \in Seq(S), s # <<>>
    PROVE  /\ 1 \in 1..Len(s) /\ Head(s) = s[1]
           /\ \A i \in 1..Len(Tail(s)) : i + 1 \in 1..Len(s) /\ Tail(s)[i] = s[i + 1]
OBVIOUS

\* An issued key stays one: the device never issues its generation again.
LEMMA IssuedKept ==
    ASSUME TypeOK, OrderInv, [Next]_vars, NEW p \in Packet, Issued(p)
    PROVE  Issued(p)'
<1>1. dev.gen \in Nat /\ dev.sess \in Nat /\ p.gen \in Nat /\ LineTypeOK
  BY DEF TypeOK, LineTypeOK, Packet
<1>2. ASSUME dev'.gen = dev.gen, dev'.sess = dev.sess, emitted' = emitted PROVE Issued(p)'
  BY <1>2 DEF Issued
<1>3. CASE DeviceStart
  <2>1. dev'.gen = dev.gen + 1 /\ emitted' = emitted
    BY <1>1, <1>3 DEF DeviceStart
  <2> QED
    BY <1>1, <2>1 DEF Issued
<1>4. CASE DeviceEmit
  <2>1. /\ dev'.gen = dev.gen /\ dev'.sess = dev.sess
        /\ \A q \in emitted' : q \in emitted \/ (q.gen = dev.gen /\ q.sess = dev.sess)
    BY <1>1, <1>4 DEF DeviceEmit, SessionPacket, LineTypeOK
  <2> QED
    BY <2>1 DEF Issued
<1>5. CASE DeviceRequest
  <2>1. dev'.gen = dev.gen /\ dev'.sess = dev.sess /\ emitted' = emitted
    BY <1>1, <1>5 DEF DeviceRequest, LineTypeOK
  <2> QED
    BY <1>2, <2>1
<1>6. CASE ~(DeviceStart \/ DeviceEmit \/ DeviceRequest)
  <2>1. UNCHANGED <<dev, emitted>>
    BY <1>6 DEF Next, Connect, Disconnect, BeginOperation, StartReset, StartSend, StartRecvPacket,
       StartRecvTimeout, SendPacket, RecvBegin, CancelClear, CancelSend, RecvPacket, RecvTimeout,
       EndOperation, Destroy, Cancel, LineRepeat, vars, lineVars
  <2> QED
    BY <1>2, <2>1
<1> QED
  BY <1>3, <1>4, <1>5, <1>6

\* What comes onto the line: the key of a new session, the packets of one, or damaged bytes.
LEMMA NewOnLine ==
    ASSUME TypeOK, OrderInv, KeyInv, [Next]_vars,
           NEW i \in 1..Len(toHost'), NEW key, key = toHost'[i], key.id = "start"
    PROVE  (\E j \in 1..Len(toHost) : key = toHost[j]) \/ (key \in Packet /\ Issued(key)')
<1>1. toHost \in Seq(Packet \cup {Damaged}) /\ LineTypeOK /\ dev.gen \in Nat /\ dev.uid \in Nat
  BY DEF TypeOK, LineTypeOK
<1>2. CASE toHost' = toHost
  BY <1>2
<1>3. CASE toHost # <<>> /\ toHost' = Tail(toHost)
  BY <1>1, <1>3, TailMembers
<1>4. ASSUME NEW p \in Packet \cup {Damaged}, toHost' = Append(toHost, p), p.id # "start"
      PROVE  \E j \in 1..Len(toHost) : key = toHost[j]
  BY <1>1, <1>4, AppendMembers
<1>5. Damaged.id # "start"
  BY DEF Damaged
<1>6. CASE DeviceStart
  <2>0. PICK p : p = [id |-> "start", seq |-> 0, sess |-> Head(toDev).sess, gen |-> dev.gen + 1,
                      uid |-> dev.uid + 1]
    OBVIOUS
  <2>1. /\ dev'.gen = dev.gen + 1 /\ dev'.sess = Head(toDev).sess /\ emitted' = emitted
        /\ \/ toHost' = Append(toHost, p)
           \/ toHost' = toHost
           \/ toHost' = Append(toHost, Damaged)
    BY <1>6, <2>0 DEF DeviceStart, Carry
  <2>2. Head(toDev).sess \in Nat
    BY <1>1, <1>6, ToDevSess DEF DeviceStart, LineTypeOK
  <2>3. p \in Packet /\ p.gen = dev'.gen /\ p.sess = dev'.sess
    <3>1. dev.gen + 1 \in Nat /\ dev.uid + 1 \in Nat
      BY <1>1
    <3> QED
      BY <2>0, <2>1, <2>2, <3>1 DEF Packet
  <2>4. Issued(p)'
    <3>1. \A q \in emitted : q.gen <= dev.gen /\ q.gen \in Nat
      BY <1>1, EmittedNat DEF OrderInv, EmittedBefore
    <3>2. p.gen <= dev'.gen /\ (p.gen = dev'.gen => p.sess = dev'.sess)
      BY <1>1, <2>1, <2>3
    <3>3. \A q \in emitted' : q.gen # p.gen
      BY <1>1, <2>1, <2>3, <3>1
    <3> QED
      BY <3>2, <3>3 DEF Issued
  <2>5. CASE toHost' = Append(toHost, p)
    BY <1>1, <2>3, <2>4, <2>5, AppendMembers
  <2> QED
    BY <1>2, <1>4, <1>5, <2>1, <2>5
<1>7. CASE DeviceEmit
  <2>1. PICK id \in {"fa", "data"} : Carry(SessionPacket(id))
    BY <1>7 DEF DeviceEmit
  <2>2. SessionPacket(id) \in Packet /\ SessionPacket(id).id # "start"
    BY <1>1 DEF SessionPacket, Packet, LineTypeOK
  <2> QED
    BY <1>2, <1>4, <1>5, <2>1, <2>2 DEF Carry
<1>8. CASE LineRepeat
  <2>1. PICK p \in emitted : toHost' = Append(toHost, p)
    BY <1>8 DEF LineRepeat
  <2>2. p \in Packet /\ p.id # "start"
    BY <1>1, <2>1 DEF KeyInv, LineTypeOK
  <2> QED
    BY <1>4, <2>1, <2>2
<1>9. CASE StartRecvPacket \/ \E want \in {"any", "fa", "data"} : RecvPacket(want)
  <2>1. toHost # <<>> /\ toHost' = Tail(toHost)
    BY <1>9 DEF StartRecvPacket, RecvPacket
  <2> QED
    BY <1>3, <2>1
<1>10. CASE ~(DeviceStart \/ DeviceEmit \/ LineRepeat \/ StartRecvPacket
              \/ \E want \in {"any", "fa", "data"} : RecvPacket(want))
  <2>1. toHost' = toHost
    BY <1>10 DEF Next, Connect, Disconnect, BeginOperation, StartReset, StartSend, DeviceRequest,
       StartRecvTimeout, SendPacket, RecvBegin, CancelClear, CancelSend, RecvTimeout,
       EndOperation, Destroy, Cancel, vars, lineVars
  <2> QED
    BY <1>2, <2>1
<1> QED
  BY <1>6, <1>7, <1>8, <1>9, <1>10

\* The key that Start took is one that was issued.
LEMMA KeyStep == TypeOK /\ OrderInv /\ KeyInv /\ [Next]_vars => KeyInv'
<1> SUFFICES ASSUME TypeOK, OrderInv, KeyInv, [Next]_vars PROVE KeyInv'
  OBVIOUS
<1>1. /\ toHost \in Seq(Packet \cup {Damaged})
      /\ \A j \in 1..Len(toHost) : toHost[j].id = "start" => toHost[j] \in Packet
  BY DEF TypeOK, LineTypeOK, Damaged
<1>2. ASSUME NEW i \in 1..Len(toHost'), NEW key, key = toHost'[i], key.id = "start" PROVE Issued(key)'
  <2>1. CASE \E j \in 1..Len(toHost) : key = toHost[j]
    <3>1. key \in Packet /\ Issued(key)
      BY <1>1, <1>2, <2>1 DEF KeyInv
    <3> QED
      BY <3>1, IssuedKept
  <2>2. CASE Issued(key)'
    BY <2>2
  <2> QED
    BY <1>2, <2>1, <2>2, NewOnLine
<1>3. ASSUME Secure, pc' \in Open
      PROVE  reply' \in Packet /\ reply'.id = "start" /\ peerGen' = reply'.gen /\ Issued(reply)'
  <2>1. CASE StartRecvPacket
    <3>1. PICK p : p = Head(toHost)
      OBVIOUS
    <3>2. p.id = "start" /\ reply' = p /\ peerGen' = p.gen /\ toHost # <<>>
      BY <1>3, <2>1, <3>1 DEF StartRecvPacket, Open
    <3>3. p \in Packet /\ Issued(p)
      BY <1>1, <3>1, <3>2, TailMembers DEF KeyInv
    <3>4. Issued(p)'
      BY <3>3, IssuedKept
    <3> QED
      BY <3>2, <3>3, <3>4 DEF Issued
  <2>2. ASSUME UNCHANGED <<reply, peerGen>>, pc \in Open
        PROVE  reply' \in Packet /\ reply'.id = "start" /\ peerGen' = reply'.gen /\ Issued(reply)'
    <3>1. reply \in Packet /\ reply.id = "start" /\ peerGen = reply.gen /\ Issued(reply)
      BY <1>3, <2>2 DEF KeyInv, Open
    <3>2. PICK p \in Packet : p = reply
      BY <3>1
    <3>3. Issued(p)'
      BY <3>1, <3>2, IssuedKept
    <3> QED
      BY <2>2, <3>1, <3>2, <3>3 DEF Issued
  <2>3. CASE UNCHANGED vars \/ DeviceStart \/ DeviceRequest \/ DeviceEmit \/ LineRepeat
    <3>1. UNCHANGED <<pc, peerGen, reply>>
      BY <2>3 DEF vars, hostVars, DeviceStart, DeviceRequest, DeviceEmit, LineRepeat
    <3> QED
      BY <1>3, <2>2, <3>1
  <2>4. CASE Connect \/ Disconnect \/ Cancel
    BY <1>3, <2>2, <2>4 DEF Connect, Disconnect, Cancel
  <2>5. CASE \/ BeginOperation \/ StartReset \/ StartSend \/ StartRecvTimeout \/ EndOperation \/ Destroy
    BY <1>3, <2>5 DEF BeginOperation, StartReset, StartSend, StartRecvTimeout, EndOperation, Destroy, Open
  <2>6. CASE SendPacket \/ RecvBegin \/ CancelClear \/ CancelSend
    BY <2>2, <2>6 DEF SendPacket, RecvBegin, CancelClear, CancelSend, Open
  <2>7. CASE RecvTimeout \/ \E want \in {"any", "fa", "data"} : RecvPacket(want)
    <3>1. UNCHANGED <<reply, peerGen>> /\ pc = "recv"
      BY <2>7 DEF RecvTimeout, RecvPacket
    <3> QED
      BY <2>2, <3>1 DEF Open
  <2> QED
    BY <2>1, <2>3, <2>4, <2>5, <2>6, <2>7 DEF Next
<1>4. \A i \in 1..Len(toHost') : toHost'[i].id = "start" =>
          /\ toHost'[i].gen <= dev'.gen
          /\ toHost'[i].gen = dev'.gen => toHost'[i].sess = dev'.sess
          /\ \A q \in emitted' : q.gen = toHost'[i].gen => q.sess = toHost'[i].sess
  <2> SUFFICES ASSUME NEW i \in 1..Len(toHost'), toHost'[i].id = "start"
               PROVE  /\ toHost'[i].gen <= dev'.gen
                      /\ toHost'[i].gen = dev'.gen => toHost'[i].sess = dev'.sess
                      /\ \A q \in emitted' : q.gen = toHost'[i].gen => q.sess = toHost'[i].sess
    OBVIOUS
  <2>1. PICK key : key = toHost'[i]
    OBVIOUS
  <2>2. Issued(key)'
    BY <1>2, <2>1
  <2> QED
    BY <2>1, <2>2 DEF Issued
<1>5. \A p \in emitted' : p.id # "start"
  <2>1. CASE DeviceEmit
    <3>1. PICK id \in {"fa", "data"} : emitted' = emitted \cup {SessionPacket(id)}
      BY <2>1 DEF DeviceEmit
    <3>2. SessionPacket(id).id # "start"
      BY DEF SessionPacket
    <3> QED
      BY <3>1, <3>2 DEF KeyInv
  <2>2. CASE ~DeviceEmit
    <3>1. emitted' = emitted
      BY <2>2 DEF Next, Connect, Disconnect, BeginOperation, StartReset, StartSend,
         StartRecvPacket, StartRecvTimeout, SendPacket, RecvBegin, CancelClear, CancelSend,
         RecvPacket, RecvTimeout, EndOperation, Destroy, Cancel, DeviceStart, DeviceRequest,
         LineRepeat, vars, lineVars
    <3> QED
      BY <3>1 DEF KeyInv
  <2> QED
    BY <2>1, <2>2
<1> QED
  BY <1>3, <1>4, <1>5 DEF KeyInv, Issued, Open

\* In the secure build a packet is accepted only in a session that the device's answer to this very
\* Start opened, although Start takes a late answer too.
THEOREM AcceptedInSessionHolds == Spec => AcceptedInSession
<1>1. Init => KeyInv
  BY DEF Init, KeyInv
<1>2. TypeOK /\ OrderInv /\ KeyInv /\ [Next]_vars
        => [Secure /\ Accepting => reply.id = "start" /\ reply.sess = sess]_vars
  <2> SUFFICES ASSUME TypeOK, OrderInv, KeyInv, [Next]_vars, Secure, Accepting
               PROVE  reply.id = "start" /\ reply.sess = sess
    OBVIOUS
  <2>0. LineTypeOK
    BY DEF TypeOK
  <2>1. PICK want \in {"any", "fa", "data"} : RecvPacket(want)
    BY DEF Next, Connect, Disconnect, BeginOperation, StartReset, StartSend, StartRecvPacket,
       StartRecvTimeout, SendPacket, RecvBegin, CancelClear, CancelSend, RecvTimeout, EndOperation,
       Destroy, Cancel, DeviceStart, DeviceRequest, DeviceEmit, LineRepeat, Accepting, vars, hostVars
  <2>2. lastAcc' \in emitted /\ lastAcc'.sess = sess /\ lastAcc'.gen = peerGen
    BY <2>0, <2>1, AcceptStep DEF OrderInv, Accepting
  <2>3. reply.id = "start" /\ peerGen = reply.gen /\ Issued(reply)
    BY DEF KeyInv, Accepting
  <2> QED
    BY <2>2, <2>3 DEF Issued
<1> QED
  BY <1>1, <1>2, KeyStep, TypeCorrect, Ordered, PTL DEF Spec, AcceptedInSession

\* While nothing has failed since the operation began on a silent line, what is on the line belongs
\* to the operation: first nothing, then the start message or its answer, then the session's own.
Silent == toDev = <<>> /\ toHost = <<>> /\ ~dev.busy

Answering ==
    /\ ~dev.busy
    /\ \/ toHost = <<>> /\ toDev = <<[id |-> "start", seq |-> 0, sess |-> sess]>>
       \/ toDev = <<>> /\ dev.sess = sess /\ \E p \in Packet : p.id = "start" /\ toHost = <<p>>

OwnLine ==
    /\ dev.sess = sess /\ reply.id = "start" /\ (lastRecv = 0 \/ lastAcc.sess = sess)
    /\ \A i \in 1..Len(toDev) : toDev[i].id # "start"
    /\ \A i \in 1..Len(toHost) : toHost[i] \in Packet /\ toHost[i].sess = sess

QuietInv ==
    quiet => /\ pc = "begin" => Silent
             /\ pc = "startSend" => Silent /\ lastRecv = 0
             /\ pc = "startRecv" => Answering /\ lastRecv = 0
             /\ pc \in Open => OwnLine

\* Sending puts a message of the session on the line.
LEMMA OwnSend ==
    ASSUME LineTypeOK, NEW m \in HostMsg, m.id # "start",
           \A i \in 1..Len(toDev) : toDev[i].id # "start", toDev' = toDev \/ toDev' = Append(toDev, m)
    PROVE  \A i \in 1..Len(toDev') : toDev'[i].id # "start"
<1>1. toDev \in Seq(HostMsg)
  BY DEF LineTypeOK
<1>2. \A i \in 1..Len(Append(toDev, m)) :
          Append(toDev, m)[i] = m \/ (i \in 1..Len(toDev) /\ Append(toDev, m)[i] = toDev[i])
  BY <1>1, AppendMembers
<1> QED
  BY <1>2

LEMMA QuietInit == Init => QuietInv
BY DEF Init, QuietInv, Open

\* The steps of the host.
LEMMA QuietHost ==
    ASSUME TypeOK, QuietInv,
           \/ Connect \/ Disconnect \/ BeginOperation \/ StartReset \/ StartRecvTimeout
           \/ RecvBegin \/ CancelClear \/ RecvTimeout \/ EndOperation \/ Destroy \/ Cancel
    PROVE  QuietInv'
<1>1. CASE BeginOperation \/ StartReset
  BY <1>1 DEF BeginOperation, StartReset, QuietInv, Silent, Open, lineVars
<1>2. CASE StartRecvTimeout \/ RecvTimeout
  BY <1>2 DEF StartRecvTimeout, RecvTimeout, QuietInv
<1>3. CASE Destroy \/ EndOperation
  BY <1>3 DEF Destroy, EndOperation, QuietInv, Open
<1>4. CASE Connect \/ Disconnect \/ RecvBegin \/ CancelClear \/ Cancel
  <2>1. /\ UNCHANGED <<toDev, toHost, dev, reply, lastRecv, lastAcc, sess, quiet>>
        /\ pc' = pc \/ (pc \in Open /\ pc' \in Open)
    BY <1>4 DEF Connect, Disconnect, RecvBegin, CancelClear, Cancel, lineVars, Open
  <2> QED
    BY <2>1 DEF QuietInv, Silent, Answering, OwnLine, Open
<1> QED
  BY <1>1, <1>2, <1>3, <1>4

LEMMA QuietSend ==
    ASSUME TypeOK, QuietInv, StartSend \/ SendPacket \/ CancelSend PROVE QuietInv'
<1>1. LineTypeOK /\ sess \in Nat
  BY DEF TypeOK, HostTypeOK
<1>2. CASE StartSend
  <2>1. Append(<<>>, [id |-> "start", seq |-> 0, sess |-> sess])
            = <<[id |-> "start", seq |-> 0, sess |-> sess]>>
    OBVIOUS
  <2> QED
    BY <1>2, <2>1 DEF StartSend, QuietInv, Silent, Answering, Open
<1>3. CASE SendPacket \/ CancelSend
  <2>1. /\ pc \in Open /\ pc' \in Open
        /\ UNCHANGED <<toHost, dev, reply, lastRecv, lastAcc, sess, quiet>>
    BY <1>3 DEF SendPacket, CancelSend, Open
  <2>2. PICK m \in HostMsg : m.id # "start" /\ (toDev' = toDev \/ toDev' = Append(toDev, m))
    <3>1. CASE SendPacket
      <4>1. lastSent' \in Nat
        BY <3>1, SessionAssumption DEF TypeOK, HostTypeOK, SendPacket
      <4>2. [id |-> "request", seq |-> lastSent', sess |-> sess] \in HostMsg
        BY <1>1, <4>1 DEF HostMsg
      <4> QED
        BY <3>1, <4>2 DEF SendPacket
    <3>2. CASE CancelSend
      <4>1. [id |-> "cancel", seq |-> 0, sess |-> sess] \in HostMsg
        BY <1>1 DEF HostMsg
      <4> QED
        BY <3>2, <4>1 DEF CancelSend
    <3> QED
      BY <1>3, <3>1, <3>2
  <2>3. quiet => OwnLine'
    <3> SUFFICES ASSUME quiet PROVE OwnLine'
      OBVIOUS
    <3>1. OwnLine
      BY <2>1 DEF QuietInv
    <3>2. \A i \in 1..Len(toDev') : toDev'[i].id # "start"
      BY <1>1, <2>2, <3>1, OwnSend DEF OwnLine
    <3> QED
      BY <2>1, <3>1, <3>2 DEF OwnLine
  <2> QED
    BY <2>1, <2>3 DEF QuietInv, Open
<1> QED
  BY <1>2, <1>3

LEMMA QuietRecv ==
    ASSUME TypeOK, QuietInv, StartRecvPacket \/ \E want \in {"any", "fa", "data"} : RecvPacket(want)
    PROVE  QuietInv'
<1>1. toHost \in Seq(Packet \cup {Damaged})
  BY DEF TypeOK, LineTypeOK
<1>2. CASE StartRecvPacket
  <2>1. /\ pc = "startRecv" /\ toHost # <<>> /\ toHost' = Tail(toHost) /\ reply' = Head(toHost)
        /\ pc' \in {"idle", "ready"} /\ UNCHANGED <<sess, lastRecv, lastAcc, toDev, dev, quiet>>
    BY <1>2 DEF StartRecvPacket
  <2>2. quiet => OwnLine'
    <3> SUFFICES ASSUME quiet PROVE OwnLine'
      OBVIOUS
    <3>1. Answering /\ lastRecv = 0
      BY <2>1 DEF QuietInv
    <3>2. PICK p \in Packet : p.id = "start" /\ toHost = <<p>> /\ toDev = <<>> /\ dev.sess = sess
      BY <2>1, <3>1 DEF Answering
    <3>3. Head(<<p>>) = p /\ Tail(<<p>>) = <<>>
      OBVIOUS
    <3>4. reply'.id = "start" /\ toHost' = <<>>
      BY <2>1, <3>2, <3>3
    <3> QED
      BY <2>1, <3>1, <3>2, <3>4 DEF OwnLine
  <2> QED
    BY <2>1, <2>2 DEF QuietInv, Open
<1>3. ASSUME NEW want \in {"any", "fa", "data"}, RecvPacket(want) PROVE QuietInv'
  <2>1. /\ pc = "recv" /\ pc' = "ready" /\ toHost # <<>> /\ toHost' = Tail(toHost)
        /\ UNCHANGED <<sess, toDev, dev, reply, quiet>>
        /\ UNCHANGED <<lastRecv, lastAcc>> \/ lastAcc' = Head(toHost)
    BY <1>3 DEF RecvPacket
  <2>2. quiet => OwnLine'
    <3> SUFFICES ASSUME quiet PROVE OwnLine'
      OBVIOUS
    <3>1. OwnLine
      BY <2>1 DEF QuietInv, Open
    <3>2. /\ 1 \in 1..Len(toHost) /\ Head(toHost) = toHost[1]
          /\ \A i \in 1..Len(Tail(toHost)) : i + 1 \in 1..Len(toHost) /\ Tail(toHost)[i] = toHost[i + 1]
      BY <1>1, <2>1, TailMembers
    <3>3. Head(toHost).sess = sess
      BY <3>1, <3>2 DEF OwnLine
    <3>4. \A i \in 1..Len(toHost') : toHost'[i] \in Packet /\ toHost'[i].sess = sess
      BY <2>1, <3>1, <3>2 DEF OwnLine
    <3> QED
      BY <2>1, <3>1, <3>3, <3>4 DEF OwnLine
  <2> QED
    BY <2>1, <2>2 DEF QuietInv, Open
<1> QED
  BY <1>2, <1>3

\* The steps of the device.
LEMMA QuietStart == ASSUME TypeOK, QuietInv, DeviceStart PROVE QuietInv'
<1>1. toDev \in Seq(HostMsg) /\ toDev # <<>> /\ Head(toDev).id = "start" /\ toDev' = Tail(toDev)
  BY DEF TypeOK, LineTypeOK, DeviceStart
<1>2. UNCHANGED <<pc, sess, lastRecv, lastAcc, reply>>
  BY DEF DeviceStart, hostVars
<1> SUFFICES ASSUME quiet' PROVE QuietInv'
  BY DEF QuietInv
<1> DEFINE p == [id |-> "start", seq |-> 0, sess |-> Head(toDev).sess, gen |-> dev.gen + 1,
                 uid |-> dev.uid + 1]
<1>3. toHost' = Append(toHost, p) /\ quiet
  BY DEF DeviceStart, Carry
<1>4. dev'.sess = Head(toDev).sess /\ ~dev'.busy
  BY DEF DeviceStart
<1>5. pc \notin Open
  <2> SUFFICES ASSUME pc \in Open PROVE FALSE
    OBVIOUS
  <2>1. OwnLine
    BY <1>3 DEF QuietInv
  <2> QED
    BY <1>1, <2>1, TailMembers DEF OwnLine
<1>6. pc = "startRecv" => Answering'
  <2> SUFFICES ASSUME pc = "startRecv" PROVE Answering'
    OBVIOUS
  <2>1. toHost = <<>> /\ toDev = <<[id |-> "start", seq |-> 0, sess |-> sess]>>
    BY <1>1, <1>3 DEF QuietInv, Answering
  <2>2. Head(toDev).sess = sess /\ Tail(toDev) = <<>>
    BY <2>1
  <2>3. p \in Packet
    BY <2>2 DEF Packet, TypeOK, HostTypeOK, LineTypeOK
  <2>4. toHost' = <<p>>
    BY <1>3, <2>1
  <2> QED
    BY <1>1, <1>2, <1>4, <2>2, <2>3, <2>4 DEF Answering
<1> QED
  BY <1>1, <1>2, <1>3, <1>5, <1>6 DEF QuietInv, Silent

LEMMA QuietRequest == ASSUME TypeOK, QuietInv, DeviceRequest PROVE QuietInv'
<1>1. /\ toDev \in Seq(HostMsg) /\ toDev # <<>> /\ Head(toDev).id \in {"request", "cancel"}
      /\ toDev' = Tail(toDev) /\ dev'.sess = dev.sess
      /\ UNCHANGED <<pc, sess, lastRecv, lastAcc, reply, toHost, quiet>>
  BY DEF TypeOK, LineTypeOK, DeviceRequest, hostVars
<1>2. /\ Head(toDev) = toDev[1]
      /\ \A i \in 1..Len(Tail(toDev)) : i + 1 \in 1..Len(toDev) /\ Tail(toDev)[i] = toDev[i + 1]
  BY <1>1, TailMembers
<1>3. quiet => pc \notin {"begin", "startSend"}
  BY <1>1 DEF QuietInv, Silent
<1>4. quiet => pc # "startRecv"
  <2> SUFFICES ASSUME quiet, pc = "startRecv" PROVE FALSE
    OBVIOUS
  <2>1. toDev = <<[id |-> "start", seq |-> 0, sess |-> sess]>>
    BY <1>1 DEF QuietInv, Answering
  <2>2. Head(toDev).id = "start"
    BY <2>1
  <2> QED
    BY <1>1, <2>2
<1>5. quiet /\ pc \in Open => OwnLine'
  BY <1>1, <1>2 DEF QuietInv, OwnLine
<1> QED
  BY <1>1, <1>3, <1>4, <1>5 DEF QuietInv

LEMMA QuietEmit == ASSUME TypeOK, QuietInv, DeviceEmit PROVE QuietInv'
<1> SUFFICES ASSUME quiet' PROVE QuietInv'
  BY DEF QuietInv
<1>1. PICK id \in {"fa", "data"} : Carry(SessionPacket(id))
  BY DEF DeviceEmit
<1>2. /\ dev.busy /\ dev'.sess = dev.sess /\ toHost' = Append(toHost, SessionPacket(id)) /\ quiet
      /\ UNCHANGED <<pc, sess, lastRecv, lastAcc, reply, toDev>>
  <2>1. toHost' = Append(toHost, SessionPacket(id)) /\ quiet' = quiet
    BY <1>1 DEF Carry
  <2>2. dev.busy /\ UNCHANGED <<pc, sess, lastRecv, lastAcc, reply, toDev>>
    BY DEF DeviceEmit, hostVars
  <2>3. dev'.sess = dev.sess
    BY DEF DeviceEmit
  <2> QED
    BY <2>1, <2>2, <2>3
<1>3. pc \notin {"begin", "startSend", "startRecv"}
  BY <1>2 DEF QuietInv, Silent, Answering
<1>4. pc \in Open => OwnLine'
  <2> SUFFICES ASSUME pc \in Open PROVE OwnLine'
    OBVIOUS
  <2>1. OwnLine
    BY <1>2 DEF QuietInv
  <2>2. SessionPacket(id) \in Packet /\ SessionPacket(id).sess = dev.sess
    BY SessionAssumption DEF SessionPacket, Packet, TypeOK, LineTypeOK
  <2>3. toHost \in Seq(Packet \cup {Damaged})
    BY DEF TypeOK, LineTypeOK
  <2>4. PICK q \in Packet : q = SessionPacket(id)
    BY <2>2
  <2>5. \A i \in 1..Len(Append(toHost, q)) :
            Append(toHost, q)[i] = q \/ (i \in 1..Len(toHost) /\ Append(toHost, q)[i] = toHost[i])
    BY <2>3, AppendMembers
  <2>6. \A i \in 1..Len(toHost') : toHost'[i] \in Packet /\ toHost'[i].sess = sess
    BY <1>2, <2>1, <2>2, <2>4, <2>5 DEF OwnLine
  <2> QED
    BY <1>2, <2>1, <2>6 DEF OwnLine
<1> QED
  BY <1>2, <1>3, <1>4 DEF QuietInv

LEMMA QuietInvStep == TypeOK /\ QuietInv /\ [Next]_vars => QuietInv'
<1> SUFFICES ASSUME TypeOK, QuietInv, [Next]_vars PROVE QuietInv'
  OBVIOUS
<1>1. CASE UNCHANGED vars
  BY <1>1 DEF vars, hostVars, lineVars, QuietInv, Silent, Answering, OwnLine, Open
<1>2. CASE LineRepeat
  BY <1>2 DEF LineRepeat, QuietInv
<1>3. CASE Next
  BY <1>2, <1>3, QuietHost, QuietSend, QuietRecv, QuietStart, QuietRequest, QuietEmit DEF Next
<1> QED
  BY <1>1, <1>3

\* In either build, as long as nothing fails in an operation that began on a silent line, what
\* RecvPacket lets through answers this operation: no bound on operations, packets or cancels.
THEOREM QuietLineIsFreshHolds == Spec => []QuietLineIsFresh
<1>1. QuietInv => QuietLineIsFresh
  BY DEF QuietInv, QuietLineIsFresh, OwnLine, Open
<1> QED
  BY <1>1, TypeCorrect, QuietInit, QuietInvStep, PTL DEF Spec


=============================================================================
