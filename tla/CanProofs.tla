----------------------------- MODULE CanProofs -----------------------------
(***************************************************************************)
(* What is proved of the CAN transport: whatever devices, builds, sizes    *)
(* and commands there are, and whatever is lost, only commands that the    *)
(* host has sent are decoded, and what is sent is the response that was    *)
(* begun.                                                                  *)
(***************************************************************************)
EXTENDS CanLink, SequenceTheorems, WellFoundedInduction, TLAPS

-----------------------------------------------------------------------------
(* What holds while a command is received.                                 *)

IsSequence(s) == Len(s) \in Nat /\ s = [i \in 1 .. Len(s) |-> s[i]]

\* A record with all of the fields that CanInit gives it, and no other.
IsDriver(e) ==
    e = [device |-> e.device, mode |-> e.mode, fd |-> e.fd, work |-> e.work,
         bTxActive |-> e.bTxActive, bTxFirst |-> e.bTxFirst, bRxActive |-> e.bRxActive,
         bRxFirst |-> e.bRxFirst, bRxTgl1 |-> e.bRxTgl1, bRxFrameReady |-> e.bRxFrameReady,
         bRxSpecial |-> e.bRxSpecial, nTxTodo |-> e.nTxTodo, pTxBuff |-> e.pTxBuff,
         txTgl |-> e.txTgl, nRxCtr |-> e.nRxCtr, nRxErr |-> e.nRxErr, crc |-> e.crc,
         crcOK |-> e.crcOK, pc |-> e.pc, buf |-> e.buf, rxmb |-> e.rxmb, rxmsg |-> e.rxmsg,
         rxFlag |-> e.rxFlag, rxInt |-> e.rxInt, txmb |-> e.txmb, txBusy |-> e.txBusy,
         txFlag |-> e.txFlag, txInt |-> e.txInt, decoded |-> e.decoded, answer |-> e.answer,
         sent |-> e.sent, aborted |-> e.aborted]

\* A command without its checksum.
Body(r) == <<Code(r.cmd), Plain(Len(r.args))>> \o Bytes(r.args)

\* A frame of one of the first n commands, and a buffer of the device that holds
\* such a frame or none.
FromHost(f, n) == f.m2s => \E i \in DOMAIN Requests : i <= n /\ \E j \in DOMAIN Command[i] : f = Command[i][j]
Slot(m, n) == m = <<>> \/ (m = <<m[1]>> /\ FromHost(m[1], n))

\* What was received so far is in the buffer, and the checksum covers it.
Stored(e) == IsSequence(e.crc) /\ Len(e.crc) = e.nRxCtr /\ \A k \in 1 .. e.nRxCtr : e.buf[k - 1] = e.crc[k]

\* The buffer holds a command, and a command was run last, one of the first n.
Holds(e, n) ==
    \E i \in DOMAIN Requests : i <= n /\ \A k \in 1 .. Len(Body(Requests[i])) : e.buf[k - 1] = Body(Requests[i])[k]
HasRun(e, n) ==
    e.decoded # <<>> =>
        \E i \in DOMAIN Requests : i <= n /\ e.decoded = <<Code(Requests[i].cmd)>> \o Bytes(Requests[i].args)

\* The frames of responses are not taken for commands.
Own(frames) == IsSequence(frames) /\ \A i \in 1 .. Len(frames) : ~frames[i].m2s

\* MSCAN says that it has a frame only when it has one.
DeviceOK(e) == e.device \in Devices /\ Own(e.txmb) /\ (e.device = "mscan" /\ e.rxFlag => e.rxmb # <<>>)

\* Once a frame has started a command, the buffer and the checksum agree; a
\* command whose checksum matched is one that the host has sent.
Reception(e, n) ==
    /\ IsDriver(e) /\ DeviceOK(e)
    /\ Slot(e.rxmb, n) /\ Slot(e.rxmsg, n)
    /\ DOMAIN e.buf = 0 .. CommSize + 3
    /\ e.nRxCtr \in 0 .. CommSize + 1
    /\ e.bRxActive /\ ~e.bRxFirst => Stored(e)
    /\ e.bRxFrameReady => ~e.bRxActive
    /\ e.bRxFrameReady /\ e.nRxErr = "none" /\ e.crcOK => Holds(e, n)
    /\ HasRun(e, n)
-----------------------------------------------------------------------------
(* Steps of the driver, as far as it matters what they change.             *)

\* The fields that receiving is about.
SameRx(g, e) ==
    /\ g.rxmb = e.rxmb /\ g.rxmsg = e.rxmsg /\ g.buf = e.buf /\ g.nRxCtr = e.nRxCtr /\ g.bRxActive = e.bRxActive
    /\ g.bRxFirst = e.bRxFirst /\ g.crc = e.crc /\ g.bRxFrameReady = e.bRxFrameReady
    /\ g.nRxErr = e.nRxErr /\ g.crcOK = e.crcOK /\ g.decoded = e.decoded
    /\ g.rxFlag = e.rxFlag /\ g.device = e.device

SameMode(g, e) == g.device = e.device /\ g.mode = e.mode /\ g.fd = e.fd

TxLength(e) ==
    LET maxLen == GetMaxCANFrameLen(e.fd, e.nTxTodo + 1) - 1 IN IF e.nTxTodo > maxLen THEN maxLen ELSE e.nTxTodo

\* g is e when a frame f of so many bytes has been handed to the device.
Pushed(g, e, f, len) ==
    /\ IsDriver(g) /\ SameRx(g, e) /\ SameMode(g, e)
    /\ g.bTxActive = e.bTxActive /\ g.bTxFirst = FALSE /\ g.txTgl = f.tgl
    /\ g.nTxTodo = e.nTxTodo - len /\ g.pTxBuff = e.pTxBuff + len
    /\ g.txBusy = TRUE /\ g.txmb = Append(e.txmb, f) /\ g.sent = Append(e.sent, f)
    /\ g.work = e.work /\ g.pc = e.pc /\ g.rxFlag = e.rxFlag /\ g.txFlag = e.txFlag
    /\ g.answer = e.answer /\ g.aborted = e.aborted

\* g is e when it listens: what it was receiving is dropped.
Listening(g, e) ==
    /\ IsDriver(g) /\ SameMode(g, e)
    /\ g.bTxActive = FALSE /\ g.bRxFrameReady = FALSE /\ g.bRxFirst = TRUE /\ g.bRxActive = TRUE
    /\ (DeviceOK(e) => DeviceOK(g))
    /\ g.rxmb \in {e.rxmb, <<>>} /\ g.rxmsg = e.rxmsg /\ g.buf = e.buf
    /\ g.nRxCtr = e.nRxCtr /\ g.decoded = e.decoded
    /\ g.work = e.work /\ g.pc = e.pc /\ g.rxFlag = e.rxFlag /\ g.txFlag = e.txFlag
    /\ g.txmb = e.txmb /\ g.txBusy = e.txBusy /\ g.answer = e.answer /\ g.aborted = e.aborted /\ g.sent = e.sent

LEMMA ListenLemma ==
    ASSUME NEW e, IsDriver(e)
    PROVE  Listening(Listen(e), e)
  BY DEF IsDriver, SameMode, Listening, Listen, EnableRx, NoFrame, DeviceOK

LEMMA PushLemma ==
    ASSUME NEW e, IsDriver(e), NEW f, NEW len
    PROVE  Pushed(SendTxFrame([e EXCEPT !.bTxFirst = FALSE, !.txTgl = f.tgl,
                                        !.nTxTodo = @ - len, !.pTxBuff = @ + len], f), e, f, len)
  <1>1. PICK t : t = f.tgl
    OBVIOUS
  <1>2. PICK m : m = e.nTxTodo - len
    OBVIOUS
  <1>3. PICK p : p = e.pTxBuff + len
    OBVIOUS
  <1>4. PICK b : b = Append(e.txmb, f)
    OBVIOUS
  <1>5. PICK s : s = Append(e.sent, f)
    OBVIOUS
  <1>6. PICK h : h = [e EXCEPT !.bTxFirst = FALSE, !.txTgl = t, !.nTxTodo = m, !.pTxBuff = p]
    OBVIOUS
  <1>7. h.txmb = e.txmb /\ h.sent = e.sent
    BY <1>6 DEF IsDriver
  <1>8. PICK g : g = [h EXCEPT !.txBusy = TRUE, !.txmb = b, !.sent = s]
    OBVIOUS
  <1>9. g = SendTxFrame([e EXCEPT !.bTxFirst = FALSE, !.txTgl = f.tgl,
                                  !.nTxTodo = @ - len, !.pTxBuff = @ + len], f)
    BY <1>1, <1>2, <1>3, <1>4, <1>5, <1>6, <1>7, <1>8 DEF SendTxFrame
  <1>10. Pushed(g, e, f, len)
    BY <1>1, <1>2, <1>3, <1>4, <1>5, <1>6, <1>8 DEF IsDriver, SameRx, SameMode, Pushed
  <1> QED BY <1>9, <1>10

LEMMA TxCanLemma ==
    ASSUME NEW e, IsDriver(e)
    PROVE  \E g : /\ Pushed(g, e, TxFrame(e, TxLength(e)), TxLength(e))
                  /\ TxCan(e) = IF g.nTxTodo = 0 THEN Listen(g) ELSE g
  <1>1. PICK len : len = TxLength(e)
    OBVIOUS
  <1>2. PICK f : f = TxFrame(e, len)
    OBVIOUS
  <1>3. PICK g : g = SendTxFrame([e EXCEPT !.bTxFirst = FALSE, !.txTgl = f.tgl,
                                           !.nTxTodo = @ - len, !.pTxBuff = @ + len], f)
    OBVIOUS
  <1>4. TxCan(e) = IF g.nTxTodo = 0 THEN Listen(g) ELSE g
    BY <1>1, <1>2, <1>3 DEF TxCan, TxLength
  <1>5. Pushed(g, e, f, len)
    BY <1>3, PushLemma
  <1> QED BY <1>1, <1>2, <1>4, <1>5

LEMMA SameReception ==
    ASSUME NEW e, NEW g, NEW n, Reception(e, n), IsDriver(g), SameRx(g, e), Own(g.txmb)
    PROVE  Reception(g, n)
  BY DEF Reception, SameRx, Stored, Holds, HasRun, DeviceOK

LEMMA ListeningReception ==
    ASSUME NEW e, NEW g, NEW n, Reception(e, n), Listening(g, e)
    PROVE  Reception(g, n)
  BY DEF Reception, Listening, Slot, HasRun

LEMMA AppendedLemma ==
    ASSUME NEW s, IsSequence(s), NEW x
    PROVE  LET t == Append(s, x)
           IN  /\ IsSequence(t) /\ Len(t) = Len(s) + 1 /\ t[Len(s) + 1] = x
               /\ \A i \in 1 .. Len(s) : t[i] = s[i]
  <1>1. PICK n \in Nat : n = Len(s) /\ s = [i \in 1 .. n |-> s[i]]
    BY DEF IsSequence
  <1>2. PICK S : S = {s[i] : i \in 1 .. n} \cup {x}
    OBVIOUS
  <1>3. s \in Seq(S) /\ x \in S
    <2>1. \A i \in 1 .. n : s[i] \in S
      BY <1>2
    <2> QED BY <1>1, <1>2, <2>1
  <1>4. PICK t : t = Append(s, x)
    OBVIOUS
  <1>5. t \in Seq(S) /\ Len(t) = n + 1 /\ t[n + 1] = x /\ \A i \in 1 .. n : t[i] = s[i]
    BY <1>1, <1>3, <1>4
  <1>6. t \in [1 .. Len(t) -> S] /\ Len(t) \in Nat
    BY <1>5, LenProperties
  <1>7. t = [i \in 1 .. Len(t) |-> t[i]]
    BY <1>6, Zenon
  <1> QED BY <1>1, <1>4, <1>5, <1>6, <1>7 DEF IsSequence

LEMMA OwnLemma ==
    ASSUME NEW s, Own(s), NEW f, ~f.m2s
    PROVE  Own(Append(s, f))
  <1>1. PICK t : t = Append(s, f)
    OBVIOUS
  <1>2. PICK n \in Nat : n = Len(s)
    BY DEF Own, IsSequence
  <1>3. /\ IsSequence(t) /\ Len(t) = n + 1 /\ t[n + 1] = f
        /\ \A i \in 1 .. n : t[i] = s[i]
    BY <1>1, <1>2, AppendedLemma DEF Own
  <1>4. \A i \in 1 .. n + 1 : i \in 1 .. n \/ i = n + 1
    OBVIOUS
  <1> QED BY <1>1, <1>2, <1>3, <1>4 DEF Own

LEMMA TxCanReception ==
    ASSUME NEW e, NEW n, Reception(e, n)
    PROVE  Reception(TxCan(e), n)
  <1>1. IsDriver(e)
    BY DEF Reception
  <1>2. PICK g : /\ Pushed(g, e, TxFrame(e, TxLength(e)), TxLength(e))
                 /\ TxCan(e) = IF g.nTxTodo = 0 THEN Listen(g) ELSE g
    BY <1>1, TxCanLemma
  <1>3. Reception(g, n) /\ IsDriver(g)
    <2>1. PICK f : f = TxFrame(e, TxLength(e)) /\ ~f.m2s
      <3>1. PICK len : len = TxLength(e)
        OBVIOUS
      <3>2. TxFrame(e, len).m2s = FALSE
        BY DEF TxFrame
      <3> QED BY <3>1, <3>2
    <2>2. Own(g.txmb)
      BY <1>2, <2>1, OwnLemma DEF Pushed, Reception, DeviceOK
    <2> QED BY <1>2, <2>2, SameReception DEF Pushed
  <1>4. Reception(Listen(g), n)
    BY <1>3, ListenLemma, ListeningReception
  <1> QED BY <1>2, <1>3, <1>4

\* What is left alone when something is received.
SameTx(g, e) ==
    /\ IsDriver(g) /\ SameMode(g, e)
    /\ g.bTxActive = e.bTxActive /\ g.bTxFirst = e.bTxFirst /\ g.txTgl = e.txTgl
    /\ g.nTxTodo = e.nTxTodo /\ g.pTxBuff = e.pTxBuff /\ g.work = e.work /\ g.pc = e.pc
    /\ g.txmb = e.txmb /\ g.txBusy = e.txBusy /\ g.txFlag = e.txFlag
    /\ g.answer = e.answer /\ g.sent = e.sent /\ g.aborted = e.aborted

\* The same but for the device's buffers.
Acknowledged(g, e) ==
    /\ SameTx(g, e)
    /\ g.rxmb \in {e.rxmb, <<>>} /\ g.rxmsg \in {e.rxmsg, e.rxmb, <<>>}
    /\ g.buf = e.buf /\ g.nRxCtr = e.nRxCtr /\ g.crc = e.crc /\ g.nRxErr = e.nRxErr /\ g.crcOK = e.crcOK
    /\ g.bRxFirst = e.bRxFirst /\ g.decoded = e.decoded
    /\ DeviceOK(e) => DeviceOK(g)

LEMMA AckLemma ==
    ASSUME NEW e, IsDriver(e)
    PROVE  /\ Acknowledged(AckRxFrame(e), e)
           /\ AckRxFrame(e).bRxActive = e.bRxActive /\ AckRxFrame(e).bRxFrameReady = e.bRxFrameReady
  BY DEF IsDriver, SameTx, SameMode, DeviceOK, Acknowledged, AckRxFrame, MscanAckRxFrame, NoFrame

LEMMA DoneLemma ==
    ASSUME NEW e, IsDriver(e)
    PROVE  /\ Acknowledged(FrameDone(e), e)
           /\ FrameDone(e).bRxActive = FALSE /\ FrameDone(e).bRxFrameReady = TRUE
  BY DEF IsDriver, SameTx, SameMode, DeviceOK, Acknowledged, FrameDone, AckRxFrame, MscanAckRxFrame, NoFrame

LEMMA GetLemma ==
    ASSUME NEW e, IsDriver(e)
    PROVE  /\ Acknowledged(GetRxFrameLen(e), e)
           /\ GetRxFrameLen(e).bRxActive = e.bRxActive /\ GetRxFrameLen(e).bRxFrameReady = e.bRxFrameReady
  <1>1. CASE e.device = "mscan"
    BY <1>1 DEF IsDriver, SameTx, SameMode, DeviceOK, Acknowledged, GetRxFrameLen, MscanGetRxFrameLen, NoFrame
  <1>2. CASE e.device # "mscan"
    <2>1. PICK s : s = IF e.mode = "poll" THEN [e EXCEPT !.rxFlag = FALSE] ELSE e
      OBVIOUS
    <2>2. /\ SameTx(s, e) /\ s.rxmb = e.rxmb /\ s.rxmsg = e.rxmsg /\ s.buf = e.buf /\ s.nRxCtr = e.nRxCtr
          /\ s.crc = e.crc /\ s.nRxErr = e.nRxErr /\ s.crcOK = e.crcOK /\ s.bRxFirst = e.bRxFirst
          /\ s.decoded = e.decoded /\ s.bRxActive = e.bRxActive /\ s.bRxFrameReady = e.bRxFrameReady
      BY <2>1 DEF IsDriver, SameTx, SameMode
    <2>3. GetRxFrameLen(e) \in {[s EXCEPT !.rxmsg = e.rxmb], s}
      BY <1>2, <2>1 DEF GetRxFrameLen, FlexGetRxFrameLen
    <2>4. ASSUME NEW g \in {[s EXCEPT !.rxmsg = e.rxmb], s}
          PROVE  SameTx(g, e) /\ g.rxmb = e.rxmb /\ g.rxmsg \in {e.rxmsg, e.rxmb} /\ g.buf = e.buf
                 /\ g.nRxCtr = e.nRxCtr /\ g.crc = e.crc /\ g.nRxErr = e.nRxErr /\ g.crcOK = e.crcOK
                 /\ g.bRxFirst = e.bRxFirst /\ g.decoded = e.decoded /\ g.bRxActive = e.bRxActive
                 /\ g.bRxFrameReady = e.bRxFrameReady
      BY <2>2 DEF IsDriver, SameTx, SameMode
    <2>5. ASSUME NEW g, SameTx(g, e), DeviceOK(e) PROVE DeviceOK(g)
      BY <1>2, <2>5 DEF SameTx, SameMode, DeviceOK
    <2> QED BY <1>2, <2>3, <2>4, <2>5 DEF SameTx, SameMode, Acknowledged
  <1> QED BY <1>1, <1>2

LEMMA AcknowledgedReception ==
    ASSUME NEW e, NEW g, NEW n, Reception(e, n), Acknowledged(g, e),
           g.bRxActive = e.bRxActive, g.bRxFrameReady = e.bRxFrameReady
    PROVE  Reception(g, n)
  BY DEF Reception, Acknowledged, SameTx, Slot, Stored, Holds, HasRun

\* What is left to show when a frame is done with.
LEMMA DoneReception ==
    ASSUME NEW e, NEW n, IsDriver(e), DeviceOK(e), Slot(e.rxmb, n), Slot(e.rxmsg, n), HasRun(e, n),
           DOMAIN e.buf = 0 .. CommSize + 3, e.nRxCtr \in 0 .. CommSize + 1,
           e.nRxErr = "none" /\ e.crcOK => Holds(e, n)
    PROVE  Reception(FrameDone(e), n)
  <1>1. PICK g : g = FrameDone(e)
    OBVIOUS
  <1>2. Acknowledged(g, e) /\ g.bRxActive = FALSE /\ g.bRxFrameReady = TRUE
    BY <1>1, DoneLemma
  <1>3. Slot(g.rxmb, n) /\ Slot(g.rxmsg, n)
    BY <1>2 DEF Acknowledged, Slot
  <1>4. g.nRxErr = "none" /\ g.crcOK => Holds(g, n)
    BY <1>2 DEF Acknowledged, Holds
  <1>5. Reception(g, n)
    BY <1>2, <1>3, <1>4 DEF Acknowledged, SameTx, HasRun, Reception
  <1> QED BY <1>1, <1>5
-----------------------------------------------------------------------------
\* r is s and then t.
Joins(r, s, t) ==
    /\ IsSequence(r) /\ Len(r) = Len(s) + Len(t)
    /\ \A i \in 1 .. Len(s) : r[i] = s[i]
    /\ \A i \in 1 .. Len(t) : r[Len(s) + i] = t[i]

LEMMA JoinLemma ==
    ASSUME NEW S, NEW s \in Seq(S), NEW t \in Seq(S)
    PROVE  Joins(s \o t, s, t)
  <1>0. s \o t \in Seq(S)
    OBVIOUS
  <1>1. PICK r \in Seq(S) : r = s \o t
    BY <1>0, Zenon
  <1>2. PICK m \in Nat, n \in Nat : m = Len(s) /\ n = Len(t)
    OBVIOUS
  <1>3. Len(r) = m + n /\ (\A i \in 1 .. m : r[i] = s[i])
    BY <1>1, <1>2
  <1>4. \A i \in 1 .. n : r[m + i] = t[i]
    BY <1>1, <1>2
  <1>5. Len(r) \in Nat /\ r \in [1 .. Len(r) -> S]
    BY LenProperties
  <1>6. r = [i \in 1 .. Len(r) |-> r[i]]
    BY <1>5, Zenon
  <1> QED BY <1>1, <1>2, <1>3, <1>4, <1>5, <1>6 DEF Joins, IsSequence

LEMMA AppendLemma ==
    ASSUME NEW s, IsSequence(s), NEW t, IsSequence(t)
    PROVE  Joins(s \o t, s, t)
  <1> DEFINE S == {s[i] : i \in 1 .. Len(s)} \cup {t[i] : i \in 1 .. Len(t)}
  <1>1. PICK m \in Nat, n \in Nat : m = Len(s) /\ n = Len(t)
    BY DEF IsSequence
  <1>2. s \in Seq(S)
    <2>1. \A i \in 1 .. m : s[i] \in S
      BY <1>1
    <2>2. s = [i \in 1 .. m |-> s[i]]
      BY <1>1 DEF IsSequence
    <2> HIDE DEF S
    <2> QED BY <2>1, <2>2
  <1>3. t \in Seq(S)
    <2>1. \A i \in 1 .. n : t[i] \in S
      BY <1>1
    <2>2. t = [i \in 1 .. n |-> t[i]]
      BY <1>1 DEF IsSequence
    <2> HIDE DEF S
    <2> QED BY <2>1, <2>2
  <1> HIDE DEF S
  <1> QED BY <1>2, <1>3, JoinLemma

LEMMA ElementsLemma ==
    ASSUME NEW S, NEW s, IsSequence(s), \A i \in 1 .. Len(s) : s[i] \in S
    PROVE  s \in Seq(S)
  <1>1. PICK n \in Nat : n = Len(s) /\ s = [i \in 1 .. n |-> s[i]]
    BY DEF IsSequence
  <1>2. \A i \in 1 .. n : s[i] \in S
    BY <1>1
  <1> QED BY <1>1, <1>2

\* How s[m], ..., s[n] are numbered in a piece.
IsPiece(p, s, m, n) ==
    /\ IsSequence(p) /\ Len(p) = (IF m <= n THEN n - m + 1 ELSE 0)
    /\ \A i \in 1 .. Len(p) : p[i] = s[m + i - 1]

LEMMA PieceLemma ==
    ASSUME NEW s, IsSequence(s), NEW m \in Nat, NEW n \in Nat, m >= 1, n <= Len(s)
    PROVE  IsPiece(SubSeq(s, m, n), s, m, n)
  <1>1. PICK k \in Nat : k = Len(s) /\ s = [i \in 1 .. k |-> s[i]]
    BY DEF IsSequence
  <1>2. PICK S : S = {s[i] : i \in 1 .. k}
    OBVIOUS
  <1>3. s \in Seq(S)
    BY <1>1, <1>2, ElementsLemma
  <1>4. PICK p : p = SubSeq(s, m, n)
    OBVIOUS
  <1>5. p \in Seq(S) /\ Len(p) = (IF m <= n THEN n - m + 1 ELSE 0) /\ \A i \in 1 .. Len(p) : p[i] = s[m + i - 1]
    BY <1>1, <1>3, <1>4
  <1>6. p \in [1 .. Len(p) -> S] /\ Len(p) \in Nat
    BY <1>5, LenProperties
  <1>7. p = [i \in 1 .. Len(p) |-> p[i]]
    BY <1>6, Zenon
  <1> QED BY <1>4, <1>5, <1>6, <1>7 DEF IsPiece, IsSequence

LEMMA RequestLemma ==
    ASSUME NEW i \in DOMAIN Requests
    PROVE  /\ i \in Nat /\ IsSequence(Requests[i].args)
           /\ \A k \in 1 .. Len(Requests[i].args) : Requests[i].args[k] \in Nat
           /\ IsSequence(Requests[i].data) /\ Len(Requests[i].data) <= CommSize
  <1>1. PICK R : R = [cmd : ToSet(Codes), args : Seq(Nat), status : ToSet(Codes), data : Seq(Nat)]
    OBVIOUS
  <1>2. Requests \in Seq(R)
    BY <1>1, RequestsAssumption
  <1>3. i \in Nat /\ Requests[i] \in R
    BY <1>2
  <1>4. Requests[i].args \in Seq(Nat) /\ Requests[i].data \in Seq(Nat)
    BY <1>1, <1>3
  <1>5. PICK a \in Seq(Nat), b \in Seq(Nat) : a = Requests[i].args /\ b = Requests[i].data
    BY <1>4
  <1>6. a \in [1 .. Len(a) -> Nat] /\ Len(a) \in Nat /\ b \in [1 .. Len(b) -> Nat] /\ Len(b) \in Nat
    BY LenProperties
  <1>7. IsSequence(a) /\ IsSequence(b)
    <2>1. a = [k \in 1 .. Len(a) |-> a[k]] /\ b = [k \in 1 .. Len(b) |-> b[k]]
      BY <1>6, Zenon
    <2> QED BY <1>6, <2>1 DEF IsSequence
  <1> QED BY <1>3, <1>5, <1>6, <1>7, RequestsAssumption

LEMMA BodyLemma ==
    ASSUME NEW i \in DOMAIN Requests
    PROVE  LET r == Requests[i]
               b == Body(r)
           IN  /\ IsSequence(b) /\ Len(b) = Len(r.args) + 2
               /\ b[1] = Code(r.cmd) /\ b[2] = Plain(Len(r.args))
               /\ \A k \in 1 .. Len(r.args) : b[k + 2] = Bytes(r.args)[k]
               /\ IsSequence(Bytes(r.args)) /\ Len(Bytes(r.args)) = Len(r.args)
  <1>1. PICK r : r = Requests[i]
    OBVIOUS
  <1>2. PICK n \in Nat : n = Len(r.args) /\ r.args = [k \in 1 .. n |-> r.args[k]]
    BY <1>1, RequestLemma DEF IsSequence
  <1>3. PICK t : t = Bytes(r.args)
    OBVIOUS
  <1>4. t = [k \in 1 .. n |-> Plain(r.args[k])]
    BY <1>2, <1>3 DEF Bytes
  <1>5. IsSequence(t) /\ Len(t) = n
    <2>1. t = [k \in 1 .. n |-> t[k]]
      BY <1>4
    <2>2. PICK S : S = {t[k] : k \in 1 .. n}
      OBVIOUS
    <2>3. \A k \in 1 .. n : t[k] \in S
      BY <2>2
    <2>4. t \in Seq(S) /\ Len(t) = n
      BY <2>1, <2>3
    <2> QED BY <2>1, <2>4 DEF IsSequence
  <1>6. PICK h : h = <<Code(r.cmd), Plain(Len(r.args))>>
    OBVIOUS
  <1>7. IsSequence(h) /\ Len(h) = 2 /\ h[1] = Code(r.cmd) /\ h[2] = Plain(Len(r.args))
    <2>1. PICK a, b : h = <<a, b>> /\ a = Code(r.cmd) /\ b = Plain(Len(r.args))
      BY <1>6
    <2>2. h = [k \in 1 .. 2 |-> h[k]] /\ Len(h) = 2
      BY <2>1
    <2> QED BY <2>1, <2>2 DEF IsSequence
  <1>8. Joins(h \o t, h, t)
    BY <1>5, <1>7, AppendLemma
  <1>9. PICK b : b = h \o t
    OBVIOUS
  <1>10. b = Body(r)
    BY <1>3, <1>6, <1>9 DEF Body
  <1>11. IsSequence(b) /\ Len(b) = n + 2 /\ b[1] = h[1] /\ b[2] = h[2] /\ \A k \in 1 .. n : b[2 + k] = t[k]
    BY <1>5, <1>7, <1>8, <1>9 DEF Joins
  <1> QED BY <1>1, <1>2, <1>3, <1>5, <1>7, <1>10, <1>11

LEMMA DivisionLemma ==
    ASSUME NEW n \in Nat, NEW c \in Nat, n >= 1, c >= 1
    PROVE  LET q == (n + c - 1) \div c IN q \in Nat /\ q >= 1 /\ c * (q - 1) \in Nat /\ c * (q - 1) < n
  <1>1. PICK x \in Nat : x = n + c - 1
    OBVIOUS
  <1>2. PICK q \in Int : q = x \div c
    OBVIOUS
  <1>3. c * q <= x /\ x < c * q + c
    BY <1>2
  <1>4. q >= 1
    <2>1. SUFFICES ASSUME q <= 0 PROVE FALSE
      BY <1>2
    <2>2. c * q <= 0
      BY <2>1
    <2> QED BY <1>1, <1>3, <2>2
  <1>5. c * (q - 1) = c * q - c
    OBVIOUS
  <1>6. c * (q - 1) >= 0
    BY <1>4
  <1>7. c * (q - 1) \in Int /\ c * q \in Int
    OBVIOUS
  <1> QED BY <1>1, <1>2, <1>3, <1>4, <1>5, <1>6, <1>7

\* A frame of a command: its length is that of its data, and the last byte of the
\* last frame is the checksum.
CommandFrame(f, i, j) ==
    /\ f.m2s = TRUE /\ f.fst = (j = 1)
    /\ IsSequence(f.data) /\ f.len = Len(f.data)
    /\ f.lst => Len(f.data) >= 1 /\ f.data[Len(f.data)] = Crc8(Body(Requests[i]))

LEMMA CommandLemma ==
    ASSUME NEW i \in DOMAIN Requests
    PROVE  /\ \A j \in DOMAIN Command[i] : j \in Nat /\ CommandFrame(Command[i][j], i, j)
           /\ IsSequence(Command[i])
  <1>1. PICK b : b = Body(Requests[i])
    OBVIOUS
  <1>2. PICK m : m = Append(b, Crc8(b))
    OBVIOUS
  <1>3. PICK n \in Nat : n = Len(b) + 1 /\ n >= 3
    <2>1. PICK a \in Nat : a = Len(Requests[i].args)
      BY RequestLemma DEF IsSequence
    <2>2. Len(b) = a + 2
      BY <1>1, <2>1, BodyLemma
    <2> QED BY <2>2
  <1>4. IsSequence(m) /\ Len(m) = n /\ m[n] = Crc8(b)
    <2>1. IsSequence(b)
      BY <1>1, BodyLemma
    <2> QED BY <1>2, <1>3, <2>1, AppendedLemma
  <1>5. PICK c \in Nat : c = ClassicLen - 1 /\ c >= 1
    BY CanAssumption
  <1>6. PICK q \in Nat : q = (n + c - 1) \div c /\ q >= 1 /\ c * (q - 1) < n
    <2>1. PICK q : q = (n + c - 1) \div c
      OBVIOUS
    <2>2. n >= 1 /\ c >= 1
      BY <1>3, <1>5
    <2>3. q \in Nat /\ q >= 1 /\ c * (q - 1) < n
      BY <2>1, <2>2, DivisionLemma, Zenon
    <2> QED BY <2>1, <2>3, Zenon
  <1>7. PICK pieces : pieces = [k \in 1 .. q |-> SubSeq(m, c * (k - 1) + 1, IF k = q THEN n ELSE c * k)]
    OBVIOUS
  <1>8. pieces = Pieces(m, c)
    BY <1>4, <1>6, <1>7 DEF Pieces
  <1>9. DOMAIN pieces = 1 .. q /\ Len(pieces) = q
    <2>1. pieces = [k \in 1 .. q |-> pieces[k]]
      BY <1>7
    <2>2. PICK S : S = {pieces[k] : k \in 1 .. q}
      OBVIOUS
    <2>3. \A k \in 1 .. q : pieces[k] \in S
      BY <2>2
    <2> QED BY <2>1, <2>3
  <1>10. ASSUME NEW k \in 1 .. q
         PROVE  /\ IsSequence(pieces[k])
                /\ k = q => Len(pieces[k]) >= 1 /\ pieces[k][Len(pieces[k])] = Crc8(b)
    <2>1. PICK u \in Nat : u = c * (k - 1)
      OBVIOUS
    <2>2. PICK v \in Nat : v = IF k = q THEN n ELSE c * k
      OBVIOUS
    <2>3. v <= n
      <3>1. CASE k = q
        BY <2>2, <3>1
      <3>2. CASE k # q
        <4>1. k <= q - 1
          BY <3>2
        <4>2. c * k <= c * (q - 1)
          BY <4>1
        <4>3. c * k \in Int /\ c * (q - 1) \in Int
          OBVIOUS
        <4> QED BY <1>6, <2>2, <3>2, <4>2, <4>3
      <3> QED BY <3>1, <3>2
    <2>4. PICK p : p = SubSeq(m, u + 1, v)
      OBVIOUS
    <2>5. p = pieces[k]
      BY <1>7, <2>1, <2>2, <2>4
    <2>6. IsPiece(p, m, u + 1, v)
      BY <1>4, <2>3, <2>4, PieceLemma
    <2>7. ASSUME k = q PROVE Len(p) >= 1 /\ p[Len(p)] = Crc8(b)
      <3>1. u + 1 <= v /\ v = n
        BY <1>6, <2>1, <2>2, <2>7
      <3>2. Len(p) = n - u /\ n - u \in 1 .. Len(p) /\ Len(p) >= 1
        BY <2>6, <3>1 DEF IsPiece
      <3>3. p[n - u] = m[n]
        BY <2>6, <3>2 DEF IsPiece
      <3> QED BY <1>4, <3>2, <3>3
    <2> QED BY <2>5, <2>6, <2>7 DEF IsPiece
  <1>11. PICK special : special = (Requests[i].cmd = "PING")
    OBVIOUS
  <1>12. PICK w : w = [k \in 1 .. q |-> [m2s |-> TRUE, spc |-> special, fst |-> k = 1, lst |-> k = q, tgl |-> k % 2 = 0,
                                         len |-> Len(pieces[k]), data |-> pieces[k]]]
    OBVIOUS
  <1>13. w = Command[i]
    <2>1. CommandMessage(Requests[i]) = m
      BY <1>1, <1>2 DEF CommandMessage, WithCrc, Body
    <2>2. CommandFrames(Requests[i]) = w
      BY <1>5, <1>8, <1>9, <1>11, <1>12, <2>1 DEF CommandFrames
    <2> QED BY <2>2 DEF Command
  <1>14. ASSUME NEW j \in 1 .. q PROVE CommandFrame(w[j], i, j)
    <2>1. PICK f : f = w[j]
      OBVIOUS
    <2>2. f.m2s = TRUE /\ f.fst = (j = 1) /\ f.len = Len(pieces[j]) /\ f.data = pieces[j] /\ f.lst = (j = q)
      BY <1>12, <2>1
    <2> QED BY <1>1, <1>10, <2>1, <2>2 DEF CommandFrame
  <1>15. IsSequence(w)
    <2>1. w = [k \in 1 .. q |-> w[k]]
      BY <1>12
    <2>2. PICK S : S = {w[k] : k \in 1 .. q}
      OBVIOUS
    <2>3. \A k \in 1 .. q : w[k] \in S
      BY <2>2
    <2>4. Len(w) = q
      BY <2>1, <2>3
    <2> QED BY <2>1, <2>4 DEF IsSequence
  <1> QED BY <1>12, <1>13, <1>14, <1>15

\* Every byte of a frame is stored behind the c that are there, as in a buffer b
\* from a, and all but the checksum are summed.
Extended(b, a, N, c, t, k) ==
    b = [x \in 0 .. N |-> IF x - c \in 0 .. k - 1 THEN t[x - c + 1] ELSE a[x]]

Covers(s, b, c) == IsSequence(s) /\ Len(s) = c /\ \A x \in 1 .. c : b[x - 1] = s[x]

LEMMA StoreLemma ==
    ASSUME NEW N \in Nat, NEW c \in Nat, NEW k \in Nat, NEW m \in Nat, m = k \/ m = k - 1, c + k <= N + 1,
           NEW a, NEW r, Covers(r, a, c), NEW t, IsSequence(t), k = Len(t),
           NEW b, Extended(b, a, N, c, t, k)
    PROVE  Covers(r \o SubSeq(t, 1, m), b, c + m)
  <1>1. PICK p : p = SubSeq(t, 1, m)
    OBVIOUS
  <1>2. m <= Len(t) /\ 1 \in Nat /\ 1 >= 1
    OBVIOUS
  <1>3. IsPiece(p, t, 1, m)
    BY <1>1, <1>2, PieceLemma
  <1>4. IsSequence(p) /\ Len(p) = m /\ \A y \in 1 .. m : p[y] = t[y]
    BY <1>3 DEF IsPiece
  <1>5. IsSequence(r) /\ Len(r) = c /\ \A x \in 1 .. c : a[x - 1] = r[x]
    BY DEF Covers
  <1>6. PICK s : s = r \o p
    OBVIOUS
  <1>7. Joins(s, r, p)
    BY <1>4, <1>5, <1>6, AppendLemma
  <1>8. /\ IsSequence(s) /\ Len(s) = c + m
        /\ \A x \in 1 .. c : s[x] = r[x]
        /\ \A y \in 1 .. m : s[c + y] = p[y]
    BY <1>4, <1>5, <1>7 DEF Joins
  <1>9. \A x \in 0 .. N : b[x] = IF x - c \in 0 .. k - 1 THEN t[x - c + 1] ELSE a[x]
    BY DEF Extended
  <1>10. \A x \in 1 .. c : x - 1 \in 0 .. N /\ x - 1 - c \notin 0 .. k - 1
    OBVIOUS
  <1>11. ASSUME NEW x \in 1 .. c PROVE b[x - 1] = s[x]
    <2>1. b[x - 1] = a[x - 1]
      BY <1>9, <1>10
    <2> QED BY <1>5, <1>8, <2>1
  <1>12. \A y \in 1 .. m : c + y - 1 \in 0 .. N /\ c + y - 1 - c \in 0 .. k - 1 /\ c + y - 1 - c + 1 = y
    OBVIOUS
  <1>13. ASSUME NEW y \in 1 .. m PROVE b[c + y - 1] = s[c + y]
    <2>1. b[c + y - 1] = t[c + y - 1 - c + 1]
      BY <1>9, <1>12
    <2> QED BY <1>4, <1>8, <1>12, <2>1
  <1>14. ASSUME NEW x \in 1 .. c + m PROVE b[x - 1] = s[x]
    <2>1. CASE x <= c
      BY <1>11, <2>1
    <2>2. CASE x > c
      <3>1. x - c \in 1 .. m /\ x = c + (x - c)
        BY <2>2
      <3> QED BY <1>13, <3>1
    <2> QED BY <2>1, <2>2
  <1>15. Covers(s, b, c + m)
    BY <1>8, <1>14 DEF Covers
  <1> QED BY <1>1, <1>6, <1>15

LEMMA TakeBytesReception ==
    ASSUME NEW e, NEW n, Reception(e, n), e.bRxActive, ~e.bRxFirst, ~e.bRxFrameReady,
           NEW i \in DOMAIN Requests, i <= n, NEW j, NEW f, CommandFrame(f, i, j),
           NEW k \in Nat \ {0}, k = Len(f.data), e.nRxCtr + k <= CommSize + 1
    PROVE  Reception(TakeBytes(e, f, k), n)
  <1>1. PICK c \in Nat : c = e.nRxCtr /\ c + k <= CommSize + 1
    BY DEF Reception
  <1>2. PICK m \in Nat : m = IF f.lst THEN k - 1 ELSE k
    <2>1. k \in Nat /\ k - 1 \in Nat
      OBVIOUS
    <2> QED BY <2>1, Zenon
  <1>3. PICK b : b = [x \in DOMAIN e.buf |-> IF x - c \in 0 .. k - 1 THEN f.data[x - c + 1] ELSE e.buf[x]]
    OBVIOUS
  <1>4. PICK s : s = e.crc \o SubSeq(f.data, 1, m)
    OBVIOUS
  <1>5. PICK h : h = [e EXCEPT !.buf = b, !.nRxCtr = c + k]
    OBVIOUS
  <1>6. PICK ok : ok = (f.data[k] = Crc8(s))
    OBVIOUS
  <1>7. PICK g : g = [h EXCEPT !.crc = s, !.crcOK = ok]
    OBVIOUS
  <1>8. PICK g2 : g2 = [h EXCEPT !.crc = s]
    OBVIOUS
  <1>9. TakeBytes(e, f, k) = IF f.lst THEN FrameDone(g) ELSE AckRxFrame(g2)
    <2>1. h = [e EXCEPT !.buf = [x \in DOMAIN e.buf |-> IF x - e.nRxCtr \in 0 .. k - 1
                                                         THEN f.data[x - e.nRxCtr + 1] ELSE e.buf[x]],
                        !.nRxCtr = e.nRxCtr + k]
      BY <1>1, <1>3, <1>5
    <2> QED BY <1>1, <1>2, <1>3, <1>4, <1>5, <1>6, <1>7, <1>8, <2>1 DEF TakeBytes
  <1>10. IsDriver(e) /\ DeviceOK(e) /\ Slot(e.rxmb, n) /\ Slot(e.rxmsg, n) /\ HasRun(e, n)
         /\ DOMAIN e.buf = 0 .. CommSize + 3 /\ Stored(e)
    BY DEF Reception
  <1>11. /\ IsSequence(s) /\ Len(s) = c + m /\ DOMAIN b = 0 .. CommSize + 3
         /\ \A x \in 1 .. c + m : b[x - 1] = s[x]
    <2>1. IsSequence(f.data) /\ (m = k \/ m = k - 1)
      BY <1>2 DEF CommandFrame
    <2>2. PICK N \in Nat : N = CommSize + 3 /\ c + k <= N + 1
      BY <1>1, CanAssumption
    <2>3. Covers(e.crc, e.buf, c)
      BY <1>1, <1>10 DEF Covers, Stored
    <2>4. Extended(b, e.buf, N, c, f.data, k)
      BY <1>3, <1>10, <2>2 DEF Extended
    <2>5. Covers(s, b, c + m)
      BY <1>4, <2>1, <2>2, <2>3, <2>4, StoreLemma
    <2>6. DOMAIN b = 0 .. CommSize + 3
      BY <1>3, <1>10
    <2> QED BY <2>5, <2>6 DEF Covers
  <1>12. /\ IsDriver(g) /\ DeviceOK(g) /\ g.rxmb = e.rxmb /\ g.rxmsg = e.rxmsg /\ g.decoded = e.decoded
         /\ g.buf = b /\ g.nRxCtr = c + k /\ g.crcOK = ok
    BY <1>5, <1>7, <1>10 DEF IsDriver, DeviceOK
  <1>13. /\ IsDriver(g2) /\ DeviceOK(g2) /\ g2.rxmb = e.rxmb /\ g2.rxmsg = e.rxmsg /\ g2.decoded = e.decoded
         /\ g2.buf = b /\ g2.nRxCtr = c + k /\ g2.crc = s
         /\ g2.bRxActive = e.bRxActive /\ g2.bRxFrameReady = e.bRxFrameReady
    BY <1>5, <1>8, <1>10 DEF IsDriver, DeviceOK
  <1>14. c + k \in 0 .. CommSize + 1
    BY <1>1, CanAssumption
  <1>15. CASE f.lst
    <2>1. ASSUME ok PROVE Holds(g, n)
      <3>1. Crc8(s) = Crc8(Body(Requests[i]))
        BY <1>6, <1>15, <2>1 DEF CommandFrame
      <3>2. s = Body(Requests[i])
        BY <3>1 DEF Crc8
      <3>3. \A x \in 1 .. Len(Body(Requests[i])) : b[x - 1] = Body(Requests[i])[x]
        BY <1>11, <3>2
      <3> QED BY <1>12, <3>3 DEF Holds
    <2>2. Slot(g.rxmb, n) /\ Slot(g.rxmsg, n) /\ HasRun(g, n)
      BY <1>10, <1>12 DEF HasRun
    <2>3. Reception(FrameDone(g), n)
      BY <1>11, <1>12, <1>14, <2>1, <2>2, DoneReception
    <2> QED BY <1>9, <1>15, <2>3
  <1>16. CASE ~f.lst
    <2>1. m = k
      BY <1>2, <1>16
    <2>2. Stored(g2)
      BY <1>11, <1>13, <2>1 DEF Stored
    <2>3. Reception(g2, n)
      BY <1>10, <1>11, <1>13, <1>14, <2>2 DEF Reception, HasRun
    <2>4. Reception(AckRxFrame(g2), n)
      BY <1>13, <2>3, AckLemma, AcknowledgedReception
    <2> QED BY <1>9, <1>16, <2>4
  <1> QED BY <1>15, <1>16

LEMMA TakeFrameReception ==
    ASSUME NEW e, NEW n, Reception(e, n), e.bRxActive, ~e.bRxFirst, ~e.bRxFrameReady,
           NEW i \in DOMAIN Requests, i <= n, NEW j, NEW f, CommandFrame(f, i, j)
    PROVE  Reception(TakeFrame(e, f), n)
  <1>1. PICK k \in Nat : k = Len(f.data) /\ k = f.len
    BY DEF CommandFrame, IsSequence
  <1>2. PICK g : g = [e EXCEPT !.nRxErr = "CANMSGERR"]
    OBVIOUS
  <1>3. TakeFrame(e, f) = IF k = 0 \/ k > k \/ e.nRxCtr + k > CommSize + 1 THEN FrameDone(g) ELSE TakeBytes(e, f, k)
    BY <1>1, <1>2 DEF TakeFrame
  <1>4. Reception(FrameDone(g), n)
    <2>1. /\ IsDriver(g) /\ DeviceOK(g) /\ g.rxmb = e.rxmb /\ g.rxmsg = e.rxmsg /\ g.decoded = e.decoded
          /\ g.buf = e.buf /\ g.nRxCtr = e.nRxCtr /\ g.nRxErr = "CANMSGERR"
      BY <1>2 DEF Reception, IsDriver, DeviceOK
    <2>2. Slot(g.rxmb, n) /\ Slot(g.rxmsg, n) /\ HasRun(g, n)
      BY <2>1 DEF Reception, HasRun
    <2>3. DOMAIN g.buf = 0 .. CommSize + 3 /\ g.nRxCtr \in 0 .. CommSize + 1
      BY <2>1 DEF Reception
    <2> QED BY <2>1, <2>2, <2>3, DoneReception
  <1>5. ASSUME k # 0, ~(e.nRxCtr + k > CommSize + 1) PROVE Reception(TakeBytes(e, f, k), n)
    <2>1. e.nRxCtr + k <= CommSize + 1
      BY <1>5, CanAssumption DEF Reception
    <2> QED BY <1>1, <1>5, <2>1, TakeBytesReception
  <1> QED BY <1>3, <1>4, <1>5

LEMMA FirstFrameReception ==
    ASSUME NEW e, NEW n, Reception(e, n), e.bRxActive, ~e.bRxFrameReady, NEW f
    PROVE  LET g == FirstFrame(e, f) IN Reception(g, n) /\ g.bRxActive /\ ~g.bRxFirst /\ ~g.bRxFrameReady
  <1>1. PICK g : g = FirstFrame(e, f)
    OBVIOUS
  <1>2. /\ IsDriver(g) /\ DeviceOK(g) /\ g.rxmb = e.rxmb /\ g.rxmsg = e.rxmsg /\ g.decoded = e.decoded
        /\ g.buf = e.buf /\ g.nRxCtr = 0 /\ g.crc = <<>>
        /\ g.bRxActive = e.bRxActive /\ g.bRxFrameReady = e.bRxFrameReady /\ ~g.bRxFirst
    BY <1>1 DEF FirstFrame, Reception, IsDriver, DeviceOK
  <1>3. Stored(g)
    BY <1>2 DEF Stored, IsSequence
  <1>4. 0 \in 0 .. CommSize + 1
    BY CanAssumption
  <1>5. Reception(g, n)
    BY <1>2, <1>3, <1>4 DEF Reception, HasRun
  <1> QED BY <1>1, <1>2, <1>5

LEMMA RxCanReception ==
    ASSUME NEW e, NEW n, Reception(e, n), CanReceive(e), e.rxmsg # <<>>
    PROVE  Reception(RxCan(e), n)
  <1>1. PICK f : f = e.rxmsg[1]
    OBVIOUS
  <1>2. FromHost(f, n)
    BY <1>1 DEF Reception, Slot
  <1>3. IsDriver(e) /\ e.bRxActive /\ ~e.bRxFrameReady
    BY DEF CanReceive, Reception
  <1>4. Reception(AckRxFrame(e), n)
    BY <1>3, AckLemma, AcknowledgedReception
  <1>5. ASSUME f.m2s
        PROVE  \E i \in DOMAIN Requests : \E j : i <= n /\ CommandFrame(f, i, j)
    BY <1>2, <1>5, CommandLemma DEF FromHost
  <1>6. ASSUME f.m2s PROVE Reception(TakeFrame(FirstFrame(e, f), f), n)
    BY <1>3, <1>5, <1>6, FirstFrameReception, TakeFrameReception
  <1>7. ASSUME ~e.bRxFirst PROVE Reception(FrameDone([e EXCEPT !.nRxErr = "CANTGLERR"]), n)
    <2>1. PICK g : g = [e EXCEPT !.nRxErr = "CANTGLERR"]
      OBVIOUS
    <2>2. /\ IsDriver(g) /\ DeviceOK(g) /\ g.rxmb = e.rxmb /\ g.rxmsg = e.rxmsg /\ g.decoded = e.decoded
          /\ g.buf = e.buf /\ g.nRxCtr = e.nRxCtr /\ g.nRxErr = "CANTGLERR"
      BY <2>1 DEF Reception, IsDriver, DeviceOK
    <2>3. Slot(g.rxmb, n) /\ Slot(g.rxmsg, n) /\ HasRun(g, n)
      BY <2>2 DEF Reception, HasRun
    <2>4. DOMAIN g.buf = 0 .. CommSize + 3 /\ g.nRxCtr \in 0 .. CommSize + 1
      BY <2>2 DEF Reception
    <2> QED BY <2>1, <2>2, <2>3, <2>4, DoneReception
  <1>8. ASSUME f.m2s, ~e.bRxFirst PROVE Reception(TakeFrame([e EXCEPT !.bRxTgl1 = ~@], f), n)
    <2>1. PICK v : v = ~e.bRxTgl1
      OBVIOUS
    <2>2. PICK g : g = [e EXCEPT !.bRxTgl1 = v]
      OBVIOUS
    <2>3. IsDriver(g) /\ SameRx(g, e) /\ g.txmb = e.txmb
      BY <1>3, <2>2 DEF IsDriver, SameRx
    <2>4. Reception(g, n)
      BY <2>3, SameReception DEF Reception, DeviceOK
    <2>5. g.bRxActive /\ ~g.bRxFirst /\ ~g.bRxFrameReady
      BY <1>3, <1>8, <2>3 DEF SameRx
    <2>6. Reception(TakeFrame(g, f), n)
      BY <1>5, <1>8, <2>4, <2>5, TakeFrameReception
    <2> QED BY <2>1, <2>2, <2>6
  <1>9. PICK a, b, c, t :
           /\ a = AckRxFrame(e) /\ b = TakeFrame(FirstFrame(e, f), f)
           /\ c = FrameDone([e EXCEPT !.nRxErr = "CANTGLERR"])
           /\ t = TakeFrame([e EXCEPT !.bRxTgl1 = ~@], f)
    OBVIOUS
  <1>10. RxCan(e) =
            LET first == e.bRxFirst \/ f.fst
            IN  CASE ~f.m2s -> a
                  [] f.m2s /\ first /\ (~f.fst \/ f.tgl) -> a
                  [] f.m2s /\ first /\ f.fst /\ ~f.tgl -> b
                  [] f.m2s /\ ~first /\ f.tgl # e.bRxTgl1 -> c
                  [] OTHER -> t
    BY <1>1, <1>9 DEF RxCan
  <1>11. CASE ~f.m2s
    BY <1>4, <1>9, <1>10, <1>11
  <1>12. CASE f.m2s /\ (e.bRxFirst \/ f.fst)
    BY <1>4, <1>6, <1>9, <1>10, <1>12
  <1>13. CASE f.m2s /\ ~(e.bRxFirst \/ f.fst)
    BY <1>7, <1>8, <1>9, <1>10, <1>13
  <1> QED BY <1>11, <1>12, <1>13

-----------------------------------------------------------------------------
(* Responses.                                                              *)

\* g is e with a response put into the buffer.
Responding(g, e) ==
    /\ IsDriver(g) /\ SameMode(g, e)
    /\ g.rxmb = e.rxmb /\ g.rxmsg = e.rxmsg /\ g.rxFlag = e.rxFlag /\ g.txFlag = e.txFlag
    /\ g.nRxCtr = e.nRxCtr /\ g.crc = e.crc /\ g.crcOK = e.crcOK /\ g.bRxActive = e.bRxActive
    /\ g.bRxFirst = e.bRxFirst /\ g.bRxFrameReady = e.bRxFrameReady /\ g.decoded = e.decoded
    /\ DOMAIN g.buf = DOMAIN e.buf
    /\ g.txmb = e.txmb /\ g.txBusy = e.txBusy /\ g.work = e.work
    /\ g.bTxActive = TRUE /\ g.bTxFirst = TRUE /\ g.sent = <<>> /\ g.aborted = FALSE
    /\ g.pc = "check"

\* The first half of PrepareResponse: what is sent.
Start(st) == IF VarLen(st) THEN 0 ELSE 1
Head_(e, n, st) ==
    IF VarLen(st) THEN [e.buf EXCEPT ![0] = Code(st), ![1] = Plain(n)] ELSE [e.buf EXCEPT ![1] = Code(st)]

ResponseOf(g, e, n, st) ==
    LET start == Start(st)
        todo  == n + 3 - start
        head  == Head_(e, n, st)
        body  == [i \in 1 .. todo - 1 |-> head[start + i - 1]]
    IN  /\ g.answer = AnswerMessage(st, [i \in 1 .. n |-> e.buf[i + 1]])
        /\ g.buf = [head EXCEPT ![start + todo - 1] = Crc8(body)]
        /\ g.pTxBuff = start /\ g.nTxTodo = todo

LEMMA SendLemma ==
    ASSUME NEW e, IsDriver(e), NEW length, NEW status
    PROVE  LET fits == length <= Size8 - 4
               n    == IF fits THEN length ELSE 0
               st   == IF fits THEN status ELSE "RSPBUFFOVF"
               g    == SendResponse(e, length, status)
           IN  Responding(g, e) /\ ResponseOf(g, e, n, st)
  <1>1. PICK n : n = IF length <= Size8 - 4 THEN length ELSE 0
    OBVIOUS
  <1>2. PICK st : st = IF length <= Size8 - 4 THEN status ELSE "RSPBUFFOVF"
    OBVIOUS
  <1>3. PICK start : start = Start(st)
    OBVIOUS
  <1>4. PICK todo : todo = n + 3 - start
    OBVIOUS
  <1>5. PICK head : head = Head_(e, n, st)
    OBVIOUS
  <1>6. PICK body : body = [i \in 1 .. todo - 1 |-> head[start + i - 1]]
    OBVIOUS
  <1>7. PICK answer : answer = AnswerMessage(st, [i \in 1 .. n |-> e.buf[i + 1]])
    OBVIOUS
  <1>8. PICK buf : buf = [head EXCEPT ![start + todo - 1] = Crc8(body)]
    OBVIOUS
  <1>9. PICK h : h = [e EXCEPT !.answer = answer, !.sent = <<>>, !.aborted = FALSE, !.buf = buf,
                               !.pTxBuff = start, !.nTxTodo = todo,
                               !.bTxActive = TRUE, !.bTxFirst = TRUE, !.txInt = TRUE]
    OBVIOUS
  <1>10. PICK g : g = [h EXCEPT !.pc = "check"]
    OBVIOUS
  <1>11. g = SendResponse(e, length, status)
    <2>1. h = PrepareResponse(e, length, status)
      BY <1>1, <1>2, <1>3, <1>4, <1>5, <1>6, <1>7, <1>8, <1>9 DEF PrepareResponse, Start, Head_
    <2> QED BY <1>10, <2>1 DEF SendResponse
  <1>12. DOMAIN buf = DOMAIN e.buf
    BY <1>5, <1>8 DEF Head_
  <1>13. Responding(g, e)
    BY <1>9, <1>10, <1>12 DEF IsDriver, SameMode, Responding
  <1>14. g.answer = answer /\ g.buf = buf /\ g.pTxBuff = start /\ g.nTxTodo = todo
    BY <1>9, <1>10 DEF IsDriver
  <1>15. ResponseOf(g, e, n, st)
    BY <1>3, <1>4, <1>5, <1>6, <1>7, <1>8, <1>14 DEF ResponseOf
  <1> QED BY <1>1, <1>2, <1>11, <1>13, <1>15

LEMMA RespondingReception ==
    ASSUME NEW e, NEW g, NEW n, Reception(e, n), ~e.bRxFrameReady, ~e.bRxActive, Responding(g, e)
    PROVE  Reception(g, n)
  BY DEF Reception, Responding, SameMode, DeviceOK, HasRun

\* h is e with a command taken out, before it is answered.
Taken(h, e) ==
    /\ SameTx(h, e) /\ h.rxFlag = e.rxFlag /\ h.rxmb = e.rxmb /\ h.rxmsg = e.rxmsg
    /\ DOMAIN h.buf = DOMAIN e.buf /\ h.nRxCtr = e.nRxCtr /\ h.crc = e.crc
    /\ h.bRxActive = e.bRxActive /\ h.bRxFirst = e.bRxFirst /\ h.bRxFrameReady = FALSE

LEMMA HeldLemma ==
    ASSUME NEW e, NEW n, Holds(e, n)
    PROVE  \E i \in DOMAIN Requests :
              /\ i <= n /\ e.buf[0] = Code(Requests[i].cmd)
              /\ [k \in 1 .. e.buf[1][1] |-> e.buf[k + 1]] = Bytes(Requests[i].args)
  <1>1. PICK i \in DOMAIN Requests :
           i <= n /\ \A k \in 1 .. Len(Body(Requests[i])) : e.buf[k - 1] = Body(Requests[i])[k]
    BY DEF Holds
  <1>2. PICK r, b : r = Requests[i] /\ b = Body(Requests[i])
    OBVIOUS
  <1>3. PICK m \in Nat : m = Len(r.args)
    BY <1>2, RequestLemma DEF IsSequence
  <1>4. PICK t : t = Bytes(r.args)
    OBVIOUS
  <1>5. /\ Len(b) = m + 2 /\ b[1] = Code(r.cmd) /\ b[2] = Plain(m)
        /\ \A k \in 1 .. m : b[k + 2] = t[k]
        /\ t = [k \in 1 .. m |-> t[k]]
    BY <1>2, <1>3, <1>4, BodyLemma DEF IsSequence
  <1>6. \A k \in 1 .. m + 2 : e.buf[k - 1] = b[k]
    BY <1>1, <1>2, <1>5
  <1>7. 1 \in 1 .. m + 2 /\ 2 \in 1 .. m + 2 /\ \A k \in 1 .. m : k + 2 \in 1 .. m + 2 /\ k + 2 - 1 = k + 1
    OBVIOUS
  <1>8. e.buf[0] = b[1] /\ e.buf[1] = b[2]
    BY <1>6, <1>7
  <1>9. \A k \in 1 .. m : e.buf[k + 1] = t[k]
    BY <1>5, <1>6, <1>7
  <1>10. e.buf[1][1] = m
    BY <1>5, <1>8 DEF Plain
  <1>11. [k \in 1 .. e.buf[1][1] |-> e.buf[k + 1]] = t
    BY <1>5, <1>9, <1>10
  <1> QED BY <1>1, <1>2, <1>4, <1>5, <1>8, <1>11

LEMMA DecoderLemma ==
    ASSUME NEW e, IsDriver(e), ~e.bRxFrameReady, NEW cmd, NEW args
    PROVE  \E h, length, status :
              /\ ProtocolDecoder(e, cmd, args) = SendResponse(h, length, status)
              /\ length \in 0 .. CommSize /\ Taken(h, e) /\ h.decoded = <<cmd>> \o args
  <1>1. PICK known : known = {i \in DOMAIN Requests : /\ Code(Requests[i].cmd) = cmd
                                                      /\ Bytes(Requests[i].args) = args}
    OBVIOUS
  <1>2. PICK run : run = <<cmd>> \o args
    OBVIOUS
  <1>3. PICK noted : noted = [e EXCEPT !.decoded = run]
    OBVIOUS
  <1>4. Taken(noted, e) /\ noted.decoded = run
    BY <1>3 DEF IsDriver, SameTx, SameMode, Taken
  <1>5. CASE known = {}
    <2>1. ProtocolDecoder(e, cmd, args) = SendResponse(noted, 0, "INVCMD")
      BY <1>1, <1>2, <1>3, <1>5 DEF ProtocolDecoder, SendError
    <2>2. 0 \in 0 .. CommSize
      BY CanAssumption
    <2> QED BY <1>2, <1>4, <2>1, <2>2
  <1>6. CASE known # {}
    <2>1. PICK i \in known : i = CHOOSE j \in known : TRUE
      BY <1>6
    <2>2. PICK r : r = Requests[i]
      OBVIOUS
    <2>3. PICK written : written = [k \in DOMAIN noted.buf |-> IF k - 1 \in DOMAIN r.data
                                                               THEN Plain(r.data[k - 1]) ELSE noted.buf[k]]
      OBVIOUS
    <2>4. PICK h : h = [noted EXCEPT !.buf = written]
      OBVIOUS
    <2>5. noted.buf = e.buf
      BY <1>3 DEF IsDriver
    <2>6. Taken(h, e) /\ h.decoded = run
      BY <1>4, <2>3, <2>4, <2>5 DEF IsDriver, SameTx, SameMode, Taken
    <2>7. Len(r.data) \in 0 .. CommSize
      <3>1. i \in DOMAIN Requests
        BY <1>1
      <3>2. PICK m \in Nat : m = Len(r.data)
        BY <2>2, <3>1, RequestLemma DEF IsSequence
      <3>3. m <= CommSize
        BY <2>2, <3>1, <3>2, RequestLemma
      <3>4. m \in 0 .. CommSize
        BY <3>3, CanAssumption
      <3> QED BY <3>2, <3>4
    <2>8. ProtocolDecoder(e, cmd, args) = SendResponse(h, Len(r.data), r.status)
      BY <1>1, <1>2, <1>3, <1>6, <2>1, <2>2, <2>3, <2>4 DEF ProtocolDecoder
    <2> QED BY <1>2, <2>6, <2>7, <2>8
  <1> QED BY <1>5, <1>6

LEMMA RxDoneLemma ==
    ASSUME NEW e, IsDriver(e)
    PROVE  \E h, length, status :
              /\ RxDone(e) = SendResponse(h, length, status)
              /\ length \in 0 .. CommSize /\ Taken(h, e)
              /\ \/ h.decoded = e.decoded
                 \/ /\ e.nRxErr = "none" /\ e.crcOK
                    /\ h.decoded = <<e.buf[0]>> \o [i \in 1 .. e.buf[1][1] |-> e.buf[i + 1]]
  <1>1. PICK g : g = [e EXCEPT !.bRxFrameReady = FALSE]
    OBVIOUS
  <1>2. /\ Taken(g, e) /\ g.decoded = e.decoded /\ g.nRxErr = e.nRxErr /\ g.crcOK = e.crcOK /\ g.buf = e.buf
        /\ g.bRxSpecial = e.bRxSpecial
    BY <1>1 DEF IsDriver, SameTx, SameMode, Taken
  <1>3. PICK w : w = [g EXCEPT !.nRxErr = "CMDCSERR"]
    OBVIOUS
  <1>4. Taken(w, e) /\ w.decoded = e.decoded
    BY <1>2, <1>3 DEF IsDriver, SameTx, SameMode, Taken
  <1>5. 0 \in 0 .. CommSize
    BY CanAssumption
  <1>6. CASE g.nRxErr # "none"
    <2>1. RxDone(e) = SendResponse(g, 0, g.nRxErr)
      BY <1>1, <1>6 DEF RxDone, SendError
    <2> QED BY <1>2, <1>5, <2>1
  <1>7. CASE g.nRxErr = "none" /\ ~ChecksOut(g)
    <2>1. RxDone(e) = SendResponse(w, 0, "CMDCSERR")
      BY <1>1, <1>3, <1>7 DEF RxDone, SendError
    <2> QED BY <1>4, <1>5, <2>1
  <1>8. CASE g.nRxErr = "none" /\ ChecksOut(g) /\ g.bRxSpecial
    <2>1. PICK st : st = IF g.buf[0] = Code("PING") THEN "OK" ELSE "INVCMD"
      OBVIOUS
    <2>2. RxDone(e) = SendResponse(g, 0, st)
      BY <1>1, <1>8, <2>1 DEF RxDone, SendError
    <2> QED BY <1>2, <1>5, <2>2
  <1>9. CASE g.nRxErr = "none" /\ ChecksOut(g) /\ ~g.bRxSpecial
    <2>1. PICK cmd, args : cmd = g.buf[0] /\ args = [i \in 1 .. g.buf[1][1] |-> g.buf[i + 1]]
      OBVIOUS
    <2>2. RxDone(e) = ProtocolDecoder(g, cmd, args)
      BY <1>1, <1>9, <2>1 DEF RxDone
    <2>3. IsDriver(g) /\ ~g.bRxFrameReady
      BY <1>2 DEF Taken, SameTx
    <2>4. PICK h, length, status :
             /\ ProtocolDecoder(g, cmd, args) = SendResponse(h, length, status)
             /\ length \in 0 .. CommSize /\ Taken(h, g) /\ h.decoded = <<cmd>> \o args
      BY <2>3, DecoderLemma
    <2>5. Taken(h, e)
      BY <1>2, <2>4 DEF Taken, SameTx, SameMode
    <2>6. e.crcOK /\ e.nRxErr = "none"
      BY <1>2, <1>9 DEF ChecksOut
    <2>7. h.decoded = <<e.buf[0]>> \o [i \in 1 .. e.buf[1][1] |-> e.buf[i + 1]]
      BY <1>2, <2>1, <2>4
    <2> QED BY <2>2, <2>4, <2>5, <2>6, <2>7
  <1> QED BY <1>6, <1>7, <1>8, <1>9

LEMMA RxDoneReception ==
    ASSUME NEW e, NEW n, Reception(e, n), e.bRxFrameReady
    PROVE  Reception(RxDone(e), n)
  <1>1. IsDriver(e) /\ ~e.bRxActive
    BY DEF Reception
  <1>2. PICK h, length, status :
           /\ RxDone(e) = SendResponse(h, length, status)
           /\ length \in 0 .. CommSize /\ Taken(h, e)
           /\ \/ h.decoded = e.decoded
              \/ /\ e.nRxErr = "none" /\ e.crcOK
                 /\ h.decoded = <<e.buf[0]>> \o [i \in 1 .. e.buf[1][1] |-> e.buf[i + 1]]
    BY <1>1, RxDoneLemma
  <1>3. HasRun(h, n)
    <2>1. CASE h.decoded = e.decoded
      BY <2>1 DEF Reception, HasRun
    <2>2. CASE /\ e.nRxErr = "none" /\ e.crcOK
               /\ h.decoded = <<e.buf[0]>> \o [i \in 1 .. e.buf[1][1] |-> e.buf[i + 1]]
      <3>1. Holds(e, n)
        BY <2>2 DEF Reception
      <3>2. PICK i \in DOMAIN Requests :
               /\ i <= n /\ e.buf[0] = Code(Requests[i].cmd)
               /\ [k \in 1 .. e.buf[1][1] |-> e.buf[k + 1]] = Bytes(Requests[i].args)
        BY <3>1, HeldLemma
      <3> QED BY <2>2, <3>2 DEF HasRun
    <2> QED BY <1>2, <2>1, <2>2
  <1>4. Reception(h, n) /\ ~h.bRxActive /\ ~h.bRxFrameReady
    BY <1>1, <1>2, <1>3 DEF Taken, SameTx, SameMode, Reception, DeviceOK
  <1>5. PICK g : g = SendResponse(h, length, status)
    OBVIOUS
  <1>6. Responding(g, h)
    BY <1>4, <1>5, SendLemma DEF Reception
  <1> QED BY <1>2, <1>4, <1>5, <1>6, RespondingReception

-----------------------------------------------------------------------------
(* The driver's handlers.                                                  *)

LEMMA StopReception ==
    ASSUME NEW e, NEW n, Reception(e, n)
    PROVE  Reception(TxCanOrStop(e), n)
  <1>1. PICK g : g = [e EXCEPT !.txInt = FALSE]
    OBVIOUS
  <1>2. IsDriver(g) /\ SameRx(g, e) /\ g.txmb = e.txmb
    BY <1>1 DEF Reception, IsDriver, SameRx
  <1>3. Reception(g, n)
    BY <1>2, SameReception DEF Reception, DeviceOK
  <1> QED BY <1>1, <1>3, TxCanReception DEF TxCanOrStop

LEMMA ProcessCanTxReception ==
    ASSUME NEW e, NEW n, Reception(e, n)
    PROVE  Reception(ProcessCanTx(e), n)
  <1>1. PICK g : g = PrepareTxFrame(e)
    OBVIOUS
  <1>2. IsDriver(g) /\ SameRx(g, e) /\ g.txmb = e.txmb
    BY <1>1 DEF Reception, IsDriver, SameRx, PrepareTxFrame
  <1>3. Reception(g, n)
    BY <1>2, SameReception DEF Reception, DeviceOK
  <1> QED BY <1>1, <1>3, StopReception DEF ProcessCanTx

LEMMA PcReception ==
    ASSUME NEW e, NEW n, Reception(e, n), NEW pc
    PROVE  Reception([e EXCEPT !.pc = pc], n)
  <1>1. PICK g : g = [e EXCEPT !.pc = pc]
    OBVIOUS
  <1>2. IsDriver(g) /\ SameRx(g, e) /\ g.txmb = e.txmb
    BY <1>1 DEF Reception, IsDriver, SameRx
  <1> QED BY <1>1, <1>2, SameReception DEF Reception, DeviceOK

LEMMA SendNowReception ==
    ASSUME NEW e, NEW n, Reception(e, n)
    PROVE  Reception(SendNow(e), n)
  BY PcReception, ProcessCanTxReception DEF SendNow

\* What was received is there to be read.
LEMMA FrameThere ==
    ASSUME NEW e, NEW n, Reception(e, n), HasRxFrame(e)
    PROVE  GetRxFrameLen(e).rxmsg # <<>>
  <1>1. CASE e.device = "mscan"
    BY <1>1 DEF GetRxFrameLen, MscanGetRxFrameLen, HasRxFrame, Reception, IsDriver, DeviceOK
  <1>2. CASE e.device # "mscan"
    <2>1. PICK s : s = IF e.mode = "poll" THEN [e EXCEPT !.rxFlag = FALSE] ELSE e
      OBVIOUS
    <2>2. IsDriver(s) /\ s.rxmsg = e.rxmsg
      BY <2>1 DEF Reception, IsDriver
    <2>3. (e.mode # "poll" \/ e.rxFlag) /\ (e.rxmsg # <<>> \/ e.rxmb # <<>>)
      BY <1>2 DEF HasRxFrame, NoFrame
    <2>4. GetRxFrameLen(e) = IF e.rxmsg = <<>> THEN [s EXCEPT !.rxmsg = e.rxmb] ELSE s
      BY <1>2, <2>1, <2>3 DEF GetRxFrameLen, FlexGetRxFrameLen, NoFrame
    <2>5. [s EXCEPT !.rxmsg = e.rxmb].rxmsg = e.rxmb
      BY <2>2 DEF IsDriver
    <2> QED BY <2>2, <2>3, <2>4, <2>5
  <1> QED BY <1>1, <1>2

LEMMA ProcessCanRxReception ==
    ASSUME NEW e, NEW n, Reception(e, n)
    PROVE  Reception(ProcessCanRx(e), n)
  <1>1. PICK g : g = GetRxFrameLen(e)
    OBVIOUS
  <1>2. Reception(g, n)
    BY <1>1, GetLemma, AcknowledgedReception DEF Reception
  <1>3. ASSUME NEW h, NEW x, Reception(h, n) PROVE Reception([h EXCEPT !.rxInt = x], n)
    <2>1. PICK k : k = [h EXCEPT !.rxInt = x]
      OBVIOUS
    <2>2. IsDriver(k) /\ SameRx(k, h) /\ k.txmb = h.txmb
      BY <1>3, <2>1 DEF Reception, IsDriver, SameRx
    <2> QED BY <1>3, <2>1, <2>2, SameReception DEF Reception, DeviceOK
  <1>4. PICK f : f = IF CanReceive(g) THEN [RxCan(g) EXCEPT !.rxInt = TRUE] ELSE [g EXCEPT !.rxInt = FALSE]
    OBVIOUS
  <1>5. ProcessCanRx(e) = IF ~HasRxFrame(e) THEN g
                          ELSE IF e.mode = "long" /\ f.bRxFrameReady THEN SendNow(RxDone(f)) ELSE f
    BY <1>1, <1>4 DEF ProcessCanRx
  <1>6. ASSUME HasRxFrame(e) PROVE Reception(f, n)
    <2>1. g.rxmsg # <<>>
      BY <1>1, <1>6, FrameThere
    <2>2. CanReceive(g) => Reception(RxCan(g), n)
      BY <1>2, <2>1, RxCanReception
    <2> QED BY <1>2, <1>3, <1>4, <2>2
  <1>7. ASSUME HasRxFrame(e), f.bRxFrameReady PROVE Reception(SendNow(RxDone(f)), n)
    BY <1>6, <1>7, RxDoneReception, SendNowReception
  <1> QED BY <1>2, <1>5, <1>6, <1>7

LEMMA ReceivedReception ==
    ASSUME NEW e, NEW n, Reception(e, n), NEW f, FromHost(f, n)
    PROVE  Reception(Received(e, f), n)
  <1>1. PICK m : m = <<f>> /\ m # <<>> /\ Slot(m, n)
    <2>1. PICK m : m = <<f>>
      OBVIOUS
    <2>2. m[1] = f /\ m # <<>>
      BY <2>1
    <2>3. Slot(m, n)
      BY <2>1, <2>2 DEF Slot
    <2> QED BY <2>1, <2>2, <2>3
  <1>2. PICK g : g = [e EXCEPT !.rxmb = m, !.rxFlag = TRUE]
    OBVIOUS
  <1>3. Reception(g, n)
    BY <1>1, <1>2 DEF Reception, IsDriver, DeviceOK, Stored, Holds, HasRun
  <1>4. PICK h : h = [e EXCEPT !.rxmsg = m]
    OBVIOUS
  <1>5. Reception(h, n)
    BY <1>1, <1>4 DEF Reception, IsDriver, DeviceOK, Stored, Holds, HasRun
  <1>6. Reception(ProcessCanRx(h), n)
    BY <1>5, ProcessCanRxReception
  <1>7. e.device \in {"flexcan", "mscan", "zephyr"}
    BY DEF Reception, DeviceOK, Devices
  <1>8. CASE e.device = "flexcan"
    BY <1>1, <1>2, <1>3, <1>8 DEF Received
  <1>9. CASE e.device = "mscan"
    BY <1>1, <1>2, <1>3, <1>9 DEF Received
  <1>10. CASE e.device = "zephyr"
    BY <1>1, <1>4, <1>6, <1>10 DEF Received
  <1> QED BY <1>7, <1>8, <1>9, <1>10

LEMMA CanIsrReception ==
    ASSUME NEW e, NEW n, Reception(e, n)
    PROVE  Reception(CanIsr(e), n)
  <1>1. PICK g : g = IF e.rxFlag THEN ProcessCanRx(e) ELSE e
    OBVIOUS
  <1>2. Reception(g, n)
    BY <1>1, ProcessCanRxReception
  <1>3. PICK h : h = [g EXCEPT !.txBusy = FALSE]
    OBVIOUS
  <1>4. IsDriver(h) /\ SameRx(h, g) /\ h.txmb = g.txmb
    BY <1>2, <1>3 DEF Reception, IsDriver, SameRx
  <1>5. Reception(h, n)
    BY <1>2, <1>4, SameReception DEF Reception, DeviceOK
  <1>6. Reception(ProcessCanTx(g), n) /\ Reception(ProcessCanTx(h), n)
    BY <1>2, <1>5, ProcessCanTxReception
  <1> QED BY <1>1, <1>2, <1>3, <1>6 DEF CanIsr, FlexCanIsr, MscanIsr

LEMMA TransmittedReception ==
    ASSUME NEW e, NEW n, Reception(e, n), e.txmb # <<>>
    PROVE  Reception(Transmitted(e), n) /\ FromHost(Head(e.txmb), n)
  <1>1. PICK k \in Nat : k = Len(e.txmb) /\ e.txmb = [i \in 1 .. k |-> e.txmb[i]] /\ \A i \in 1 .. k : ~e.txmb[i].m2s
    BY DEF Reception, DeviceOK, Own, IsSequence
  <1>2. k >= 1
    BY <1>1
  <1>3. PICK t : t = Tail(e.txmb)
    OBVIOUS
  <1>4. Own(t) /\ FromHost(Head(e.txmb), n)
    <2>1. PICK s : s = e.txmb
      OBVIOUS
    <2>2. PICK S : S = {s[i] : i \in 1 .. k}
      OBVIOUS
    <2>3. s \in Seq(S) /\ Len(s) = k
      BY <1>1, <2>1, <2>2
    <2>4. t \in Seq(S) /\ Len(t) = k - 1 /\ (\A i \in 1 .. k - 1 : t[i] = s[i + 1]) /\ Head(s) = s[1]
      BY <1>2, <1>3, <2>1, <2>3
    <2>5. t \in [1 .. Len(t) -> S] /\ Len(t) \in Nat
      BY <2>4, LenProperties
    <2>6. t = [i \in 1 .. Len(t) |-> t[i]]
      BY <2>5, Zenon
    <2>7. \A i \in 1 .. k : ~s[i].m2s
      BY <1>1, <2>1
    <2>8. ~Head(s).m2s
      <3>1. 1 \in 1 .. k
        BY <1>2
      <3> QED BY <2>4, <2>7, <3>1
    <2>9. \A i \in 1 .. Len(t) : ~t[i].m2s
      <3>1. \A i \in 1 .. k - 1 : i + 1 \in 1 .. k
        OBVIOUS
      <3> QED BY <2>4, <2>7, <3>1
    <2> QED BY <2>1, <2>5, <2>6, <2>8, <2>9 DEF Own, IsSequence, FromHost
  <1>5. ASSUME NEW g, IsDriver(g), SameRx(g, e), g.txmb = t PROVE Reception(g, n)
    BY <1>4, <1>5, SameReception
  <1>6. PICK a : a = [e EXCEPT !.txmb = t]
    OBVIOUS
  <1>7. PICK b, c, x, y :
           /\ b = [a EXCEPT !.txFlag = TRUE] /\ c = [a EXCEPT !.txBusy = FALSE]
           /\ x = [c EXCEPT !.work = "submitted"] /\ y = [c EXCEPT !.nTxTodo = 0, !.aborted = TRUE]
    OBVIOUS
  <1>8. /\ IsDriver(b) /\ SameRx(b, e) /\ b.txmb = t
        /\ IsDriver(c) /\ SameRx(c, e) /\ c.txmb = t
        /\ IsDriver(x) /\ SameRx(x, e) /\ x.txmb = t
        /\ IsDriver(y) /\ SameRx(y, e) /\ y.txmb = t
    <2>1. IsDriver(a) /\ SameRx(a, e) /\ a.txmb = t
      BY <1>6 DEF Reception, IsDriver, SameRx
    <2>2. IsDriver(b) /\ SameRx(b, e) /\ b.txmb = t
      BY <1>7, <2>1 DEF IsDriver, SameRx
    <2>3. IsDriver(c) /\ SameRx(c, e) /\ c.txmb = t
      BY <1>7, <2>1 DEF IsDriver, SameRx
    <2>4. IsDriver(x) /\ SameRx(x, e) /\ x.txmb = t
      BY <1>7, <2>3 DEF IsDriver, SameRx
    <2>5. IsDriver(y) /\ SameRx(y, e) /\ y.txmb = t
      BY <1>7, <2>3 DEF IsDriver, SameRx
    <2> QED BY <2>2, <2>3, <2>4, <2>5
  <1>9. Reception(b, n) /\ Reception(c, n) /\ Reception(x, n) /\ Reception(y, n)
    BY <1>5, <1>8
  <1>10. Reception(Listen(y), n)
    BY <1>8, <1>9, ListenLemma, ListeningReception
  <1>11. Transmitted(e) =
            CASE e.device = "flexcan" -> b
              [] e.device = "mscan" -> c
              [] e.device = "zephyr" -> TxCallback(a)
    BY <1>3, <1>6, <1>7 DEF Transmitted
  <1>12. TxCallback(a) \in {x, c, Listen(y)}
    BY <1>7 DEF TxCallback, AbortCanTx
  <1>13. e.device \in {"flexcan", "mscan", "zephyr"}
    BY DEF Reception, DeviceOK, Devices
  <1> QED BY <1>4, <1>9, <1>10, <1>11, <1>12, <1>13

LEMMA TxHandlerReception ==
    ASSUME NEW e, NEW n, Reception(e, n)
    PROVE  Reception(TxHandler(e), n)
  <1>1. PICK g : g = [e EXCEPT !.work = "idle"]
    OBVIOUS
  <1>2. IsDriver(g) /\ SameRx(g, e) /\ g.txmb = e.txmb
    BY <1>1 DEF Reception, IsDriver, SameRx
  <1>3. Reception(g, n)
    BY <1>2, SameReception DEF Reception, DeviceOK
  <1> QED BY <1>1, <1>3, ProcessCanTxReception DEF TxHandler

LEMMA InitReception ==
    ASSUME NEW device \in Devices, NEW mode, NEW fd, NEW n
    PROVE  Reception(CanInit(device, mode, fd), n)
  <1>1. PICK buf : buf = [i \in 0 .. CommSize + 3 |-> Plain(0)]
    OBVIOUS
  <1>2. PICK e : e =
           [device |-> device, mode |-> mode, fd |-> fd, work |-> "idle",
            bTxActive |-> FALSE, bTxFirst |-> FALSE, bRxActive |-> FALSE, bRxFirst |-> FALSE, bRxTgl1 |-> FALSE,
            bRxFrameReady |-> FALSE, bRxSpecial |-> FALSE,
            nTxTodo |-> 0, pTxBuff |-> 0, txTgl |-> FALSE, nRxCtr |-> 0, nRxErr |-> "none",
            crc |-> <<>>, crcOK |-> FALSE, pc |-> "idle",
            buf |-> buf,
            rxmb |-> NoFrame, rxmsg |-> NoFrame, rxFlag |-> FALSE, rxInt |-> FALSE,
            txmb |-> <<>>, txBusy |-> FALSE, txFlag |-> FALSE, txInt |-> FALSE,
            decoded |-> <<>>, answer |-> <<>>, sent |-> <<>>, aborted |-> FALSE]
    OBVIOUS
  <1>3. CanInit(device, mode, fd) = Listen(e)
    BY <1>1, <1>2 DEF CanInit
  <1>4. /\ IsDriver(e) /\ e.device = device /\ e.txmb = <<>> /\ e.rxFlag = FALSE /\ e.rxmb = <<>> /\ e.rxmsg = <<>>
        /\ e.buf = buf /\ e.nRxCtr = 0 /\ e.bRxActive = FALSE /\ e.bRxFrameReady = FALSE /\ e.decoded = <<>>
    BY <1>2 DEF IsDriver, NoFrame
  <1>5. DOMAIN buf = 0 .. CommSize + 3 /\ 0 \in 0 .. CommSize + 1
    BY <1>1, CanAssumption
  <1>6. DeviceOK(e)
    BY <1>4 DEF DeviceOK, Own, IsSequence
  <1>7. Reception(e, n)
    BY <1>4, <1>5, <1>6 DEF Reception, Slot, HasRun
  <1> QED BY <1>3, <1>4, <1>7, ListenLemma, ListeningReception
-----------------------------------------------------------------------------
(* The commands.                                                           *)

\* The host has sent what is on the bus.
OnTheBus(n) == IsSequence(line) /\ \A j \in 1 .. Len(line) : FromHost(line[j], n)

DecodeInv == /\ request \in 1 .. Len(Requests) + 1
             /\ Reception(d, request) /\ OnTheBus(request)

LEMMA LaterReception ==
    ASSUME NEW e, NEW n \in Nat, NEW m \in Nat, m >= n, Reception(e, n)
    PROVE  Reception(e, m)
  <1>1. \A i \in DOMAIN Requests : i \in Nat /\ (i <= n => i <= m)
    BY RequestLemma
  <1>2. \A f : FromHost(f, n) => FromHost(f, m)
    BY <1>1 DEF FromHost
  <1>3. Holds(e, n) => Holds(e, m)
    BY <1>1 DEF Holds
  <1>4. HasRun(e, n) => HasRun(e, m)
    BY <1>1 DEF HasRun
  <1> QED BY <1>2, <1>3, <1>4 DEF Reception, Slot

LEMMA RequestsCounted == Len(Requests) \in Nat /\ DOMAIN Requests = 1 .. Len(Requests)
  <1>1. PICK R : R = [cmd : ToSet(Codes), args : Seq(Nat), status : ToSet(Codes), data : Seq(Nat)]
    OBVIOUS
  <1>2. Requests \in Seq(R)
    BY <1>1, RequestsAssumption
  <1> QED BY <1>2

LEMMA LineLemma ==
    ASSUME DecodeInv, line # <<>>
    PROVE  FromHost(Head(line), request) /\ IsSequence(Tail(line))
           /\ \A j \in 1 .. Len(Tail(line)) : FromHost(Tail(line)[j], request)
  <1>1. PICK k \in Nat : k = Len(line) /\ line = [i \in 1 .. k |-> line[i]]
                           /\ \A i \in 1 .. k : FromHost(line[i], request)
    BY DEF DecodeInv, OnTheBus, IsSequence
  <1>2. k >= 1
    BY <1>1
  <1>3. PICK s, t : s = line /\ t = Tail(line)
    OBVIOUS
  <1>4. PICK S : S = {s[i] : i \in 1 .. k}
    OBVIOUS
  <1>5. s \in Seq(S) /\ Len(s) = k
    BY <1>1, <1>3, <1>4
  <1>6. t \in Seq(S) /\ Len(t) = k - 1 /\ (\A i \in 1 .. k - 1 : t[i] = s[i + 1]) /\ Head(s) = s[1]
    BY <1>2, <1>3, <1>5
  <1>7. t \in [1 .. Len(t) -> S] /\ Len(t) \in Nat
    BY <1>6, LenProperties
  <1>8. t = [i \in 1 .. Len(t) |-> t[i]]
    BY <1>7, Zenon
  <1>9. \A i \in 1 .. k : FromHost(s[i], request)
    BY <1>1, <1>3
  <1>10. FromHost(Head(s), request)
    <2>1. 1 \in 1 .. k
      BY <1>2
    <2> QED BY <1>6, <1>9, <2>1
  <1>11. \A i \in 1 .. Len(t) : FromHost(t[i], request)
    <2>1. \A i \in 1 .. k - 1 : i + 1 \in 1 .. k
      OBVIOUS
    <2> QED BY <1>6, <1>9, <2>1
  <1> QED BY <1>3, <1>7, <1>8, <1>10, <1>11 DEF IsSequence

LEMMA DecodeInit == Init => DecodeInv
  <1> SUFFICES ASSUME Init PROVE DecodeInv
    OBVIOUS
  <1>1. PICK b \in Builds, fd \in FdCaps : d = CanInit(b[1], b[2], fd)
    BY DEF Init
  <1>2. b[1] \in Devices
    BY <1>1, LinkAssumption
  <1>3. Reception(d, request)
    BY <1>1, <1>2, InitReception
  <1>4. request \in 1 .. Len(Requests) + 1
    BY RequestsCounted DEF Init
  <1>5. OnTheBus(request)
    BY DEF Init, OnTheBus, IsSequence
  <1> QED BY <1>3, <1>4, <1>5 DEF DecodeInv

LEMMA SendDecode ==
    ASSUME DecodeInv, NEW n \in DOMAIN Requests, n >= request, Send(n), request' = n
    PROVE  DecodeInv'
  <1>1. line' = Command[n] /\ d' = d
    BY DEF Send
  <1>2. request \in Nat /\ n \in Nat /\ n \in 1 .. Len(Requests) + 1
    BY RequestsCounted DEF DecodeInv
  <1>3. Reception(d, n)
    BY <1>2, LaterReception DEF DecodeInv
  <1>4. IsSequence(Command[n]) /\ DOMAIN Command[n] = 1 .. Len(Command[n])
    BY CommandLemma DEF IsSequence
  <1>5. \A j \in 1 .. Len(Command[n]) : FromHost(Command[n][j], n)
    BY <1>2, <1>4 DEF FromHost
  <1> QED BY <1>1, <1>2, <1>3, <1>4, <1>5 DEF DecodeInv, OnTheBus

LEMMA DecodeStep == DecodeInv /\ [Next]_vars => DecodeInv'
  <1> SUFFICES ASSUME DecodeInv, [Next]_vars PROVE DecodeInv'
    OBVIOUS
  <1>1. request \in 1 .. Len(Requests) + 1 /\ Reception(d, request) /\ OnTheBus(request)
    BY DEF DecodeInv
  <1>2. ASSUME Reception(d', request), UNCHANGED <<line, request>> PROVE DecodeInv'
    BY <1>1, <1>2 DEF DecodeInv, OnTheBus
  <1>3. ASSUME NEW e, Reception(e, request), Drive(e) PROVE DecodeInv'
    BY <1>2, <1>3 DEF Drive
  <1>4. CASE PollDriven
    <2>1. PICK e : e = ProcessCanTx(ProcessCanRx(d)) /\ Drive(IF e.bRxFrameReady THEN SendNow(RxDone(e)) ELSE e)
      BY <1>4 DEF PollDriven
    <2>2. Reception(e, request)
      BY <1>1, <2>1, ProcessCanRxReception, ProcessCanTxReception
    <2>3. e.bRxFrameReady => Reception(SendNow(RxDone(e)), request)
      BY <2>2, RxDoneReception, SendNowReception
    <2> QED BY <1>3, <2>1, <2>2, <2>3
  <1>5. CASE PollRxDone
    BY <1>1, <1>3, <1>5, RxDoneReception DEF PollRxDone
  <1>6. CASE PollPrepareTx
    BY <1>1, <1>3, <1>6, PcReception DEF PollPrepareTx
  <1>7. CASE PollTxCan
    BY <1>1, <1>3, <1>7, PcReception, StopReception DEF PollTxCan
  <1>8. CASE IsrHandle
    BY <1>1, <1>3, <1>8, CanIsrReception DEF IsrHandle
  <1>9. CASE IsrClear
    <2>1. PICK x, y : x = (d.rxFlag /\ ~isr.rx) /\ y = (d.txFlag /\ ~isr.tx)
      OBVIOUS
    <2>2. PICK e : e = [d EXCEPT !.rxFlag = x, !.txFlag = y]
      OBVIOUS
    <2>3. IsDriver(d)
      BY <1>1 DEF Reception
    <2>4. Drive(e)
      BY <1>9, <2>1, <2>2 DEF IsrClear
    <2>5. /\ IsDriver(e) /\ e.rxmb = d.rxmb /\ e.rxmsg = d.rxmsg /\ e.buf = d.buf /\ e.nRxCtr = d.nRxCtr
          /\ e.bRxActive = d.bRxActive /\ e.bRxFirst = d.bRxFirst /\ e.crc = d.crc /\ e.bRxFrameReady = d.bRxFrameReady
          /\ e.nRxErr = d.nRxErr /\ e.crcOK = d.crcOK /\ e.decoded = d.decoded /\ e.device = d.device
          /\ e.txmb = d.txmb /\ e.rxFlag = x
      BY <2>2, <2>3 DEF IsDriver
    <2>6. DeviceOK(e)
      BY <1>1, <2>1, <2>5 DEF DeviceOK, Reception
    <2>7. Reception(e, request)
      BY <1>1, <2>5, <2>6 DEF Reception, Stored, Holds, HasRun
    <2> QED BY <1>3, <2>4, <2>7
  <1>10. CASE Work
    BY <1>1, <1>3, <1>10, TxHandlerReception DEF Work
  <1>11. CASE Deliver
    <2>1. Reception(d', request)
      BY <1>1, <1>11, LineLemma, ReceivedReception DEF Deliver
    <2> QED BY <1>1, <1>11, <2>1, LineLemma DEF Deliver, DecodeInv, OnTheBus
  <1>12. CASE Lose
    BY <1>1, <1>12, LineLemma DEF Lose, DecodeInv, OnTheBus
  <1>13. CASE Transmit
    <2>1. Reception(Transmitted(d), request) /\ FromHost(Head(d.txmb), request)
      BY <1>1, <1>13, TransmittedReception DEF Transmit
    <2>2. Reception(Received(Transmitted(d), Head(d.txmb)), request)
      BY <2>1, ReceivedReception
    <2>3. Reception(d', request)
      BY <1>13, <2>1, <2>2 DEF Transmit
    <2> QED BY <1>2, <1>13, <2>3 DEF Transmit
  <1>14. CASE HostSend
    <2>1. request \in DOMAIN Requests /\ Send(request) /\ request' = request /\ request >= request
      BY <1>1, <1>14, RequestsCounted DEF HostSend, Todo
    <2> QED BY <2>1, SendDecode
  <1>15. CASE HostSendEarly
    <2>1. request \in DOMAIN Requests /\ Send(request) /\ request' = request /\ request >= request
      BY <1>1, <1>15, RequestsCounted DEF HostSendEarly, Todo
    <2> QED BY <2>1, SendDecode
  <1>16. CASE HostNext
    <2>1. request \in DOMAIN Requests /\ request' = request + 1
      BY <1>16 DEF HostNext, Answered, Todo
    <2>2. CASE request + 1 \in DOMAIN Requests
      <3>1. Send(request + 1) /\ request + 1 >= request
        BY <1>1, <1>16, <2>2, RequestsCounted DEF HostNext
      <3> QED BY <2>1, <2>2, <3>1, SendDecode
    <2>3. CASE request + 1 \notin DOMAIN Requests
      <3>1. d' = d /\ line' = line /\ line = <<>>
        BY <1>16, <2>3 DEF HostNext
      <3>2. request \in Nat /\ request + 1 \in Nat /\ request + 1 >= request /\ request + 1 \in 1 .. Len(Requests) + 1
        BY <2>1, RequestsCounted
      <3>3. Reception(d, request + 1)
        BY <1>1, <3>2, LaterReception
      <3>4. IsSequence(line') /\ \A j \in 1 .. Len(line') : FromHost(line'[j], request + 1)
        BY <3>1 DEF IsSequence
      <3> QED BY <2>1, <3>1, <3>2, <3>3, <3>4 DEF DecodeInv, OnTheBus
    <2> QED BY <2>2, <2>3
  <1>17. CASE UNCHANGED vars
    BY <1>2, <1>1, <1>17 DEF vars
  <1> QED BY <1>4, <1>5, <1>6, <1>7, <1>8, <1>9, <1>10, <1>11, <1>12, <1>13, <1>14, <1>15, <1>16, <1>17
       DEF Next, Poll, Isr, Finished

\* A command is executed only if the host has sent it, byte for byte, whatever
\* devices, commands and sizes there are (DecodedAsSent).
THEOREM CommandsAreDecodedAsSent == Spec => []DecodedAsSent
  <1>1. DecodeInv => DecodedAsSent
    BY DEF DecodeInv, Reception, HasRun, DecodedAsSent
  <1> QED BY <1>1, DecodeInit, DecodeStep, PTL DEF Spec
-----------------------------------------------------------------------------
(* Messages of frames.                                                     *)

LEMMA LeastNat ==
    ASSUME NEW S \in SUBSET Nat, S # {}
    PROVE  \E i \in S : \A j \in S : i <= j
  <1> DEFINE R == {ss \in Nat \X Nat : ss[1] < ss[2]}
  <1>1. IsWellFoundedOn(R, Nat)
    BY NatLessThanWellFounded DEF OpToRel
  <1> HIDE DEF R
  <1>2. PICK i \in S : \A j \in S : <<j, i>> \notin R
    BY <1>1, WFMin
  <1>3. ASSUME NEW j \in S PROVE i <= j
    <2>1. ~(j < i)
      BY <1>2 DEF R
    <2> QED BY <2>1
  <1> QED BY <1>3

\* f[i] is the message of the first i frames.
Messages(f, s, m) == \A i \in 1 .. m : f[i] = IF i = 1 THEN s[i].data ELSE f[i - 1] \o s[i].data

LEMMA MessagesExist ==
    ASSUME NEW s, NEW n \in Nat
    PROVE  \E f : Messages(f, s, n)
  <1> DEFINE Bad == {m \in Nat : ~\E f : Messages(f, s, m)}
  <1>1. Bad = {}
    <2>1. SUFFICES ASSUME Bad # {} PROVE FALSE
      OBVIOUS
    <2>2. PICK m \in Bad : \A j \in Bad : m <= j
      <3>1. Bad \in SUBSET Nat
        OBVIOUS
      <3> HIDE DEF Bad
      <3> QED BY <2>1, <3>1, LeastNat
    <2>3. CASE m = 0
      <3>1. Messages(<<>>, s, 0)
        BY DEF Messages
      <3> QED BY <2>2, <2>3, <3>1
    <2>4. CASE m # 0
      <3>1. m \in Nat /\ m - 1 \in Nat /\ m - 1 \notin Bad
        BY <2>2, <2>4
      <3>2. PICK f : Messages(f, s, m - 1)
        BY <3>1
      <3>3. PICK g : g = [i \in 1 .. m |-> IF i = m THEN (IF m = 1 THEN s[m].data ELSE f[m - 1] \o s[m].data) ELSE f[i]]
        OBVIOUS
      <3>4. ASSUME NEW i \in 1 .. m PROVE g[i] = IF i = 1 THEN s[i].data ELSE g[i - 1] \o s[i].data
        <4>1. CASE i = m
          <5>1. m # 1 => g[m - 1] = f[m - 1]
            BY <3>1, <3>3
          <5> QED BY <3>3, <4>1, <5>1
        <4>2. CASE i # m
          <5>1. i \in 1 .. m - 1 /\ (i # 1 => i - 1 \in 1 .. m - 1 /\ g[i - 1] = f[i - 1])
            BY <3>1, <3>3, <4>2
          <5>2. f[i] = IF i = 1 THEN s[i].data ELSE f[i - 1] \o s[i].data
            BY <3>2, <5>1 DEF Messages
          <5> QED BY <3>3, <4>2, <5>1, <5>2
        <4> QED BY <4>1, <4>2
      <3>5. Messages(g, s, m)
        BY <3>4 DEF Messages
      <3> QED BY <2>2, <3>5
    <2> QED BY <2>3, <2>4
  <1> QED BY <1>1

\* The message of some frames is the last of those.
LEMMA MessageLemma ==
    ASSUME NEW s, IsSequence(s)
    PROVE  /\ Len(s) = 0 => Message(s) = <<>>
           /\ Len(s) # 0 => \E f : Messages(f, s, Len(s)) /\ Message(s) = f[Len(s)]
  <1>1. PICK n \in Nat : n = Len(s) /\ s = [i \in 1 .. n |-> s[i]]
    BY DEF IsSequence
  <1>2. PICK D : D = [i \in 1 .. n |-> s[i].data]
    OBVIOUS
  <1>3. Message(s) = FlattenSeq(D)
    <2>1. DOMAIN s = 1 .. n
      BY <1>1
    <2> QED BY <1>2, <2>1 DEF Message
  <1>4. Len(D) = n /\ (n = 0 => D = <<>>)
    <2>1. PICK S : S = {D[i] : i \in 1 .. n}
      OBVIOUS
    <2>2. \A i \in 1 .. n : D[i] \in S
      BY <2>1
    <2>3. D \in Seq(S) /\ Len(D) = n
      BY <1>2, <2>2
    <2> QED BY <2>3, EmptySeq
  <1>5. CASE n = 0
    BY <1>1, <1>3, <1>4, <1>5 DEF FlattenSeq
  <1>6. CASE n # 0
    <2> DEFINE Loop(f) == [i \in 1 .. n |-> IF i = 1 THEN D[i] ELSE f[i - 1] \o D[i]]
    <2>1. PICK h : h = CHOOSE f : f = Loop(f)
      OBVIOUS
    <2>2. h = Loop(h)
      <3>1. PICK f : Messages(f, s, n)
        BY MessagesExist
      <3>2. PICK g : g = [i \in 1 .. n |-> f[i]]
        OBVIOUS
      <3>3. ASSUME NEW i \in 1 .. n PROVE g[i] = IF i = 1 THEN D[i] ELSE g[i - 1] \o D[i]
        <4>1. i # 1 => i - 1 \in 1 .. n /\ g[i - 1] = f[i - 1]
          BY <3>2
        <4> QED BY <1>2, <3>1, <3>2, <4>1 DEF Messages
      <3>4. g = [i \in 1 .. n |-> g[i]]
        BY <3>2
      <3>5. g = Loop(g)
        BY <3>3, <3>4
      <3> HIDE DEF Loop
      <3> QED BY <2>1, <3>5
    <2>3. FlattenSeq(D) = h[n]
      BY <1>4, <1>6, <2>1 DEF FlattenSeq
    <2>4. Messages(h, s, n)
      BY <1>2, <2>2 DEF Messages
    <2> QED BY <1>1, <1>3, <1>6, <2>3, <2>4
  <1> QED BY <1>5, <1>6

LEMMA NextMessage ==
    ASSUME NEW s, IsSequence(s), NEW f, IsSequence(f.data)
    PROVE  Message(Append(s, f)) = Message(s) \o f.data
  <1>1. PICK t : t = Append(s, f)
    OBVIOUS
  <1>2. PICK n \in Nat : n = Len(s)
    BY DEF IsSequence
  <1>3. IsSequence(t) /\ Len(t) = n + 1 /\ t[n + 1] = f /\ \A i \in 1 .. n : t[i] = s[i]
    BY <1>1, <1>2, AppendedLemma
  <1>4. PICK h : Messages(h, t, n + 1) /\ Message(t) = h[n + 1]
    BY <1>2, <1>3, MessageLemma
  <1>5. CASE n = 0
    <2>1. Message(t) = f.data
      BY <1>3, <1>4, <1>5 DEF Messages
    <2>2. Message(s) = <<>>
      BY <1>2, <1>5, MessageLemma
    <2>3. <<>> \o f.data = f.data
      <3>1. PICK S : S = {f.data[i] : i \in 1 .. Len(f.data)}
        OBVIOUS
      <3>2. f.data \in Seq(S)
        BY <3>1, ElementsLemma
      <3> QED BY <3>2, ConcatEmptySeq
    <2> QED BY <1>1, <2>1, <2>2, <2>3
  <1>6. CASE n # 0
    <2>1. PICK k : Messages(k, s, n) /\ Message(s) = k[n]
      BY <1>2, <1>6, MessageLemma
    <2> DEFINE Bad == {i \in 1 .. n : h[i] # k[i]}
    <2>2. Bad = {}
      <3>1. SUFFICES ASSUME Bad # {} PROVE FALSE
        OBVIOUS
      <3>2. PICK i \in Bad : \A j \in Bad : i <= j
        <4>1. Bad \in SUBSET Nat
          OBVIOUS
        <4> HIDE DEF Bad
        <4> QED BY <3>1, <4>1, LeastNat
      <3>3. i \in 1 .. n /\ i \in 1 .. n + 1 /\ t[i] = s[i]
        BY <1>3, <3>2
      <3>4. /\ h[i] = IF i = 1 THEN s[i].data ELSE h[i - 1] \o s[i].data
            /\ k[i] = IF i = 1 THEN s[i].data ELSE k[i - 1] \o s[i].data
        BY <1>4, <2>1, <3>3 DEF Messages
      <3>5. i # 1 => i - 1 \in 1 .. n /\ i - 1 \notin Bad
        BY <3>2
      <3>6. i # 1 => h[i - 1] = k[i - 1]
        BY <3>5
      <3> QED BY <3>2, <3>4, <3>6
    <2>3. h[n] = k[n]
      BY <1>6, <2>2
    <2>4. n + 1 \in 1 .. n + 1 /\ n + 1 # 1 /\ n + 1 - 1 = n
      BY <1>6
    <2>5. h[n + 1] = h[n] \o t[n + 1].data
      <3>1. PICK j : j = n + 1 /\ j \in 1 .. n + 1 /\ j # 1 /\ j - 1 = n
        BY <2>4
      <3>2. h[j] = h[j - 1] \o t[j].data
        BY <1>4, <3>1 DEF Messages
      <3> QED BY <3>1, <3>2
    <2> QED BY <1>1, <1>3, <1>4, <2>1, <2>3, <2>5
  <1> QED BY <1>5, <1>6

LEMMA FirstPart ==
    ASSUME NEW s, IsSequence(s), NEW f
    PROVE  /\ \A i \in 1 .. Len(s) : SubSeq(Append(s, f), 1, i) = SubSeq(s, 1, i)
           /\ SubSeq(Append(s, f), 1, Len(s) + 1) = Append(s, f)
  <1>1. PICK t : t = Append(s, f)
    OBVIOUS
  <1>2. PICK n \in Nat : n = Len(s)
    BY DEF IsSequence
  <1>3. IsSequence(t) /\ Len(t) = n + 1 /\ t[n + 1] = f /\ \A i \in 1 .. n : t[i] = s[i]
    BY <1>1, <1>2, AppendedLemma
  <1>4. ASSUME NEW i \in 1 .. n PROVE SubSeq(t, 1, i) = SubSeq(s, 1, i)
    <2>1. i \in Nat /\ 1 \in Nat /\ 1 >= 1 /\ i <= n /\ i <= n + 1
      OBVIOUS
    <2>2. PICK p, q : p = SubSeq(t, 1, i) /\ q = SubSeq(s, 1, i)
      OBVIOUS
    <2>3. IsPiece(p, t, 1, i) /\ IsPiece(q, s, 1, i)
      BY <1>2, <1>3, <2>1, <2>2, PieceLemma
    <2>4. Len(p) = i /\ Len(q) = i /\ p = [j \in 1 .. i |-> p[j]] /\ q = [j \in 1 .. i |-> q[j]]
      BY <2>1, <2>3 DEF IsPiece, IsSequence
    <2>5. ASSUME NEW j \in 1 .. i PROVE p[j] = q[j]
      <3>1. 1 + j - 1 = j /\ j \in 1 .. n
        BY <2>1
      <3>2. p[j] = t[1 + j - 1] /\ q[j] = s[1 + j - 1]
        BY <2>3, <2>4 DEF IsPiece
      <3> QED BY <1>3, <3>1, <3>2
    <2> QED BY <2>2, <2>4, <2>5
  <1>5. SubSeq(t, 1, n + 1) = t
    <2>1. PICK p : p = SubSeq(t, 1, n + 1)
      OBVIOUS
    <2>2. IsPiece(p, t, 1, n + 1)
      BY <1>3, <2>1, PieceLemma
    <2>3. Len(p) = n + 1 /\ p = [j \in 1 .. n + 1 |-> p[j]] /\ t = [j \in 1 .. n + 1 |-> t[j]]
      BY <1>3, <2>2 DEF IsPiece, IsSequence
    <2>4. ASSUME NEW j \in 1 .. n + 1 PROVE p[j] = t[j]
      <3>1. 1 + j - 1 = j
        OBVIOUS
      <3> QED BY <2>2, <2>3, <3>1 DEF IsPiece
    <2> QED BY <2>1, <2>3, <2>4
  <1> QED BY <1>1, <1>2, <1>4, <1>5
-----------------------------------------------------------------------------
(* Responses.                                                              *)

\* The frames s are a part of the message a, from its beginning.
PartOf(s, a) ==
    LET m == Message(s)
    IN  /\ IsSequence(s) /\ IsSequence(a) /\ IsSequence(m)
        /\ \A i \in 1 .. Len(s) : /\ s[i].fst = (i = 1) /\ s[i].tgl = (i % 2 = 0)
                                  /\ s[i].lst = (Len(Message(SubSeq(s, 1, i))) = Len(a))
        /\ Len(m) <= Len(a) /\ \A i \in 1 .. Len(m) : m[i] = a[i]

\* The bytes of the response that follow c of them are still in the buffer, and
\* nothing is received into it.
Left(e, c) ==
    /\ ~e.bRxFrameReady /\ ~e.bRxActive
    /\ e.nTxTodo \in 1 .. CommSize + 4 /\ e.pTxBuff \in Nat
    /\ c + e.nTxTodo = Len(e.answer)
    /\ \A k \in 0 .. e.nTxTodo - 1 : e.buf[e.pTxBuff + k] = e.answer[c + 1 + k]
    /\ e.bTxFirst = (Len(e.sent) = 0)
    /\ ~e.bTxFirst => e.txTgl = (Len(e.sent) % 2 = 0)

Sending(e) ==
    /\ PartOf(e.sent, e.answer)
    /\ e.bTxActive => Left(e, Len(Message(e.sent)))
    /\ ~e.bTxActive /\ ~e.aborted => Len(Message(e.sent)) = Len(e.answer)

LEMMA NextPart ==
    ASSUME NEW s, NEW a, PartOf(s, a), NEW f, IsSequence(f.data),
           f.fst = (Len(s) = 0), f.tgl = ((Len(s) + 1) % 2 = 0),
           f.lst = (Len(Message(s)) + Len(f.data) = Len(a)), Len(Message(s)) + Len(f.data) <= Len(a),
           \A j \in 1 .. Len(f.data) : f.data[j] = a[Len(Message(s)) + j]
    PROVE  PartOf(Append(s, f), a) /\ Len(Message(Append(s, f))) = Len(Message(s)) + Len(f.data)
  <1>1. PICK t, m, l : t = Append(s, f) /\ m = Message(s) /\ l = m \o f.data
    OBVIOUS
  <1>2. IsSequence(s) /\ IsSequence(a) /\ IsSequence(m)
    BY <1>1 DEF PartOf
  <1>3. PICK n \in Nat, c \in Nat, z \in Nat, x \in Nat : n = Len(s) /\ c = Len(m) /\ z = Len(f.data) /\ x = Len(a)
    BY <1>2 DEF IsSequence
  <1>4. Message(t) = l
    BY <1>1, <1>2, NextMessage
  <1>5. Joins(l, m, f.data)
    BY <1>1, <1>2, AppendLemma
  <1>6. /\ IsSequence(l) /\ Len(l) = c + z
        /\ \A i \in 1 .. c : l[i] = m[i]
        /\ \A i \in 1 .. z : l[c + i] = f.data[i]
    BY <1>3, <1>5 DEF Joins
  <1>7. IsSequence(t) /\ Len(t) = n + 1 /\ t[n + 1] = f /\ \A i \in 1 .. n : t[i] = s[i]
    BY <1>1, <1>2, <1>3, AppendedLemma
  <1>8. (\A i \in 1 .. n : SubSeq(t, 1, i) = SubSeq(s, 1, i)) /\ SubSeq(t, 1, n + 1) = t
    BY <1>1, <1>2, <1>3, FirstPart
  <1>9. ASSUME NEW i \in 1 .. n + 1
        PROVE  t[i].fst = (i = 1) /\ t[i].tgl = (i % 2 = 0) /\ t[i].lst = (Len(Message(SubSeq(t, 1, i))) = x)
    <2>1. CASE i \in 1 .. n
      <3>1. s[i].fst = (i = 1) /\ s[i].tgl = (i % 2 = 0) /\ s[i].lst = (Len(Message(SubSeq(s, 1, i))) = x)
        BY <1>3, <2>1 DEF PartOf
      <3>2. t[i] = s[i] /\ SubSeq(t, 1, i) = SubSeq(s, 1, i)
        BY <1>7, <1>8, <2>1
      <3> QED BY <3>1, <3>2
    <2>2. CASE i = n + 1
      <3>1. t[i] = f /\ SubSeq(t, 1, i) = t /\ ((i = 1) = (n = 0))
        BY <1>7, <1>8, <2>2
      <3>2. Len(Message(t)) = c + z
        BY <1>4, <1>6
      <3> QED BY <1>1, <1>3, <2>2, <3>1, <3>2
    <2> QED BY <2>1, <2>2
  <1>10. ASSUME NEW i \in 1 .. c + z PROVE l[i] = a[i]
    <2>1. CASE i <= c
      <3>1. i \in 1 .. c
        BY <2>1
      <3> QED BY <1>1, <1>3, <1>6, <3>1 DEF PartOf
    <2>2. CASE i > c
      <3>1. i - c \in 1 .. z /\ i = c + (i - c)
        BY <2>2
      <3> QED BY <1>1, <1>3, <1>6, <3>1
    <2> QED BY <2>1, <2>2
  <1> QED BY <1>1, <1>2, <1>3, <1>4, <1>6, <1>7, <1>9, <1>10 DEF PartOf

LEMMA MaxExists ==
    ASSUME NEW N \in Nat, NEW S \in SUBSET (0 .. N), S # {}
    PROVE  MaxOf(S) \in S
  <1> DEFINE T == {N - m : m \in S}
  <1>1. T \in SUBSET Nat /\ T # {}
    <2>1. PICK m \in S : TRUE
      OBVIOUS
    <2>2. N - m \in T
      OBVIOUS
    <2>3. \A x \in S : N - x \in Nat
      OBVIOUS
    <2> QED BY <2>2, <2>3
  <1>2. PICK t \in T : \A x \in T : t <= x
    <2> HIDE DEF T
    <2> QED BY <1>1, LeastNat
  <1>3. PICK m \in S : t = N - m
    BY <1>2
  <1>4. \A x \in S : N - m <= N - x
    BY <1>2, <1>3
  <1>5. \A x \in S : x <= m
    BY <1>4
  <1> QED BY <1>5 DEF MaxOf

LEMMA LengthLemma ==
    ASSUME NEW e, NEW n \in Nat \ {0}, e.nTxTodo = n
    PROVE  TxLength(e) \in 1 .. n
  <1>1. PICK m \in Int : m = GetMaxCANFrameLen(e.fd, n + 1) /\ m >= 2
    <2> DEFINE fitting == {x \in FdLengths : x <= n + 1}
    <2>1. CASE e.fd /\ n + 1 >= FdMin /\ fitting # {}
      <3>1. ClassicLen \in Nat /\ ClassicLen >= 2 /\ Size8 \in Nat /\ FdLengths \subseteq ClassicLen + 1 .. Size8
        BY CanAssumption
      <3>2. fitting \in SUBSET (0 .. Size8) /\ \A x \in fitting : x \in Int /\ x >= 2
        <4>1. \A x \in ClassicLen + 1 .. Size8 : x \in 0 .. Size8 /\ x \in Int /\ x >= 2
          BY <3>1
        <4>2. \A x \in fitting : x \in ClassicLen + 1 .. Size8
          BY <3>1
        <4> HIDE DEF fitting
        <4> QED BY <4>1, <4>2
      <3>3. GetMaxCANFrameLen(e.fd, n + 1) = MaxOf(fitting)
        BY <2>1 DEF GetMaxCANFrameLen
      <3> HIDE DEF fitting
      <3>4. MaxOf(fitting) \in fitting
        BY <2>1, <3>1, <3>2, MaxExists
      <3> QED BY <3>2, <3>3, <3>4
    <2>2. CASE ~(e.fd /\ n + 1 >= FdMin /\ fitting # {})
      <3>1. GetMaxCANFrameLen(e.fd, n + 1) = ClassicLen
        BY <2>2 DEF GetMaxCANFrameLen
      <3> QED BY <3>1, CanAssumption
    <2> QED BY <2>1, <2>2
  <1>2. PICK l \in Int : l = m - 1 /\ l >= 1
    BY <1>1
  <1>3. TxLength(e) = IF n > l THEN l ELSE n
    BY <1>1, <1>2 DEF TxLength
  <1> QED BY <1>2, <1>3

LEMMA TxCanSending ==
    ASSUME NEW e, IsDriver(e), Sending(e), e.bTxActive
    PROVE  Sending(TxCan(e))
  <1>1. PICK m, c : m = Message(e.sent) /\ c = Len(m)
    OBVIOUS
  <1>2. PartOf(e.sent, e.answer) /\ Left(e, c)
    BY <1>1 DEF Sending
  <1>3. PICK n \in Nat \ {0} : n = e.nTxTodo
    BY <1>2, CanAssumption DEF Left
  <1>4. PICK len \in 1 .. n : len = TxLength(e)
    BY <1>3, LengthLemma
  <1>5. PICK f : f = TxFrame(e, len)
    OBVIOUS
  <1>6. PICK g : /\ Pushed(g, e, f, len)
                 /\ TxCan(e) = IF g.nTxTodo = 0 THEN Listen(g) ELSE g
    BY <1>4, <1>5, TxCanLemma
  <1>7. c \in Nat /\ IsSequence(m) /\ Len(e.answer) \in Nat /\ Len(e.sent) \in Nat
    BY <1>1, <1>2 DEF PartOf, IsSequence
  <1>8. PICK data : data = [i \in 1 .. len |-> e.buf[e.pTxBuff + i - 1]]
    OBVIOUS
  <1>9. /\ f.fst = e.bTxFirst /\ f.lst = (len = n) /\ f.tgl = (~e.bTxFirst /\ ~e.txTgl) /\ f.data = data
    <2>1. PICK short, last, t : /\ short = (IF len < ClassicLen THEN len ELSE 0) /\ last = (len = n)
                                /\ t = (~e.bTxFirst /\ ~e.txTgl)
      OBVIOUS
    <2>2. f = [m2s |-> FALSE, spc |-> FALSE, fst |-> e.bTxFirst, lst |-> last, tgl |-> t, len |-> short, data |-> data]
      BY <1>3, <1>5, <1>8, <2>1 DEF TxFrame
    <2> QED BY <2>1, <2>2
  <1>10. IsSequence(data) /\ Len(data) = len
    <2>1. PICK S : S = {data[i] : i \in 1 .. len}
      OBVIOUS
    <2>2. \A i \in 1 .. len : data[i] \in S
      BY <2>1
    <2>3. data = [i \in 1 .. len |-> data[i]]
      BY <1>8
    <2>4. data \in Seq(S) /\ Len(data) = len
      BY <2>2, <2>3
    <2> QED BY <2>3, <2>4 DEF IsSequence
  <1>11. c + n = Len(e.answer) /\ e.pTxBuff \in Nat /\ n <= CommSize + 4
         /\ \A k \in 0 .. n - 1 : e.buf[e.pTxBuff + k] = e.answer[c + 1 + k]
    BY <1>2, <1>3, CanAssumption DEF Left
  <1>12. \A j \in 1 .. len : data[j] = e.answer[c + j]
    <2>1. TAKE j \in 1 .. len
    <2>2. j - 1 \in 0 .. n - 1 /\ e.pTxBuff + j - 1 = e.pTxBuff + (j - 1) /\ c + 1 + (j - 1) = c + j
      BY <1>7, <1>11
    <2>3. e.buf[e.pTxBuff + (j - 1)] = e.answer[c + 1 + (j - 1)]
      BY <1>11, <2>2
    <2> QED BY <1>8, <2>2, <2>3
  <1>13. PICK x \in Nat : x = Len(e.sent) /\ e.bTxFirst = (x = 0) /\ (~e.bTxFirst => e.txTgl = (x % 2 = 0))
    BY <1>2, <1>7 DEF Left
  <1>14. f.fst = (x = 0) /\ f.tgl = ((x + 1) % 2 = 0)
    <2>1. CASE x = 0
      <3>1. (x + 1) % 2 # 0
        BY <2>1
      <3> QED BY <1>9, <1>13, <2>1, <3>1
    <2>2. CASE x # 0
      <3>1. (x + 1) % 2 = 0 <=> ~(x % 2 = 0)
        OBVIOUS
      <3> QED BY <1>9, <1>13, <2>2, <3>1
    <2> QED BY <2>1, <2>2
  <1>15. f.lst = (c + len = Len(e.answer)) /\ c + len <= Len(e.answer)
    BY <1>7, <1>9, <1>11
  <1>16. PartOf(Append(e.sent, f), e.answer) /\ Len(Message(Append(e.sent, f))) = c + len
    <2>1. PICK s, a : s = e.sent /\ a = e.answer
      OBVIOUS
    <2>2. PartOf(s, a) /\ Len(s) = x /\ Len(Message(s)) = c
      BY <1>1, <1>2, <1>13, <2>1
    <2>3. IsSequence(f.data) /\ Len(f.data) = len
      BY <1>9, <1>10
    <2>4. \A j \in 1 .. Len(f.data) : f.data[j] = a[c + j]
      BY <1>9, <1>12, <2>1, <2>3
    <2>5. f.lst = (c + len = Len(a)) /\ c + len <= Len(a)
      BY <1>15, <2>1
    <2>6. PartOf(Append(s, f), a) /\ Len(Message(Append(s, f))) = Len(Message(s)) + Len(f.data)
      <3>1. f.fst = (Len(s) = 0) /\ f.tgl = ((Len(s) + 1) % 2 = 0)
        BY <1>14, <2>2
      <3>2. f.lst = (Len(Message(s)) + Len(f.data) = Len(a)) /\ Len(Message(s)) + Len(f.data) <= Len(a)
        BY <2>2, <2>3, <2>5
      <3>3. \A j \in 1 .. Len(f.data) : f.data[j] = a[Len(Message(s)) + j]
        BY <2>2, <2>4
      <3> QED BY <2>2, <2>3, <3>1, <3>2, <3>3, NextPart, Zenon
    <2> QED BY <2>1, <2>2, <2>3, <2>6
  <1>17. /\ g.sent = Append(e.sent, f) /\ g.answer = e.answer /\ g.nTxTodo = n - len /\ g.pTxBuff = e.pTxBuff + len
         /\ g.bTxFirst = FALSE /\ g.txTgl = f.tgl /\ g.buf = e.buf /\ g.bTxActive = e.bTxActive
         /\ g.bRxFrameReady = e.bRxFrameReady /\ g.bRxActive = e.bRxActive /\ IsDriver(g)
    BY <1>3, <1>6 DEF Pushed, SameRx
  <1>18. CASE len = n
    <2>1. PICK h : h = Listen(g)
      OBVIOUS
    <2>2. Listening(h, g)
      BY <1>17, <2>1, ListenLemma
    <2>3. h.sent = Append(e.sent, f) /\ h.answer = e.answer /\ ~h.bTxActive
      BY <1>17, <2>2 DEF Listening
    <2>4. Sending(h)
      BY <1>11, <1>16, <1>18, <2>3 DEF Sending
    <2> QED BY <1>6, <1>17, <1>18, <2>1, <2>4
  <1>19. CASE len # n
    <2>1. PICK todo \in 1 .. CommSize + 4 : todo = n - len
      BY <1>11, <1>19, CanAssumption
    <2>2. c + len + todo = Len(e.answer) /\ e.pTxBuff + len \in Nat
      <3>1. PICK p \in Nat, l \in Nat : p = e.pTxBuff /\ l = Len(e.answer) /\ c + n = l
        BY <1>7, <1>11
      <3>2. c + len + todo = l /\ p + len \in Nat
        BY <1>7, <2>1, <3>1
      <3> QED BY <3>1, <3>2
    <2>3. ASSUME NEW k \in 0 .. todo - 1 PROVE e.buf[e.pTxBuff + len + k] = e.answer[c + len + 1 + k]
      <3>1. len + k \in 0 .. n - 1 /\ e.pTxBuff + len + k = e.pTxBuff + (len + k) /\ c + len + 1 + k = c + 1 + (len + k)
        BY <1>7, <1>11, <2>1
      <3> QED BY <1>11, <3>1
    <2>4. Len(Append(e.sent, f)) = x + 1
      BY <1>2, <1>13, AppendedLemma DEF PartOf
    <2>5. x + 1 # 0
      OBVIOUS
    <2>6. Left(g, c + len)
      <3>1. ~g.bRxFrameReady /\ ~g.bRxActive
        BY <1>2, <1>17 DEF Left
      <3>2. g.nTxTodo = todo /\ g.pTxBuff \in Nat /\ c + len + todo = Len(g.answer)
        BY <1>17, <2>1, <2>2
      <3>3. \A k \in 0 .. todo - 1 : g.buf[g.pTxBuff + k] = g.answer[c + len + 1 + k]
        BY <1>17, <2>3
      <3>4. Len(g.sent) = x + 1
        BY <1>17, <2>4
      <3>5. g.bTxFirst = (Len(g.sent) = 0)
        BY <1>17, <2>5, <3>4
      <3>6. g.txTgl = (Len(g.sent) % 2 = 0)
        BY <1>14, <1>17, <3>4
      <3> QED BY <2>1, <3>1, <3>2, <3>3, <3>5, <3>6 DEF Left
    <2>7. Sending(g)
      BY <1>16, <1>17, <2>6 DEF Sending
    <2>8. g.nTxTodo # 0
      BY <1>17, <2>1
    <2> QED BY <1>6, <2>7, <2>8
  <1> QED BY <1>18, <1>19

\* Receiving while nothing is sent changes nothing of a response.
LEMMA SameSending ==
    ASSUME NEW e, NEW g, Sending(e), g.sent = e.sent, g.answer = e.answer, g.aborted = e.aborted,
           g.bTxActive = e.bTxActive,
           e.bTxActive => /\ g.nTxTodo = e.nTxTodo /\ g.pTxBuff = e.pTxBuff /\ g.bTxFirst = e.bTxFirst
                          /\ g.txTgl = e.txTgl /\ g.buf = e.buf
                          /\ g.bRxFrameReady = e.bRxFrameReady /\ g.bRxActive = e.bRxActive
    PROVE  Sending(g)
  BY DEF Sending, Left

\* A message of bytes b and its checksum, as it is put into a buffer.
Placed(buf, head, N, start, b, body) ==
    /\ IsSequence(b) /\ DOMAIN head = 0 .. N /\ start + Len(b) <= N
    /\ \A i \in 1 .. Len(b) : b[i] = head[start + i - 1]
    /\ body = [i \in 1 .. Len(b) |-> head[start + i - 1]]
    /\ buf = [head EXCEPT ![start + Len(b)] = Crc8(body)]

InBuffer(buf, start, a, n) ==
    IsSequence(a) /\ Len(a) = n + 1 /\ \A k \in 0 .. n : buf[start + k] = a[1 + k]

LEMMA StoredResponse ==
    ASSUME NEW buf, NEW head, NEW N \in Nat, NEW start \in Nat, NEW b, NEW body, Placed(buf, head, N, start, b, body)
    PROVE  InBuffer(buf, start, WithCrc(b), Len(b))
  <1>0. /\ IsSequence(b) /\ DOMAIN head = 0 .. N /\ start + Len(b) <= N
        /\ \A i \in 1 .. Len(b) : b[i] = head[start + i - 1]
        /\ body = [i \in 1 .. Len(b) |-> head[start + i - 1]]
        /\ buf = [head EXCEPT ![start + Len(b)] = Crc8(body)]
    BY DEF Placed
  <1>1. PICK n \in Nat : n = Len(b) /\ b = [i \in 1 .. n |-> b[i]]
    BY <1>0 DEF IsSequence
  <1>2. body = b
    BY <1>0, <1>1
  <1>3. PICK a : a = Append(b, Crc8(b))
    OBVIOUS
  <1>4. IsSequence(a) /\ Len(a) = n + 1 /\ a[n + 1] = Crc8(b) /\ \A i \in 1 .. n : a[i] = b[i]
    BY <1>0, <1>1, <1>3, AppendedLemma
  <1>5. ASSUME NEW k \in 0 .. n PROVE buf[start + k] = a[1 + k]
    <2>1. CASE k = n
      <3>1. start + n \in DOMAIN head
        BY <1>0, <1>1
      <3>2. buf[start + n] = Crc8(b)
        BY <1>0, <1>1, <1>2, <3>1
      <3> QED BY <1>4, <2>1, <3>2
    <2>2. CASE k # n
      <3>1. k + 1 \in 1 .. n /\ start + (k + 1) - 1 = start + k /\ start + k # start + n /\ start + k \in 0 .. N
        BY <1>0, <1>1, <2>2
      <3>2. buf[start + k] = head[start + k]
        BY <1>0, <1>1, <3>1
      <3>3. b[k + 1] = head[start + k]
        BY <1>0, <1>1, <3>1
      <3> QED BY <1>4, <3>1, <3>2, <3>3
    <2> QED BY <2>1, <2>2
  <1> QED BY <1>1, <1>3, <1>4, <1>5 DEF WithCrc, InBuffer

LEMMA ResponseSending ==
    ASSUME NEW e, NEW g, NEW n \in 0 .. CommSize, NEW st, IsDriver(e), ~e.bRxFrameReady, ~e.bRxActive,
           DOMAIN e.buf = 0 .. CommSize + 3, Responding(g, e), ResponseOf(g, e, n, st)
    PROVE  Sending(g)
  <1>0. PICK N \in Nat : N = CommSize + 3 /\ n + 3 <= N + 1 /\ n \in Nat /\ n + 2 <= N
    BY CanAssumption
  <1>1. PICK start \in {0, 1} : start = Start(st)
    BY DEF Start
  <1>2. PICK todo \in Nat : todo = n + 3 - start
    BY <1>0, <1>1
  <1>3. PICK head : head = Head_(e, n, st)
    OBVIOUS
  <1>4. PICK body : body = [i \in 1 .. todo - 1 |-> head[start + i - 1]]
    OBVIOUS
  <1>5. PICK data : data = [i \in 1 .. n |-> e.buf[i + 1]]
    OBVIOUS
  <1>6. /\ g.answer = AnswerMessage(st, data) /\ g.buf = [head EXCEPT ![start + todo - 1] = Crc8(body)]
        /\ g.pTxBuff = start /\ g.nTxTodo = todo
    BY <1>1, <1>2, <1>3, <1>4, <1>5 DEF ResponseOf
  <1>7. IsSequence(data) /\ Len(data) = n
    <2>1. PICK S : S = {data[i] : i \in 1 .. n}
      OBVIOUS
    <2>2. \A i \in 1 .. n : data[i] \in S
      BY <2>1
    <2>3. data = [i \in 1 .. n |-> data[i]]
      BY <1>5
    <2>4. data \in Seq(S) /\ Len(data) = n
      BY <1>0, <2>2, <2>3
    <2> QED BY <2>3, <2>4 DEF IsSequence
  <1>8. PICK t : t = IF VarLen(st) THEN <<Code(st), Plain(n)>> ELSE <<Code(st)>>
    OBVIOUS
  <1>9. PICK b : b = t \o data
    OBVIOUS
  <1>10. g.answer = WithCrc(b)
    BY <1>6, <1>7, <1>8, <1>9 DEF AnswerMessage
  <1>11. IsSequence(t) /\ Len(t) = 2 - start /\ DOMAIN head = 0 .. N
         /\ (\A i \in 1 .. 2 - start : t[i] = head[start + i - 1]) /\ (\A i \in 1 .. n : data[i] = head[i + 1])
    <2>1. PICK p, q : p = Code(st) /\ q = Plain(n)
      OBVIOUS
    <2>2. \A i \in 1 .. n : i + 1 \in 0 .. N /\ i + 1 # 0 /\ i + 1 # 1
      BY <1>0
    <2>3. 0 \in 0 .. N /\ 1 \in 0 .. N /\ DOMAIN e.buf = 0 .. N
      BY <1>0
    <2>4. CASE VarLen(st)
      <3>1. start = 0 /\ t = <<p, q>> /\ head = [e.buf EXCEPT ![0] = p, ![1] = q]
        BY <1>1, <1>3, <1>8, <2>1, <2>4 DEF Start, Head_
      <3>2. t = [i \in 1 .. 2 |-> t[i]] /\ Len(t) = 2 /\ t[1] = p /\ t[2] = q
        BY <3>1
      <3>3. DOMAIN head = 0 .. N /\ head[0] = p /\ head[1] = q /\ \A i \in 1 .. n : head[i + 1] = e.buf[i + 1]
        <4>1. \A x \in 0 .. N : head[x] = IF x = 1 THEN q ELSE IF x = 0 THEN p ELSE e.buf[x]
          BY <2>3, <3>1
        <4>2. DOMAIN head = 0 .. N
          BY <2>3, <3>1
        <4>3. \A i \in 1 .. n : head[i + 1] = e.buf[i + 1]
          BY <2>2, <4>1
        <4> QED BY <2>3, <4>1, <4>2, <4>3
      <3>4. \A i \in 1 .. 2 : i = 1 \/ i = 2
        OBVIOUS
      <3>5. \A i \in 1 .. 2 : t[i] = head[0 + i - 1]
        <4>1. 0 + 1 - 1 = 0 /\ 0 + 2 - 1 = 1
          OBVIOUS
        <4> QED BY <3>2, <3>3, <3>4, <4>1
      <3>6. IsSequence(t) /\ 2 - start = 2
        BY <3>1, <3>2 DEF IsSequence
      <3>7. \A i \in 1 .. n : data[i] = head[i + 1]
        BY <1>5, <3>3
      <3>8. \A i \in 1 .. 2 : t[i] = head[start + i - 1]
        BY <3>1, <3>5
      <3> QED BY <3>2, <3>3, <3>6, <3>7, <3>8
    <2>5. CASE ~VarLen(st)
      <3>1. start = 1 /\ t = <<p>> /\ head = [e.buf EXCEPT ![1] = p]
        BY <1>1, <1>3, <1>8, <2>1, <2>5 DEF Start, Head_
      <3>2. t = [i \in 1 .. 1 |-> t[i]] /\ Len(t) = 1 /\ t[1] = p
        BY <3>1
      <3>3. DOMAIN head = 0 .. N /\ head[1] = p /\ \A i \in 1 .. n : head[i + 1] = e.buf[i + 1]
        BY <2>2, <2>3, <3>1
      <3>4. \A i \in 1 .. 1 : t[i] = head[1 + i - 1]
        BY <3>2, <3>3
      <3> QED BY <1>5, <3>1, <3>2, <3>3, <3>4 DEF IsSequence
    <2> QED BY <2>4, <2>5
  <1>12. Joins(b, t, data)
    BY <1>7, <1>9, <1>11, AppendLemma
  <1>13. PICK l \in Nat : l = n + 2 - start /\ l = todo - 1 /\ start + l = start + todo - 1 /\ start + l <= N
    BY <1>0, <1>1, <1>2
  <1>14. /\ IsSequence(b) /\ Len(b) = l
         /\ \A i \in 1 .. 2 - start : b[i] = t[i]
         /\ \A i \in 1 .. n : b[2 - start + i] = data[i]
    BY <1>0, <1>1, <1>7, <1>11, <1>12, <1>13 DEF Joins
  <1>15. ASSUME NEW i \in 1 .. l PROVE b[i] = head[start + i - 1]
    <2>1. CASE i <= 2 - start
      <3>1. i \in 1 .. 2 - start
        BY <1>1, <2>1
      <3> QED BY <1>11, <1>14, <3>1
    <2>2. CASE i > 2 - start
      <3>1. PICK j \in 1 .. n : i = 2 - start + j /\ j + 1 = start + i - 1
        <4>1. PICK j \in Int : j = i - (2 - start)
          BY <1>1
        <4>2. j \in 1 .. n
          <5>1. i <= n + 2 - start /\ i \in Int /\ start \in Int /\ n \in Int
            BY <1>0, <1>1, <1>13
          <5>2. j <= n /\ j >= 1
            BY <2>2, <4>1, <5>1
          <5> QED BY <5>2
        <4>3. i = 2 - start + j /\ j + 1 = start + i - 1
          BY <1>1, <4>1
        <4> QED BY <4>2, <4>3
      <3>2. b[i] = data[j] /\ data[j] = head[j + 1]
        BY <1>11, <1>14, <3>1
      <3> QED BY <3>1, <3>2
    <2> QED BY <1>1, <2>1, <2>2
  <1>16. body = [i \in 1 .. l |-> head[start + i - 1]] /\ g.buf = [head EXCEPT ![start + l] = Crc8(body)]
    BY <1>4, <1>6, <1>13
  <1>17. start \in Nat
    BY <1>1
  <1>18. PICK a : a = g.answer
    OBVIOUS
  <1>19. IsSequence(a) /\ Len(a) = l + 1 /\ \A k \in 0 .. l : g.buf[start + k] = a[1 + k]
    <2>1. \A i \in 1 .. Len(b) : b[i] = head[start + i - 1]
      BY <1>14, <1>15
    <2>2. body = [i \in 1 .. Len(b) |-> head[start + i - 1]] /\ g.buf = [head EXCEPT ![start + Len(b)] = Crc8(body)]
      BY <1>14, <1>16
    <2>3. start + Len(b) <= N /\ IsSequence(b) /\ DOMAIN head = 0 .. N
      BY <1>11, <1>13, <1>14
    <2>4. PICK buf : buf = g.buf
      OBVIOUS
    <2>5. Placed(buf, head, N, start, b, body)
      BY <2>1, <2>2, <2>3, <2>4 DEF Placed
    <2>6. InBuffer(buf, start, WithCrc(b), Len(b))
      BY <1>0, <1>17, <2>5, StoredResponse
    <2> QED BY <1>10, <1>14, <1>18, <2>4, <2>6 DEF InBuffer
  <1>20. g.sent = <<>> /\ g.bTxActive /\ g.bTxFirst = TRUE /\ ~g.bRxFrameReady /\ ~g.bRxActive
    BY DEF Responding
  <1>21. IsSequence(<<>>) /\ Len(<<>>) = 0
    BY DEF IsSequence
  <1>22. Message(<<>>) = <<>>
    BY <1>21, MessageLemma
  <1>23. PartOf(<<>>, a)
    BY <1>19, <1>21, <1>22 DEF PartOf
  <1>24. Left(g, 0)
    <2>1. todo \in 1 .. CommSize + 4 /\ 0 + todo = Len(a)
      <3>1. CommSize \in Nat
        BY CanAssumption
      <3>2. n <= CommSize /\ todo >= 2 /\ todo <= n + 3
        BY <1>0, <1>1, <1>2, <3>1
      <3>3. todo \in 1 .. CommSize + 4
        BY <1>2, <3>1, <3>2
      <3> QED BY <1>13, <1>19, <3>3
    <2>2. \A k \in 0 .. todo - 1 : g.buf[start + k] = a[0 + 1 + k]
      BY <1>13, <1>19
    <2>3. g.nTxTodo = todo /\ g.pTxBuff = start /\ g.pTxBuff \in Nat /\ g.answer = a
      BY <1>6, <1>17, <1>18
    <2>4. g.bTxFirst = (Len(g.sent) = 0) /\ g.bTxFirst
      BY <1>20, <1>21
    <2>5. \A k \in 0 .. g.nTxTodo - 1 : g.buf[g.pTxBuff + k] = g.answer[0 + 1 + k]
      BY <2>2, <2>3
    <2> QED BY <1>20, <2>1, <2>3, <2>4, <2>5 DEF Left
  <1>25. PartOf(g.sent, g.answer) /\ Len(Message(g.sent)) = 0
    BY <1>18, <1>20, <1>21, <1>22, <1>23
  <1> QED BY <1>20, <1>24, <1>25 DEF Sending
-----------------------------------------------------------------------------
(* What the handlers do to a response and to the device's buffer.          *)

Receiving(e) == e.bRxActive /\ ~e.bRxFirst

\* r is e when a frame of the response has been handed over, and maybe more has
\* changed that nobody will miss.
Gone(r, e) ==
    /\ IsDriver(r) /\ SameMode(r, e) /\ r.pc = e.pc /\ r.work = e.work
    /\ r.rxFlag = e.rxFlag /\ r.txFlag = e.txFlag /\ r.txBusy = TRUE
    /\ ~r.bRxFrameReady /\ ~Receiving(r)
    /\ \E f : r.txmb = Append(e.txmb, f) /\ (f.lst => ~r.bTxActive)

\* r is e with some of what a received frame may change.
Heard(r, e) ==
    /\ SameTx(r, e) /\ (r.rxFlag => e.rxFlag)
    /\ e.bTxActive => r.buf = e.buf /\ r.bRxFrameReady = e.bRxFrameReady /\ r.bRxActive = e.bRxActive

LEMMA GoneLemma ==
    ASSUME NEW e, IsDriver(e), Sending(e), e.bTxActive
    PROVE  Gone(TxCan(e), e) /\ TxCanOrStop(e) = TxCan(e)
  <1>1. PICK c : c = Len(Message(e.sent)) /\ Left(e, c)
    BY DEF Sending
  <1>2. PICK n \in Nat \ {0} : n = e.nTxTodo /\ n <= CommSize + 4
    BY <1>1, CanAssumption DEF Left
  <1>3. PICK len \in 1 .. n : len = TxLength(e)
    BY <1>2, LengthLemma
  <1>4. PICK f : f = TxFrame(e, len)
    OBVIOUS
  <1>5. PICK g : /\ Pushed(g, e, f, len)
                 /\ TxCan(e) = IF g.nTxTodo = 0 THEN Listen(g) ELSE g
    BY <1>3, <1>4, TxCanLemma
  <1>6. f.lst = (len = n)
    <2>1. PICK short, last, t, data :
             /\ short = (IF len < ClassicLen THEN len ELSE 0) /\ last = (len = n)
             /\ t = (~e.bTxFirst /\ ~e.txTgl) /\ data = [i \in 1 .. len |-> e.buf[e.pTxBuff + i - 1]]
      OBVIOUS
    <2>2. f = [m2s |-> FALSE, spc |-> FALSE, fst |-> e.bTxFirst, lst |-> last, tgl |-> t, len |-> short, data |-> data]
      BY <1>2, <1>4, <2>1 DEF TxFrame
    <2> QED BY <2>1, <2>2
  <1>7. g.nTxTodo = n - len
    BY <1>2, <1>5 DEF Pushed
  <1>8. TxCanOrStop(e) = TxCan(e)
    BY <1>2 DEF TxCanOrStop, HasTxData
  <1>9. CASE len = n
    <2>1. PICK h : h = Listen(g)
      OBVIOUS
    <2>2. Listening(h, g)
      BY <1>5, <2>1, ListenLemma DEF Pushed
    <2>3. h.txmb = Append(e.txmb, f) /\ ~h.bTxActive
      BY <1>5, <2>2 DEF Pushed, Listening
    <2>4. Gone(h, e)
      BY <1>5, <2>2, <2>3 DEF Pushed, Listening, SameMode, Gone, Receiving
    <2> QED BY <1>5, <1>7, <1>8, <1>9, <2>1, <2>4
  <1>10. CASE len # n
    <2>1. g.nTxTodo # 0
      BY <1>7, <1>10
    <2>2. Gone(g, e)
      BY <1>1, <1>5, <1>6, <1>10 DEF Pushed, SameRx, Gone, Left, Receiving
    <2> QED BY <1>5, <1>8, <2>1, <2>2
  <1> QED BY <1>9, <1>10

\* ProcessCanTx does nothing, or it sends a frame.
Attempt(r, e) ==
    \/ r = e
    \/ \E h : /\ e.bTxActive /\ CanPrepareTxFrame(e) /\ Gone(r, h) /\ h = PrepareTxFrame(e)

LEMMA PrepareLemma ==
    ASSUME NEW e, IsDriver(e)
    PROVE  LET h == PrepareTxFrame(e)
           IN  /\ IsDriver(h) /\ SameMode(h, e) /\ SameRx(h, e) /\ h.txmb = e.txmb /\ h.pc = e.pc /\ h.work = e.work
               /\ (h.txFlag => e.txFlag) /\ (e.device = "flexcan" /\ e.mode = "poll" => ~h.txFlag)
               /\ h.sent = e.sent /\ h.answer = e.answer /\ h.aborted = e.aborted /\ h.bTxActive = e.bTxActive
               /\ h.nTxTodo = e.nTxTodo /\ h.pTxBuff = e.pTxBuff /\ h.bTxFirst = e.bTxFirst /\ h.txTgl = e.txTgl
  BY DEF IsDriver, SameMode, SameRx, PrepareTxFrame

LEMMA AttemptLemma ==
    ASSUME NEW e, IsDriver(e), Sending(e)
    PROVE  Sending(ProcessCanTx(e)) /\ Attempt(ProcessCanTx(e), e) /\ IsDriver(ProcessCanTx(e))
  <1>1. PICK h : h = PrepareTxFrame(e)
    OBVIOUS
  <1>2. /\ IsDriver(h) /\ SameMode(h, e) /\ SameRx(h, e) /\ h.txmb = e.txmb /\ h.pc = e.pc /\ h.work = e.work
        /\ h.sent = e.sent /\ h.answer = e.answer /\ h.aborted = e.aborted /\ h.bTxActive = e.bTxActive
        /\ h.nTxTodo = e.nTxTodo /\ h.pTxBuff = e.pTxBuff /\ h.bTxFirst = e.bTxFirst /\ h.txTgl = e.txTgl
    BY <1>1, PrepareLemma
  <1>3. Sending(h)
    BY <1>2, SameSending DEF SameRx
  <1>4. ASSUME e.bTxActive
        PROVE  Sending(TxCanOrStop(h)) /\ Gone(TxCanOrStop(h), h)
    BY <1>2, <1>3, <1>4, GoneLemma, TxCanSending
  <1>5. CASE e.bTxActive /\ CanPrepareTxFrame(e)
    <2>1. ProcessCanTx(e) = TxCanOrStop(h)
      BY <1>1, <1>5 DEF ProcessCanTx
    <2> QED BY <1>1, <1>4, <1>5, <2>1 DEF Attempt, Gone
  <1>6. CASE ~(e.bTxActive /\ CanPrepareTxFrame(e))
    <2>1. ProcessCanTx(e) = e
      BY <1>6 DEF ProcessCanTx
    <2> QED BY <2>1 DEF Attempt
  <1> QED BY <1>5, <1>6

LEMMA HeardSending ==
    ASSUME NEW e, NEW r, Sending(e), Heard(r, e)
    PROVE  Sending(r)
  BY SameSending DEF Heard, SameTx

\* The device's buffer has a frame at most, and says that it is busy.
Box(e) ==
    /\ e.device \in Devices /\ (e.device = "zephyr" => e.mode # "poll")
    /\ e.txmb = <<>> \/ e.txmb = <<e.txmb[1]>>
    /\ e.txmb # <<>> => e.txBusy
    /\ e.device = "flexcan" /\ e.mode = "poll" /\ e.txFlag => e.txmb = <<>>

\* r is e after some handlers.
Moved(r, e) ==
    /\ SameMode(r, e) /\ r.work = e.work /\ r.pc \in {e.pc, "idle"}
    /\ (r.txFlag => e.txFlag) /\ (r.rxFlag => e.rxFlag)
    /\ Box(e) => Box(r)
    /\ e.txBusy /\ e.mode # "poll" => r.txBusy /\ r.txmb = e.txmb

LEMMA MovedAgain ==
    ASSUME NEW e, NEW g, NEW r, Moved(g, e), Moved(r, g)
    PROVE  Moved(r, e)
  BY DEF Moved, SameMode

LEMMA SingleLemma ==
    ASSUME NEW f
    PROVE  Append(<<>>, f) = <<f>> /\ <<f>>[1] = f /\ <<f>> # <<>>
  OBVIOUS

LEMMA AttemptMoved ==
    ASSUME NEW e, IsDriver(e), NEW r, Attempt(r, e)
    PROVE  Moved(r, e)
  <1>1. CASE r = e
    BY <1>1 DEF Moved, SameMode
  <1>2. CASE r # e
    <2>1. PICK h : /\ e.bTxActive /\ CanPrepareTxFrame(e) /\ Gone(r, h) /\ h = PrepareTxFrame(e)
      BY <1>2 DEF Attempt
    <2>2. /\ SameMode(h, e) /\ SameRx(h, e) /\ h.txmb = e.txmb /\ h.pc = e.pc /\ h.work = e.work
          /\ (h.txFlag => e.txFlag) /\ (e.device = "flexcan" /\ e.mode = "poll" => ~h.txFlag)
      BY <2>1, PrepareLemma
    <2>3. SameMode(r, e) /\ r.work = e.work /\ r.pc = e.pc /\ (r.txFlag => e.txFlag) /\ (r.rxFlag => e.rxFlag)
      BY <2>1, <2>2 DEF Gone, SameMode, SameRx
    <2>4. ~e.txBusy \/ (e.device # "mscan" /\ e.mode = "poll" /\ e.txFlag)
      BY <2>1 DEF CanPrepareTxFrame, MscanPrepareTxFrame
    <2>5. ASSUME e.txmb = <<>>, Box(e) PROVE Box(r)
      <3>1. PICK f : r.txmb = Append(<<>>, f)
        BY <2>1, <2>2, <2>5 DEF Gone
      <3>2. r.txmb = <<r.txmb[1]>>
        BY <3>1, SingleLemma
      <3>3. r.txBusy /\ (r.device = "flexcan" /\ r.mode = "poll" => ~r.txFlag)
        BY <2>1, <2>2, <2>3 DEF Gone, SameMode
      <3> QED BY <2>3, <2>5, <3>2, <3>3 DEF Box, SameMode
    <2>6. Box(e) => e.txmb = <<>>
      BY <2>4 DEF Box, Devices
    <2>7. e.txBusy /\ e.mode # "poll" => r.txBusy /\ r.txmb = e.txmb
      BY <2>4
    <2>8. Box(e) => Box(r)
      BY <2>5, <2>6
    <2> QED BY <2>3, <2>7, <2>8 DEF Moved
  <1> QED BY <1>1, <1>2

LEMMA HeardMoved ==
    ASSUME NEW e, NEW r, Heard(r, e)
    PROVE  Moved(r, e)
  BY DEF Heard, SameTx, Moved, SameMode, Box

LEMMA HeardAgain ==
    ASSUME NEW e, NEW g, NEW r, Heard(g, e), Heard(r, g)
    PROVE  Heard(r, e)
  BY DEF Heard, SameTx, SameMode

LEMMA FlagsLemma ==
    ASSUME NEW e, IsDriver(e)
    PROVE  /\ AckRxFrame(e).rxFlag => e.rxFlag
           /\ FrameDone(e).rxFlag => e.rxFlag
           /\ GetRxFrameLen(e).rxFlag => e.rxFlag
           /\ e.device # "mscan" /\ e.mode # "poll" /\ e.rxmsg # <<>> => GetRxFrameLen(e) = e
  <1>1. AckRxFrame(e).rxFlag => e.rxFlag
    BY DEF IsDriver, AckRxFrame, MscanAckRxFrame
  <1>2. FrameDone(e).rxFlag => e.rxFlag
    BY DEF IsDriver, FrameDone, AckRxFrame, MscanAckRxFrame
  <1>3. GetRxFrameLen(e).rxFlag => e.rxFlag
    <2>1. CASE e.device = "mscan"
      BY <2>1 DEF IsDriver, GetRxFrameLen, MscanGetRxFrameLen
    <2>2. CASE e.device # "mscan"
      BY <2>2 DEF IsDriver, GetRxFrameLen, FlexGetRxFrameLen
    <2> QED BY <2>1, <2>2
  <1>4. e.device # "mscan" /\ e.mode # "poll" /\ e.rxmsg # <<>> => GetRxFrameLen(e) = e
    BY DEF GetRxFrameLen, FlexGetRxFrameLen, NoFrame
  <1> QED BY <1>1, <1>2, <1>3, <1>4

\* Nothing is being received, or something was before.
Onward(r, e) == Receiving(r) \/ r.bRxFrameReady => Receiving(e) \/ e.bRxFrameReady

LEMMA RxCanHeard ==
    ASSUME NEW e, IsDriver(e), CanReceive(e), ~e.bTxActive
    PROVE  /\ Heard(RxCan(e), e)
           /\ ~(e.rxmsg[1].m2s /\ e.rxmsg[1].fst) => Onward(RxCan(e), e)
  <1>1. PICK f : f = e.rxmsg[1]
    OBVIOUS
  <1>2. ASSUME NEW x, IsDriver(x), SameTx(x, e), x.rxFlag => e.rxFlag
        PROVE  Heard(AckRxFrame(x), e) /\ Heard(FrameDone(x), e)
    <2>1. PICK a, b : a = AckRxFrame(x) /\ b = FrameDone(x)
      OBVIOUS
    <2>2. SameTx(a, x) /\ SameTx(b, x) /\ (a.rxFlag => x.rxFlag) /\ (b.rxFlag => x.rxFlag)
      BY <1>2, <2>1, AckLemma, DoneLemma, FlagsLemma DEF Acknowledged
    <2>3. SameTx(a, e) /\ SameTx(b, e)
      BY <1>2, <2>2 DEF SameTx, SameMode
    <2> QED BY <1>2, <2>1, <2>2, <2>3 DEF Heard
  <1>3. ASSUME NEW x, IsDriver(x), SameTx(x, e), x.rxFlag => e.rxFlag
        PROVE  Heard(TakeFrame(x, f), e)
    <2>1. PICK n : n = IF f.len = 0 THEN Len(f.data) ELSE f.len
      OBVIOUS
    <2>2. PICK y : y = [x EXCEPT !.nRxErr = "CANMSGERR"]
      OBVIOUS
    <2>3. IsDriver(y) /\ SameTx(y, e) /\ (y.rxFlag => e.rxFlag)
      BY <1>3, <2>2 DEF IsDriver, SameTx, SameMode
    <2>4. Heard(FrameDone(y), e)
      BY <1>2, <2>3
    <2>5. PICK b, c, s, ok :
             /\ b = [k \in DOMAIN x.buf |-> IF k - x.nRxCtr \in 0 .. n - 1 THEN f.data[k - x.nRxCtr + 1] ELSE x.buf[k]]
             /\ c = x.nRxCtr + n
             /\ s = x.crc \o SubSeq(f.data, 1, IF f.lst THEN n - 1 ELSE n)
             /\ ok = (f.data[n] = Crc8(s))
      OBVIOUS
    <2>6. PICK h, g1, g2 : /\ h = [x EXCEPT !.buf = b, !.nRxCtr = c]
                           /\ g1 = [h EXCEPT !.crc = s, !.crcOK = ok] /\ g2 = [h EXCEPT !.crc = s]
      OBVIOUS
    <2>7. /\ IsDriver(g1) /\ SameTx(g1, e) /\ (g1.rxFlag => e.rxFlag)
          /\ IsDriver(g2) /\ SameTx(g2, e) /\ (g2.rxFlag => e.rxFlag)
      <3>1. IsDriver(h) /\ SameTx(h, e) /\ (h.rxFlag => e.rxFlag)
        BY <1>3, <2>6 DEF IsDriver, SameTx, SameMode
      <3>2. IsDriver(g1) /\ SameTx(g1, e) /\ (g1.rxFlag => e.rxFlag)
        BY <2>6, <3>1 DEF IsDriver, SameTx, SameMode
      <3>3. IsDriver(g2) /\ SameTx(g2, e) /\ (g2.rxFlag => e.rxFlag)
        BY <2>6, <3>1 DEF IsDriver, SameTx, SameMode
      <3> QED BY <3>2, <3>3
    <2>8. TakeBytes(x, f, n) = IF f.lst THEN FrameDone(g1) ELSE AckRxFrame(g2)
      <3>1. h = [x EXCEPT !.buf = [k \in DOMAIN x.buf |-> IF k - x.nRxCtr \in 0 .. n - 1
                                                           THEN f.data[k - x.nRxCtr + 1] ELSE x.buf[k]],
                          !.nRxCtr = x.nRxCtr + n]
        BY <2>5, <2>6
      <3> QED BY <2>5, <2>6, <3>1 DEF TakeBytes
    <2>9. Heard(TakeBytes(x, f, n), e)
      BY <1>2, <2>7, <2>8
    <2>10. TakeFrame(x, f) \in {FrameDone(y), TakeBytes(x, f, n)}
      BY <2>1, <2>2 DEF TakeFrame
    <2> QED BY <2>4, <2>9, <2>10
  <1>4. PICK v, x, y, z : /\ v = ~e.bRxTgl1 /\ x = [e EXCEPT !.nRxErr = "CANTGLERR"]
                          /\ y = [e EXCEPT !.bRxTgl1 = v] /\ z = FirstFrame(e, f)
    OBVIOUS
  <1>5. IsDriver(e) /\ SameTx(e, e)
    BY DEF SameTx, SameMode
  <1>6. IsDriver(x) /\ SameTx(x, e) /\ (x.rxFlag => e.rxFlag)
    BY <1>4 DEF IsDriver, SameTx, SameMode
  <1>7. IsDriver(y) /\ SameTx(y, e) /\ (y.rxFlag => e.rxFlag)
    BY <1>4 DEF IsDriver, SameTx, SameMode
  <1>8. IsDriver(z) /\ SameTx(z, e) /\ (z.rxFlag => e.rxFlag)
    BY <1>4 DEF IsDriver, SameTx, SameMode, FirstFrame
  <1>9. Heard(AckRxFrame(e), e) /\ Heard(FrameDone(x), e) /\ Heard(TakeFrame(y, f), e) /\ Heard(TakeFrame(z, f), e)
    BY <1>2, <1>3, <1>5, <1>6, <1>7, <1>8
  <1>10. PICK a, b, c, t : a = AckRxFrame(e) /\ b = TakeFrame(z, f) /\ c = FrameDone(x) /\ t = TakeFrame(y, f)
    OBVIOUS
  <1>11. RxCan(e) =
            LET first == e.bRxFirst \/ f.fst
            IN  CASE ~f.m2s -> a
                  [] f.m2s /\ first /\ (~f.fst \/ f.tgl) -> a
                  [] f.m2s /\ first /\ f.fst /\ ~f.tgl -> b
                  [] f.m2s /\ ~first /\ f.tgl # e.bRxTgl1 -> c
                  [] OTHER -> t
    BY <1>1, <1>4, <1>10 DEF RxCan
  <1>12. a.bRxActive = e.bRxActive /\ a.bRxFrameReady = e.bRxFrameReady /\ a.bRxFirst = e.bRxFirst
    BY <1>10, AckLemma DEF Acknowledged
  <1>13. Onward(a, e)
    BY <1>12 DEF Onward, Receiving
  <1>14. CASE ~f.m2s
    BY <1>9, <1>10, <1>11, <1>13, <1>14
  <1>15. CASE f.m2s /\ (e.bRxFirst \/ f.fst)
    BY <1>1, <1>9, <1>10, <1>11, <1>13, <1>15
  <1>16. CASE f.m2s /\ ~(e.bRxFirst \/ f.fst)
    <2>1. Receiving(e)
      BY <1>16 DEF CanReceive, Receiving
    <2> QED BY <1>9, <1>10, <1>11, <1>16, <2>1 DEF Onward
  <1> QED BY <1>14, <1>15, <1>16

-----------------------------------------------------------------------------
(* The handlers.                                                           *)

\* g is e when the response to a command has been prepared.
Replied(g, e) ==
    /\ IsDriver(g) /\ SameMode(g, e) /\ g.work = e.work /\ g.pc = "check"
    /\ g.rxFlag = e.rxFlag /\ g.txFlag = e.txFlag /\ g.txmb = e.txmb /\ g.txBusy = e.txBusy
    /\ g.bTxActive /\ ~g.bRxFrameReady /\ ~g.bRxActive

LEMMA RxDoneSending ==
    ASSUME NEW e, NEW n, Reception(e, n), e.bRxFrameReady
    PROVE  Sending(RxDone(e)) /\ Replied(RxDone(e), e)
  <1>1. IsDriver(e) /\ ~e.bRxActive /\ DOMAIN e.buf = 0 .. CommSize + 3
    BY DEF Reception
  <1>2. PICK h, length, status :
           /\ RxDone(e) = SendResponse(h, length, status)
           /\ length \in 0 .. CommSize /\ Taken(h, e)
    BY <1>1, RxDoneLemma
  <1>3. IsDriver(h) /\ ~h.bRxActive /\ ~h.bRxFrameReady /\ DOMAIN h.buf = 0 .. CommSize + 3
    BY <1>1, <1>2 DEF Taken, SameTx
  <1>4. PICK m, st : /\ m = (IF length <= Size8 - 4 THEN length ELSE 0)
                     /\ st = (IF length <= Size8 - 4 THEN status ELSE "RSPBUFFOVF")
    OBVIOUS
  <1>5. m \in 0 .. CommSize
    BY <1>2, <1>4, CanAssumption
  <1>6. PICK g : g = SendResponse(h, length, status)
    OBVIOUS
  <1>7. Responding(g, h) /\ ResponseOf(g, h, m, st)
    BY <1>3, <1>4, <1>6, SendLemma
  <1>8. Sending(g)
    BY <1>3, <1>5, <1>7, ResponseSending
  <1>9. Replied(g, e)
    BY <1>2, <1>3, <1>7 DEF Responding, Taken, SameTx, SameMode, Replied
  <1> QED BY <1>2, <1>6, <1>8, <1>9

LEMMA SendNowMoved ==
    ASSUME NEW e, NEW n, Reception(e, n), e.bRxFrameReady
    PROVE  Sending(SendNow(RxDone(e))) /\ Moved(SendNow(RxDone(e)), e)
  <1>1. PICK g : g = RxDone(e) /\ Sending(g) /\ Replied(g, e)
    BY RxDoneSending
  <1>2. PICK h : h = [g EXCEPT !.pc = "idle"]
    OBVIOUS
  <1>3. /\ IsDriver(h) /\ h.pc = "idle" /\ SameMode(h, e) /\ h.work = e.work
        /\ h.rxFlag = e.rxFlag /\ h.txFlag = e.txFlag /\ h.txmb = e.txmb /\ h.txBusy = e.txBusy
        /\ h.sent = g.sent /\ h.answer = g.answer /\ h.aborted = g.aborted /\ h.bTxActive = g.bTxActive
        /\ h.nTxTodo = g.nTxTodo /\ h.pTxBuff = g.pTxBuff /\ h.bTxFirst = g.bTxFirst
        /\ h.txTgl = g.txTgl /\ h.buf = g.buf /\ h.bRxFrameReady = g.bRxFrameReady /\ h.bRxActive = g.bRxActive
    <2>1. IsDriver(g)
      BY <1>1 DEF Replied
    <2>2. /\ IsDriver(h) /\ h.pc = "idle" /\ SameMode(h, g) /\ h.work = g.work
          /\ h.rxFlag = g.rxFlag /\ h.txFlag = g.txFlag /\ h.txmb = g.txmb /\ h.txBusy = g.txBusy
          /\ h.sent = g.sent /\ h.answer = g.answer /\ h.aborted = g.aborted /\ h.bTxActive = g.bTxActive
          /\ h.nTxTodo = g.nTxTodo /\ h.pTxBuff = g.pTxBuff /\ h.bTxFirst = g.bTxFirst
          /\ h.txTgl = g.txTgl /\ h.buf = g.buf /\ h.bRxFrameReady = g.bRxFrameReady /\ h.bRxActive = g.bRxActive
      BY <1>2, <2>1 DEF IsDriver, SameMode
    <2> QED BY <1>1, <2>2 DEF Replied, SameMode
  <1>4. Sending(h)
    BY <1>1, <1>3, SameSending
  <1>5. Moved(h, e)
    BY <1>3 DEF Moved, SameMode, Box
  <1>6. Sending(ProcessCanTx(h)) /\ Moved(ProcessCanTx(h), h)
    BY <1>3, <1>4, AttemptLemma, AttemptMoved
  <1>7. SendNow(g) = ProcessCanTx(h)
    BY <1>1, <1>2 DEF SendNow, Replied
  <1> QED BY <1>1, <1>5, <1>6, <1>7, MovedAgain

LEMMA RxIntHeard ==
    ASSUME NEW e, IsDriver(e), NEW x
    PROVE  Heard([e EXCEPT !.rxInt = x], e) /\ Onward([e EXCEPT !.rxInt = x], e)
           /\ [e EXCEPT !.rxInt = x].bRxFrameReady = e.bRxFrameReady
  <1>1. PICK k : k = [e EXCEPT !.rxInt = x]
    OBVIOUS
  <1>2. SameTx(k, e) /\ k.rxFlag = e.rxFlag /\ k.buf = e.buf /\ k.bRxFrameReady = e.bRxFrameReady
        /\ k.bRxActive = e.bRxActive /\ k.bRxFirst = e.bRxFirst
    BY <1>1 DEF IsDriver, SameTx, SameMode
  <1> QED BY <1>1, <1>2 DEF Heard, Onward, Receiving

LEMMA OnwardAgain ==
    ASSUME NEW e, NEW g, NEW r, Onward(g, e), Onward(r, g)
    PROVE  Onward(r, e)
  BY DEF Onward

LEMMA ProcessCanRxMoved ==
    ASSUME NEW e, NEW n, Reception(e, n), Sending(e)
    PROVE  LET r == ProcessCanRx(e)
           IN  /\ Sending(r) /\ Moved(r, e)
               /\ e.mode # "long" => Heard(r, e)
               /\ e.device = "zephyr" /\ e.mode = "short" /\ e.rxmsg # <<>> /\ ~(e.rxmsg[1].m2s /\ e.rxmsg[1].fst) =>
                     Onward(r, e)
  <1>0. IsDriver(e)
    BY DEF Reception
  <1>1. PICK g : g = GetRxFrameLen(e)
    OBVIOUS
  <1>2. Acknowledged(g, e) /\ g.bRxActive = e.bRxActive /\ g.bRxFrameReady = e.bRxFrameReady /\ (g.rxFlag => e.rxFlag)
    BY <1>0, <1>1, GetLemma, FlagsLemma
  <1>3. Reception(g, n) /\ IsDriver(g) /\ Heard(g, e) /\ Onward(g, e)
    BY <1>2, AcknowledgedReception DEF Acknowledged, SameTx, Heard, Onward, Receiving
  <1>4. Sending(g)
    BY <1>3, HeardSending
  <1>5. PICK f : f = IF CanReceive(g) THEN [RxCan(g) EXCEPT !.rxInt = TRUE] ELSE [g EXCEPT !.rxInt = FALSE]
    OBVIOUS
  <1>6. ProcessCanRx(e) = IF ~HasRxFrame(e) THEN g
                          ELSE IF e.mode = "long" /\ f.bRxFrameReady THEN SendNow(RxDone(f)) ELSE f
    BY <1>1, <1>5 DEF ProcessCanRx
  <1>7. ASSUME HasRxFrame(e)
        PROVE  /\ Reception(f, n) /\ Heard(f, e)
               /\ ~(g.rxmsg[1].m2s /\ g.rxmsg[1].fst) => Onward(f, e)
    <2>1. g.rxmsg # <<>>
      BY <1>1, <1>7, FrameThere
    <2>2. ASSUME NEW h, NEW x, Reception(h, n) PROVE Reception([h EXCEPT !.rxInt = x], n)
      <3>1. PICK k : k = [h EXCEPT !.rxInt = x]
        OBVIOUS
      <3>2. IsDriver(k) /\ SameRx(k, h) /\ k.txmb = h.txmb
        BY <2>2, <3>1 DEF Reception, IsDriver, SameRx
      <3> QED BY <2>2, <3>1, <3>2, SameReception DEF Reception, DeviceOK
    <2>3. CASE CanReceive(g)
      <3>1. ~g.bTxActive
        BY <1>4, <2>3 DEF Sending, Left, CanReceive
      <3>2. PICK h : h = RxCan(g)
        OBVIOUS
      <3>3. Heard(h, g) /\ (~(g.rxmsg[1].m2s /\ g.rxmsg[1].fst) => Onward(h, g)) /\ Reception(h, n)
        BY <1>3, <2>1, <2>3, <3>1, <3>2, RxCanHeard, RxCanReception
      <3>4. IsDriver(h) /\ f = [h EXCEPT !.rxInt = TRUE]
        BY <1>5, <2>3, <3>2, <3>3 DEF Reception
      <3>5. Heard(f, h) /\ Onward(f, h) /\ Reception(f, n)
        BY <2>2, <3>3, <3>4, RxIntHeard
      <3>6. Heard(f, e)
        BY <1>3, <3>3, <3>5, HeardAgain
      <3> QED BY <1>3, <3>3, <3>5, <3>6, OnwardAgain
    <2>4. CASE ~CanReceive(g)
      <3>1. f = [g EXCEPT !.rxInt = FALSE]
        BY <1>5, <2>4
      <3>2. Heard(f, g) /\ Onward(f, g) /\ Reception(f, n)
        BY <1>3, <2>2, <3>1, RxIntHeard
      <3> QED BY <1>3, <3>2, HeardAgain, OnwardAgain
    <2> QED BY <2>3, <2>4
  <1>8. ASSUME HasRxFrame(e), f.bRxFrameReady
        PROVE  Sending(SendNow(RxDone(f))) /\ Moved(SendNow(RxDone(f)), e)
    <2>1. Reception(f, n) /\ Heard(f, e)
      BY <1>7, <1>8
    <2>2. Sending(SendNow(RxDone(f))) /\ Moved(SendNow(RxDone(f)), f)
      BY <1>8, <2>1, SendNowMoved
    <2> QED BY <2>1, <2>2, HeardMoved, MovedAgain
  <1>9. HasRxFrame(e) => Sending(f) /\ Moved(f, e)
    BY <1>7, HeardSending, HeardMoved
  <1>10. Sending(g) /\ Moved(g, e)
    BY <1>3, <1>4, HeardMoved
  <1>11. Sending(ProcessCanRx(e)) /\ Moved(ProcessCanRx(e), e)
    BY <1>6, <1>8, <1>9, <1>10
  <1>12. e.mode # "long" => Heard(ProcessCanRx(e), e)
    BY <1>3, <1>6, <1>7
  <1>13. ASSUME e.device = "zephyr", e.mode = "short", e.rxmsg # <<>>, ~(e.rxmsg[1].m2s /\ e.rxmsg[1].fst)
         PROVE  Onward(ProcessCanRx(e), e)
    <2>1. g = e
      BY <1>0, <1>1, <1>13, FlagsLemma
    <2> QED BY <1>3, <1>6, <1>7, <1>13, <2>1
  <1> QED BY <1>11, <1>12, <1>13

\* What the drivers that are no Zephyr's do with a received frame.
LEMMA ReceivedMoved ==
    ASSUME NEW e, NEW n, Reception(e, n), Sending(e), NEW f
    PROVE  LET r == Received(e, f)
           IN  /\ (e.device = "zephyr" => FromHost(f, n)) => Sending(r)
               /\ e.device # "zephyr" => SameTx(r, e)
               /\ e.device = "zephyr" /\ FromHost(f, n) /\ ~e.rxFlag => Moved(r, e) /\ (e.mode # "long" => Heard(r, e))
               /\ e.device = "zephyr" /\ e.mode = "short" /\ FromHost(f, n) /\ ~(f.m2s /\ f.fst) => Onward(r, e)
  <1>1. PICK m : m = <<f>> /\ m[1] = f /\ m # <<>>
    BY SingleLemma
  <1>2. IsDriver(e)
    BY DEF Reception
  <1>3. PICK g : g = [e EXCEPT !.rxmb = m, !.rxFlag = TRUE]
    OBVIOUS
  <1>4. SameTx(g, e) /\ g.buf = e.buf /\ g.bRxFrameReady = e.bRxFrameReady /\ g.bRxActive = e.bRxActive
    BY <1>2, <1>3 DEF IsDriver, SameTx, SameMode
  <1>5. Sending(g)
    BY <1>4, SameSending DEF SameTx
  <1>6. PICK h : h = [e EXCEPT !.rxmsg = m]
    OBVIOUS
  <1>7. /\ SameTx(h, e) /\ h.rxFlag = e.rxFlag /\ h.buf = e.buf /\ h.bRxFrameReady = e.bRxFrameReady
        /\ h.bRxActive = e.bRxActive /\ h.bRxFirst = e.bRxFirst /\ h.rxmsg = m
    BY <1>2, <1>6 DEF IsDriver, SameTx, SameMode
  <1>8. Heard(h, e) /\ Onward(h, e)
    BY <1>7 DEF Heard, Onward, Receiving
  <1>9. Sending(h) /\ Moved(h, e)
    BY <1>8, HeardSending, HeardMoved
  <1>10. ASSUME FromHost(f, n) PROVE Reception(h, n)
    <2>1. Slot(m, n)
      BY <1>1, <1>10 DEF Slot
    <2> QED BY <1>6, <2>1 DEF Reception, IsDriver, DeviceOK, Stored, Holds, HasRun
  <1>11. PICK r : r = ProcessCanRx(h)
    OBVIOUS
  <1>12. ASSUME FromHost(f, n)
         PROVE  /\ Sending(r) /\ Moved(r, h) /\ (h.mode # "long" => Heard(r, h))
                /\ h.device = "zephyr" /\ h.mode = "short" /\ h.rxmsg # <<>> /\ ~(h.rxmsg[1].m2s /\ h.rxmsg[1].fst) =>
                      Onward(r, h)
    BY <1>9, <1>10, <1>11, <1>12, ProcessCanRxMoved
  <1>13. ASSUME FromHost(f, n)
         PROVE  /\ Sending(r) /\ Moved(r, e) /\ (e.mode # "long" => Heard(r, e))
                /\ e.device = "zephyr" /\ e.mode = "short" /\ ~(f.m2s /\ f.fst) => Onward(r, e)
    <2>1. h.mode = e.mode /\ h.device = e.device
      BY <1>7 DEF SameTx, SameMode
    <2>2. Moved(r, e)
      BY <1>9, <1>12, <1>13, MovedAgain
    <2>3. e.mode # "long" => Heard(r, e)
      BY <1>8, <1>12, <1>13, <2>1, HeardAgain
    <2>4. ASSUME e.device = "zephyr", e.mode = "short", ~(f.m2s /\ f.fst) PROVE Onward(r, e)
      <3>1. Onward(r, h)
        BY <1>1, <1>7, <1>12, <1>13, <2>1, <2>4
      <3> QED BY <1>8, <3>1, OnwardAgain
    <2> QED BY <1>12, <1>13, <2>2, <2>3, <2>4
  <1>14. e.device \in {"flexcan", "mscan", "zephyr"}
    BY DEF Reception, DeviceOK, Devices
  <1>15. CASE e.device = "zephyr"
    <2>1. Received(e, f) = r
      BY <1>1, <1>6, <1>11, <1>15 DEF Received
    <2> QED BY <1>13, <1>15, <2>1
  <1>16. CASE e.device # "zephyr"
    <2>1. Received(e, f) \in {e, g}
      BY <1>1, <1>3, <1>14, <1>16 DEF Received
    <2>2. SameTx(e, e)
      BY <1>2 DEF SameTx, SameMode
    <2> QED BY <1>4, <1>5, <1>16, <2>1, <2>2
  <1> QED BY <1>15, <1>16

\* The interrupt of a device that says that it has sent only what it has sent.
LEMMA CanIsrMoved ==
    ASSUME NEW e, NEW n, Reception(e, n), Sending(e)
    PROVE  LET r == CanIsr(e)
           IN  /\ Sending(r)
               /\ e.mode = "short" /\ e.device = "flexcan" /\ ~e.txFlag => SameTx(r, e)
               /\ (e.txFlag => e.device = "flexcan" /\ e.mode # "poll" /\ e.txBusy /\ e.txmb = <<>>) /\ Box(e) =>
                     /\ SameMode(r, e) /\ r.work = e.work /\ r.pc \in {e.pc, "idle"}
                     /\ (r.txFlag => e.txFlag) /\ (r.rxFlag => e.rxFlag) /\ Box(r)
  <1>1. PICK g : g = IF e.rxFlag THEN ProcessCanRx(e) ELSE e
    OBVIOUS
  <1>2. IsDriver(e)
    BY DEF Reception
  <1>3. Moved(e, e) /\ Heard(e, e)
    BY <1>2 DEF Moved, SameMode, Heard, SameTx
  <1>4. Sending(g) /\ Moved(g, e) /\ (e.mode # "long" => Heard(g, e)) /\ IsDriver(g)
    <2>1. Reception(g, n)
      BY <1>1, ProcessCanRxReception
    <2>2. CASE e.rxFlag
      BY <1>1, <2>1, <2>2, ProcessCanRxMoved DEF Reception
    <2>3. CASE ~e.rxFlag
      BY <1>1, <1>2, <1>3, <2>3
    <2> QED BY <2>2, <2>3
  <1>5. PICK h : h = [g EXCEPT !.txBusy = FALSE]
    OBVIOUS
  <1>6. /\ IsDriver(h) /\ SameMode(h, g) /\ h.work = g.work /\ h.pc = g.pc /\ h.txFlag = g.txFlag /\ h.rxFlag = g.rxFlag
        /\ h.txmb = g.txmb /\ h.sent = g.sent /\ h.answer = g.answer /\ h.aborted = g.aborted
        /\ h.bTxActive = g.bTxActive
        /\ h.nTxTodo = g.nTxTodo /\ h.pTxBuff = g.pTxBuff /\ h.bTxFirst = g.bTxFirst
        /\ h.txTgl = g.txTgl /\ h.buf = g.buf /\ h.bRxFrameReady = g.bRxFrameReady /\ h.bRxActive = g.bRxActive
    BY <1>4, <1>5 DEF IsDriver, SameMode
  <1>7. Sending(h)
    BY <1>4, <1>6, SameSending
  <1>8. /\ Sending(ProcessCanTx(g)) /\ Moved(ProcessCanTx(g), g)
        /\ Sending(ProcessCanTx(h)) /\ Moved(ProcessCanTx(h), h)
    BY <1>4, <1>6, <1>7, AttemptLemma, AttemptMoved
  <1>9. CASE e.device = "mscan"
    <2>1. CanIsr(e) = IF g.txBusy THEN g ELSE ProcessCanTx(g)
      BY <1>1, <1>9 DEF CanIsr, MscanIsr
    <2>2. Sending(CanIsr(e)) /\ Moved(CanIsr(e), e)
      BY <1>4, <1>8, <2>1, MovedAgain
    <2> QED BY <1>9, <2>2 DEF Moved
  <1>10. CASE e.device # "mscan"
    <2>1. CanIsr(e) = IF e.txFlag THEN ProcessCanTx(h) ELSE g
      BY <1>1, <1>5, <1>10 DEF CanIsr, FlexCanIsr
    <2>2. Sending(CanIsr(e))
      BY <1>4, <1>8, <2>1
    <2>3. CASE ~e.txFlag
      BY <1>4, <2>1, <2>2, <2>3 DEF Moved, Heard
    <2>4. CASE e.txFlag
      <3>1. ASSUME e.mode # "poll", e.txBusy, e.txmb = <<>>, Box(e)
            PROVE  Box(h)
        <4>1. h.txmb = <<>> /\ Box(g)
          BY <1>4, <1>6, <3>1 DEF Moved
        <4> QED BY <1>6, <4>1 DEF Box, SameMode
      <3>2. PICK r : r = ProcessCanTx(h) /\ Moved(r, h)
        BY <1>8
      <3>3. /\ SameMode(r, e) /\ r.work = e.work /\ r.pc \in {e.pc, "idle"}
            /\ (r.txFlag => e.txFlag) /\ (r.rxFlag => e.rxFlag)
        BY <1>4, <1>6, <3>2 DEF Moved, SameMode
      <3>4. Box(h) => Box(r)
        BY <3>2 DEF Moved
      <3> QED BY <2>1, <2>2, <2>4, <3>1, <3>2, <3>3, <3>4
    <2> QED BY <2>3, <2>4
  <1> QED BY <1>9, <1>10

\* A response that is given up is not gone on with.
LEMMA ListenSending ==
    ASSUME NEW e, IsDriver(e), NEW g, PartOf(g.sent, g.answer), g.aborted, Listening(e, g)
    PROVE  Sending(e)
  BY DEF Listening, Sending

\* g is e when the device has sent the frame that its buffer held.
Sent(g, e) ==
    /\ IsDriver(g) /\ SameMode(g, e) /\ g.pc = e.pc /\ g.rxFlag = e.rxFlag /\ g.txmb = Tail(e.txmb)
    /\ IF e.device = "flexcan" THEN g.txBusy = e.txBusy /\ g.txFlag = TRUE
                               ELSE g.txBusy = FALSE /\ g.txFlag = e.txFlag
    /\ IF e.device = "zephyr" THEN e.work = "idle" => g.work = "submitted" ELSE g.work = e.work
    /\ e.device # "zephyr" \/ e.work = "idle" =>
          /\ g.bRxActive = e.bRxActive /\ g.bRxFirst = e.bRxFirst
          /\ g.bRxFrameReady = e.bRxFrameReady /\ g.bTxActive = e.bTxActive

LEMMA TransmittedSending ==
    ASSUME NEW e, IsDriver(e), e.device \in Devices, Sending(e)
    PROVE  Sending(Transmitted(e)) /\ Sent(Transmitted(e), e)
  <1>1. PICK t : t = Tail(e.txmb)
    OBVIOUS
  <1>2. PICK a : a = [e EXCEPT !.txmb = t]
    OBVIOUS
  <1>3. PICK b, c, x, y :
           /\ b = [a EXCEPT !.txFlag = TRUE] /\ c = [a EXCEPT !.txBusy = FALSE]
           /\ x = [c EXCEPT !.work = "submitted"] /\ y = [c EXCEPT !.nTxTodo = 0, !.aborted = TRUE]
    OBVIOUS
  <1> DEFINE Same(g) == /\ IsDriver(g) /\ SameMode(g, e) /\ g.pc = e.pc /\ g.rxFlag = e.rxFlag /\ g.txmb = t
                        /\ g.sent = e.sent /\ g.answer = e.answer /\ g.bTxActive = e.bTxActive
                        /\ g.pTxBuff = e.pTxBuff /\ g.bTxFirst = e.bTxFirst
                        /\ g.txTgl = e.txTgl /\ g.buf = e.buf /\ g.bRxFrameReady = e.bRxFrameReady
                        /\ g.bRxActive = e.bRxActive /\ g.bRxFirst = e.bRxFirst
             Whole(g) == Same(g) /\ g.nTxTodo = e.nTxTodo /\ g.aborted = e.aborted
  <1>4. Whole(a) /\ a.work = e.work /\ a.txBusy = e.txBusy /\ a.txFlag = e.txFlag
    BY <1>2 DEF IsDriver, SameMode
  <1>5. Whole(b) /\ b.work = e.work /\ b.txBusy = e.txBusy /\ b.txFlag = TRUE
    BY <1>3, <1>4 DEF IsDriver, SameMode
  <1>6. Whole(c) /\ c.work = e.work /\ c.txBusy = FALSE /\ c.txFlag = e.txFlag
    BY <1>3, <1>4 DEF IsDriver, SameMode
  <1>7. Whole(x) /\ x.work = "submitted" /\ x.txBusy = FALSE /\ x.txFlag = e.txFlag
    BY <1>3, <1>6 DEF IsDriver, SameMode
  <1>8. Same(y) /\ y.work = e.work /\ y.txBusy = FALSE /\ y.txFlag = e.txFlag /\ y.aborted = TRUE
    BY <1>3, <1>6 DEF IsDriver, SameMode
  <1>9. ASSUME NEW g, Whole(g) PROVE Sending(g)
    BY <1>9, SameSending
  <1>10. Sending(b) /\ Sending(c) /\ Sending(x)
    BY <1>5, <1>6, <1>7, <1>9
  <1>11. PICK z : z = Listen(y)
    OBVIOUS
  <1>12. Listening(z, y) /\ IsDriver(z)
    BY <1>8, <1>11, ListenLemma DEF Listening
  <1>13. Sending(z)
    <2>1. PartOf(y.sent, y.answer) /\ y.aborted
      BY <1>8 DEF Sending
    <2> QED BY <1>12, <2>1, ListenSending
  <1>14. Transmitted(e) =
            CASE e.device = "flexcan" -> b
              [] e.device = "mscan" -> c
              [] e.device = "zephyr" -> TxCallback(a)
    BY <1>1, <1>2, <1>3 DEF Transmitted
  <1>15. TxCallback(a) = IF e.work = "idle" THEN x ELSE IF c.bTxActive THEN z ELSE c
    BY <1>3, <1>4, <1>11 DEF TxCallback, AbortCanTx
  <1>16. CASE e.device = "flexcan"
    BY <1>1, <1>5, <1>10, <1>14, <1>16 DEF Sent
  <1>17. CASE e.device = "mscan"
    BY <1>1, <1>6, <1>10, <1>14, <1>17 DEF Sent
  <1>18. CASE e.device = "zephyr" /\ e.work = "idle"
    BY <1>1, <1>7, <1>10, <1>14, <1>15, <1>18 DEF Sent
  <1>19. CASE e.device = "zephyr" /\ e.work # "idle"
    <2>1. z.txmb = t /\ z.txBusy = FALSE /\ z.txFlag = e.txFlag /\ z.rxFlag = e.rxFlag /\ z.pc = e.pc /\ SameMode(z, e)
      BY <1>8, <1>12 DEF Listening, SameMode
    <2>2. Sent(z, e) /\ Sent(c, e)
      BY <1>1, <1>6, <1>12, <1>19, <2>1 DEF Sent
    <2> QED BY <1>10, <1>13, <1>14, <1>15, <1>19, <2>2
  <1> QED BY <1>16, <1>17, <1>18, <1>19 DEF Devices

\* The work item.
LEMMA TxHandlerSending ==
    ASSUME NEW e, IsDriver(e), Sending(e)
    PROVE  /\ Sending(TxHandler(e))
           /\ \E h : /\ IsDriver(h) /\ Attempt(TxHandler(e), h) /\ h.work = "idle"
                     /\ SameMode(h, e) /\ SameRx(h, e) /\ h.pc = e.pc /\ h.txmb = e.txmb /\ h.txBusy = e.txBusy
                     /\ h.txFlag = e.txFlag /\ h.bTxActive = e.bTxActive
  <1>1. PICK h : h = [e EXCEPT !.work = "idle"]
    OBVIOUS
  <1>2. /\ IsDriver(h) /\ h.work = "idle" /\ SameMode(h, e) /\ SameRx(h, e) /\ h.pc = e.pc
        /\ h.txmb = e.txmb /\ h.txBusy = e.txBusy /\ h.txFlag = e.txFlag /\ h.bTxActive = e.bTxActive
        /\ h.sent = e.sent /\ h.answer = e.answer /\ h.aborted = e.aborted
        /\ h.nTxTodo = e.nTxTodo /\ h.pTxBuff = e.pTxBuff /\ h.bTxFirst = e.bTxFirst /\ h.txTgl = e.txTgl
    BY <1>1 DEF IsDriver, SameMode, SameRx
  <1>3. Sending(h)
    BY <1>2, SameSending DEF SameRx
  <1>4. TxHandler(e) = ProcessCanTx(h)
    BY <1>1 DEF TxHandler
  <1> QED BY <1>2, <1>3, <1>4, AttemptLemma

\* FMSTR_Poll at its next step.
LEMMA PcSending ==
    ASSUME NEW e, IsDriver(e), Sending(e), NEW pc
    PROVE  LET h == [e EXCEPT !.pc = pc]
           IN  /\ Sending(h) /\ IsDriver(h) /\ SameMode(h, e) /\ SameRx(h, e) /\ h.pc = pc /\ h.work = e.work
               /\ h.txmb = e.txmb /\ h.txBusy = e.txBusy /\ h.txFlag = e.txFlag /\ h.bTxActive = e.bTxActive
  <1>1. PICK h : h = [e EXCEPT !.pc = pc]
    OBVIOUS
  <1>2. /\ IsDriver(h) /\ SameMode(h, e) /\ SameRx(h, e) /\ h.pc = pc /\ h.work = e.work
        /\ h.txmb = e.txmb /\ h.txBusy = e.txBusy /\ h.txFlag = e.txFlag /\ h.bTxActive = e.bTxActive
        /\ h.sent = e.sent /\ h.answer = e.answer /\ h.aborted = e.aborted
        /\ h.nTxTodo = e.nTxTodo /\ h.pTxBuff = e.pTxBuff /\ h.bTxFirst = e.bTxFirst /\ h.txTgl = e.txTgl
    BY <1>1 DEF IsDriver, SameMode, SameRx
  <1>3. Sending(h)
    BY <1>2, SameSending DEF SameRx
  <1> QED BY <1>1, <1>2, <1>3

LEMMA StopLemma ==
    ASSUME NEW e, IsDriver(e), Sending(e)
    PROVE  LET r == TxCanOrStop(e)
           IN  /\ Sending(r)
               /\ IF e.bTxActive THEN Gone(r, e) ELSE SameTx(r, e) /\ SameRx(r, e)
  <1>1. CASE e.bTxActive
    BY <1>1, GoneLemma, TxCanSending
  <1>2. CASE ~e.bTxActive
    <2>1. PICK h : h = [e EXCEPT !.txInt = FALSE]
      OBVIOUS
    <2>2. SameTx(h, e) /\ SameRx(h, e)
      BY <2>1 DEF IsDriver, SameTx, SameRx, SameMode
    <2>3. TxCanOrStop(e) = h
      BY <1>2, <2>1 DEF TxCanOrStop, HasTxData
    <2>4. Sending(h)
      BY <1>2, <2>2, SameSending DEF SameTx
    <2> QED BY <1>2, <2>2, <2>3, <2>4
  <1> QED BY <1>1, <1>2

LEMMA InitSending ==
    ASSUME NEW device \in Devices, NEW mode, NEW fd
    PROVE  LET e == CanInit(device, mode, fd)
           IN  /\ Sending(e) /\ e.device = device /\ e.mode = mode
               /\ e.pc = "idle" /\ e.work = "idle" /\ e.txmb = <<>> /\ ~e.txFlag /\ ~e.rxFlag
               /\ e.bRxFirst /\ ~e.bRxFrameReady /\ ~e.bTxActive
  <1>1. PICK buf : buf = [i \in 0 .. CommSize + 3 |-> Plain(0)]
    OBVIOUS
  <1>2. PICK e : e =
           [device |-> device, mode |-> mode, fd |-> fd, work |-> "idle",
            bTxActive |-> FALSE, bTxFirst |-> FALSE, bRxActive |-> FALSE, bRxFirst |-> FALSE, bRxTgl1 |-> FALSE,
            bRxFrameReady |-> FALSE, bRxSpecial |-> FALSE,
            nTxTodo |-> 0, pTxBuff |-> 0, txTgl |-> FALSE, nRxCtr |-> 0, nRxErr |-> "none",
            crc |-> <<>>, crcOK |-> FALSE, pc |-> "idle",
            buf |-> buf,
            rxmb |-> NoFrame, rxmsg |-> NoFrame, rxFlag |-> FALSE, rxInt |-> FALSE,
            txmb |-> <<>>, txBusy |-> FALSE, txFlag |-> FALSE, txInt |-> FALSE,
            decoded |-> <<>>, answer |-> <<>>, sent |-> <<>>, aborted |-> FALSE]
    OBVIOUS
  <1>3. PICK g : g = Listen(e)
    OBVIOUS
  <1>4. CanInit(device, mode, fd) = g
    BY <1>1, <1>2, <1>3 DEF CanInit
  <1>5. /\ IsDriver(e) /\ e.device = device /\ e.mode = mode /\ e.txmb = <<>> /\ e.rxFlag = FALSE /\ e.txFlag = FALSE
        /\ e.pc = "idle" /\ e.work = "idle" /\ e.answer = <<>> /\ e.sent = <<>>
    BY <1>2 DEF IsDriver, NoFrame
  <1>6. Listening(g, e)
    BY <1>3, <1>5, ListenLemma
  <1>7. IsSequence(<<>>) /\ Len(<<>>) = 0
    BY DEF IsSequence
  <1>8. Message(<<>>) = <<>>
    BY <1>7, MessageLemma
  <1>9. PartOf(<<>>, <<>>)
    BY <1>7, <1>8 DEF PartOf
  <1>10. Sending(g)
    BY <1>5, <1>6, <1>7, <1>8, <1>9 DEF Listening, Sending
  <1> QED BY <1>4, <1>5, <1>6, <1>10 DEF Listening, SameMode

-----------------------------------------------------------------------------
(* The response of the link.                                               *)

LEMMA SendingInit == Init => Sending(d)
  <1> SUFFICES ASSUME Init PROVE Sending(d)
    OBVIOUS
  <1>1. PICK b \in Builds, fd \in FdCaps : d = CanInit(b[1], b[2], fd)
    BY DEF Init
  <1>2. b[1] \in Devices
    BY <1>1, LinkAssumption
  <1> QED BY <1>1, <1>2, InitSending

\* The steps that are a handler's.
LEMMA PollDrivenMoved ==
    ASSUME DecodeInv, Sending(d), PollDriven
    PROVE  Sending(d') /\ Moved(d', d)
  <1>1. Reception(d, request)
    BY DEF DecodeInv
  <1>2. PICK g : g = ProcessCanRx(d)
    OBVIOUS
  <1>3. PICK e : e = ProcessCanTx(g) /\ d' = IF e.bRxFrameReady THEN SendNow(RxDone(e)) ELSE e
    BY <1>2 DEF PollDriven, Drive
  <1>4. Reception(g, request) /\ IsDriver(g) /\ Sending(g) /\ Moved(g, d)
    BY <1>1, <1>2, ProcessCanRxReception, ProcessCanRxMoved DEF Reception
  <1>5. Reception(e, request) /\ Sending(e) /\ Moved(e, g)
    BY <1>3, <1>4, ProcessCanTxReception, AttemptLemma, AttemptMoved
  <1>6. Moved(e, d)
    BY <1>4, <1>5, MovedAgain
  <1>7. e.bRxFrameReady => Sending(SendNow(RxDone(e))) /\ Moved(SendNow(RxDone(e)), e)
    BY <1>5, SendNowMoved
  <1> QED BY <1>3, <1>5, <1>6, <1>7, MovedAgain

LEMMA ClearedLemma ==
    ASSUME NEW e, IsDriver(e), Sending(e), NEW x, NEW y, NEW r, r = [e EXCEPT !.rxFlag = x, !.txFlag = y]
    PROVE  /\ Sending(r) /\ IsDriver(r) /\ SameMode(r, e) /\ r.pc = e.pc /\ r.work = e.work
           /\ r.rxFlag = x /\ r.txFlag = y /\ r.txmb = e.txmb /\ r.txBusy = e.txBusy
  <1>1. /\ IsDriver(r) /\ SameMode(r, e) /\ r.pc = e.pc /\ r.work = e.work
        /\ r.rxFlag = x /\ r.txFlag = y /\ r.txmb = e.txmb /\ r.txBusy = e.txBusy
        /\ r.sent = e.sent /\ r.answer = e.answer /\ r.aborted = e.aborted /\ r.bTxActive = e.bTxActive
        /\ r.nTxTodo = e.nTxTodo /\ r.pTxBuff = e.pTxBuff /\ r.bTxFirst = e.bTxFirst
        /\ r.txTgl = e.txTgl /\ r.buf = e.buf /\ r.bRxFrameReady = e.bRxFrameReady /\ r.bRxActive = e.bRxActive
    BY DEF IsDriver, SameMode
  <1>2. Sending(r)
    BY <1>1, SameSending
  <1> QED BY <1>1, <1>2

LEMMA SendingStep == DecodeInv /\ Sending(d) /\ [Next]_vars => Sending(d')
  <1> SUFFICES ASSUME DecodeInv, Sending(d), [Next]_vars PROVE Sending(d')
    OBVIOUS
  <1>1. Reception(d, request) /\ IsDriver(d) /\ d.device \in Devices
    BY DEF DecodeInv, Reception, DeviceOK
  <1>2. CASE PollDriven
    BY <1>2, PollDrivenMoved
  <1>3. CASE PollRxDone
    BY <1>1, <1>3, RxDoneSending DEF PollRxDone, Drive
  <1>4. CASE PollPrepareTx
    BY <1>1, <1>4, PcSending DEF PollPrepareTx, Drive
  <1>5. CASE PollTxCan
    <2>1. PICK h : h = [d EXCEPT !.pc = "idle"] /\ d' = TxCanOrStop(h)
      BY <1>5 DEF PollTxCan, Drive
    <2> QED BY <1>1, <2>1, PcSending, StopLemma
  <1>6. CASE IsrHandle
    BY <1>1, <1>6, CanIsrMoved DEF IsrHandle, Drive
  <1>7. CASE IsrClear
    <2>1. PICK x, y : x = (d.rxFlag /\ ~isr.rx) /\ y = (d.txFlag /\ ~isr.tx)
      OBVIOUS
    <2>2. d' = [d EXCEPT !.rxFlag = x, !.txFlag = y]
      BY <1>7, <2>1 DEF IsrClear, Drive
    <2> QED BY <1>1, <2>2, ClearedLemma
  <1>8. CASE Work
    BY <1>1, <1>8, TxHandlerSending DEF Work, Drive
  <1>9. CASE Deliver
    <2>1. FromHost(Head(line), request)
      BY <1>9, LineLemma DEF Deliver
    <2> QED BY <1>1, <1>9, <2>1, ReceivedMoved DEF Deliver
  <1>10. CASE Transmit
    <2>1. PICK e : e = Transmitted(d) /\ d' = IF echo THEN Received(e, Head(d.txmb)) ELSE e
      BY <1>10 DEF Transmit
    <2>2. Sending(e) /\ Reception(e, request) /\ FromHost(Head(d.txmb), request)
      BY <1>1, <1>10, <2>1, TransmittedSending, TransmittedReception DEF Transmit
    <2>3. Sending(Received(e, Head(d.txmb)))
      BY <2>2, ReceivedMoved
    <2> QED BY <2>1, <2>2, <2>3
  <1>11. CASE Lose \/ HostSend \/ HostSendEarly \/ HostNext \/ UNCHANGED vars
    <2>1. d' = d
      BY <1>11 DEF Lose, HostSend, HostSendEarly, HostNext, Send, vars
    <2> QED BY <2>1
  <1> QED BY <1>2, <1>3, <1>4, <1>5, <1>6, <1>7, <1>8, <1>9, <1>10, <1>11 DEF Next, Poll, Isr, Finished

LEMMA SendingIntact == Sending(d) /\ Len(d.txmb) <= 1 => ResponseIntact
  <1> SUFFICES ASSUME Sending(d), Len(d.txmb) <= 1 PROVE ResponseIntact
    OBVIOUS
  <1>1. PICK s, a, m : s = d.sent /\ a = d.answer /\ m = Message(s)
    OBVIOUS
  <1>2. PartOf(s, a) /\ (~d.bTxActive /\ ~d.aborted => Len(m) = Len(a))
    BY <1>1 DEF Sending
  <1>3. /\ IsSequence(s) /\ IsSequence(a) /\ IsSequence(m)
        /\ \A i \in 1 .. Len(s) : /\ s[i].fst = (i = 1) /\ s[i].tgl = (i % 2 = 0)
                                  /\ s[i].lst = (Len(Message(SubSeq(s, 1, i))) = Len(a))
        /\ Len(m) <= Len(a) /\ \A i \in 1 .. Len(m) : m[i] = a[i]
    BY <1>1, <1>2 DEF PartOf
  <1>4. DOMAIN s = 1 .. Len(s)
    BY <1>3 DEF IsSequence
  <1>5. PICK c \in Nat, n \in Nat : /\ c = Len(m) /\ m = [i \in 1 .. c |-> m[i]]
                                    /\ n = Len(a) /\ a = [i \in 1 .. n |-> a[i]]
    BY <1>3 DEF IsSequence
  <1>6. SubSeq(m, 1, c) = SubSeq(a, 1, c)
    <2>1. PICK p, q : p = SubSeq(m, 1, c) /\ q = SubSeq(a, 1, c)
      OBVIOUS
    <2>2. c \in Nat /\ 1 \in Nat /\ 1 >= 1 /\ c <= n
      BY <1>3, <1>5
    <2>3. IsPiece(p, m, 1, c) /\ IsPiece(q, a, 1, c)
      BY <1>3, <1>5, <2>1, <2>2, PieceLemma
    <2>4. Len(p) = c /\ Len(q) = c /\ p = [j \in 1 .. c |-> p[j]] /\ q = [j \in 1 .. c |-> q[j]]
      BY <2>2, <2>3 DEF IsPiece, IsSequence
    <2>5. ASSUME NEW j \in 1 .. c PROVE p[j] = q[j]
      <3>1. 1 + j - 1 = j
        OBVIOUS
      <3>2. p[j] = m[1 + j - 1] /\ q[j] = a[1 + j - 1]
        BY <2>3, <2>4 DEF IsPiece
      <3> QED BY <1>3, <1>5, <3>1, <3>2
    <2> QED BY <2>1, <2>4, <2>5
  <1>7. IsPrefix(m, a)
    BY <1>3, <1>5, <1>6 DEF IsPrefix
  <1>8. ~d.bTxActive /\ ~d.aborted => m = a
    BY <1>2, <1>3, <1>5
  <1>9. \A i \in DOMAIN s : /\ s[i].fst = (i = 1) /\ s[i].tgl = (i % 2 = 0)
                            /\ s[i].lst = (Len(Message(SubSeq(s, 1, i))) = Len(a))
    BY <1>3, <1>4
  <1> QED BY <1>1, <1>7, <1>8, <1>9 DEF ResponseIntact

\* What is sent is the response that was begun, whatever devices, builds, sizes
\* and commands there are, unless two frames are in the device's buffer at a time
\* (ResponseIntact).
THEOREM ResponsesAreSentAsBegun == Spec => [](Len(d.txmb) <= 1 => ResponseIntact)
  <1>1. Init => DecodeInv /\ Sending(d)
    BY DecodeInit, SendingInit
  <1>2. DecodeInv /\ Sending(d) /\ [Next]_vars => (DecodeInv /\ Sending(d))'
    BY DecodeStep, SendingStep
  <1>3. DecodeInv /\ Sending(d) => (Len(d.txmb) <= 1 => ResponseIntact)
    BY SendingIntact
  <1> QED BY <1>1, <1>2, <1>3, PTL DEF Spec

-----------------------------------------------------------------------------
(* One frame at a time.                                                    *)

\* The device's buffer, the steps of FMSTR_Poll and the interrupt: FlexCAN says
\* that it has sent a frame only while its buffer is empty and taken, and
\* FMSTR_Poll sends only when the buffer is free.
Mail(e, i) ==
    /\ Box(e) /\ <<e.device, e.mode>> \in Builds
    /\ e.pc # "idle" => e.mode = "short"
    /\ e.pc = "send" => ~e.txBusy
    /\ e.work # "idle" => e.device = "zephyr"
    /\ e.device # "flexcan" => ~e.txFlag /\ i = NotRunning
    /\ e.mode = "poll" => i = NotRunning
    /\ e.device = "flexcan" /\ e.mode # "poll" =>
          IF i = NotRunning THEN e.txFlag => e.txBusy /\ e.txmb = <<>> ELSE e.txFlag => i.tx
    /\ e.device = "zephyr" => ~e.rxFlag

\* A command begins on the bus, and a response is over.
Fresh(l) == Len(l) # 0 /\ l[1].fst
Over(e, l) ==
    ~Fresh(l) /\ ~Receiving(e) /\ ~e.bRxFrameReady /\ e.pc = "idle" /\ ~e.bTxActive /\ e.txmb = <<>>

\* With Zephyr's driver and short interrupts: while a command is received and run
\* no response is sent, and the host begins no command before a response is over,
\* so the work item never comes between two steps of FMSTR_Poll.
OneAtATime(e, l, h) ==
    e.device = "zephyr" /\ e.mode = "short" =>
        /\ \A j \in 2 .. Len(l) : ~l[j].fst
        /\ Fresh(l) => ~e.bRxFrameReady /\ e.pc = "idle" /\ ~e.bTxActive /\ e.txmb = <<>>
        /\ Receiving(e) \/ e.bRxFrameReady \/ e.pc # "idle" => e.work = "idle" /\ e.txmb = <<>>
        /\ e.txmb # <<>> /\ e.txmb[1].lst => ~e.bTxActive
        /\ Len(h) # 0 /\ h[Len(h)].lst => Over(e, l)

LinkInv == IsSequence(heard) /\ Mail(d, isr) /\ OneAtATime(d, line, heard)

\* The bus does not outrun the interrupt's handler, MSCAN is not used with short
\* interrupts, and with Zephyr's driver and short interrupts the host does not
\* repeat a command too early.
Orderly == ~Preempted /\ <<"mscan", "short">> \notin Builds /\ <<"zephyr", "short">> \notin EarlyBuilds

LEMMA MailMoved ==
    ASSUME NEW e, NEW r, NEW i, Mail(e, i), Moved(r, e), r.pc = "send" => ~r.txBusy
    PROVE  Mail(r, i)
  <1>1. SameMode(r, e) /\ Box(r) /\ <<r.device, r.mode>> \in Builds
    BY DEF Mail, Moved, SameMode
  <1>2. r.pc # "idle" => r.mode = "short"
    BY DEF Mail, Moved, SameMode
  <1>3. r.work # "idle" => r.device = "zephyr"
    BY DEF Mail, Moved, SameMode
  <1>4. r.device # "flexcan" => ~r.txFlag /\ i = NotRunning
    BY DEF Mail, Moved, SameMode
  <1>5. (r.mode = "poll" => i = NotRunning) /\ (r.device = "zephyr" => ~r.rxFlag)
    BY DEF Mail, Moved, SameMode
  <1>6. ASSUME r.device = "flexcan", r.mode # "poll", r.txFlag
        PROVE  IF i = NotRunning THEN r.txBusy /\ r.txmb = <<>> ELSE i.tx
    <2>1. e.device = "flexcan" /\ e.mode # "poll" /\ e.txFlag
      BY <1>6 DEF Moved, SameMode
    <2>2. i = NotRunning => e.txBusy /\ e.txmb = <<>>
      BY <2>1 DEF Mail
    <2>3. i = NotRunning => r.txBusy /\ r.txmb = <<>>
      BY <2>1, <2>2 DEF Moved
    <2>4. i # NotRunning => i.tx
      BY <2>1 DEF Mail
    <2> QED BY <2>3, <2>4
  <1> QED BY <1>1, <1>2, <1>3, <1>4, <1>5, <1>6 DEF Mail

LEMMA TailLemma ==
    ASSUME NEW s, IsSequence(s), s # <<>>
    PROVE  /\ Len(s) >= 1 /\ Head(s) = s[1]
           /\ Len(Tail(s)) = Len(s) - 1 /\ \A i \in 1 .. Len(s) - 1 : Tail(s)[i] = s[i + 1]
  <1>1. PICK k \in Nat : k = Len(s) /\ s = [i \in 1 .. k |-> s[i]]
    BY DEF IsSequence
  <1>2. k >= 1
    BY <1>1
  <1>3. PICK S : S = {s[i] : i \in 1 .. k}
    OBVIOUS
  <1>4. s \in Seq(S) /\ Len(s) = k
    BY <1>1, <1>3
  <1> QED BY <1>2, <1>4

LEMMA LinkInit == Orderly /\ Init => LinkInv
  <1> SUFFICES ASSUME Init PROVE LinkInv
    OBVIOUS
  <1>1. PICK b \in Builds, fd \in FdCaps : d = CanInit(b[1], b[2], fd)
    BY DEF Init
  <1>2. b[1] \in Devices /\ b = <<b[1], b[2]>> /\ b # <<"zephyr", "poll">>
    BY <1>1, LinkAssumption
  <1>3. /\ d.device = b[1] /\ d.mode = b[2] /\ d.pc = "idle" /\ d.work = "idle"
        /\ d.txmb = <<>> /\ ~d.txFlag /\ ~d.rxFlag /\ d.bRxFirst /\ ~d.bRxFrameReady /\ ~d.bTxActive
    BY <1>1, <1>2, InitSending
  <1>4. Box(d)
    BY <1>2, <1>3 DEF Box
  <1>5. <<d.device, d.mode>> \in Builds
    BY <1>2, <1>3
  <1>6. isr = NotRunning /\ line = <<>> /\ heard = <<>>
    BY DEF Init
  <1>7. Mail(d, isr)
    BY <1>3, <1>4, <1>5, <1>6 DEF Mail
  <1>8. Len(line) = 0 /\ Len(heard) = 0 /\ IsSequence(heard)
    BY <1>6 DEF IsSequence
  <1>9. OneAtATime(d, line, heard)
    BY <1>3, <1>8 DEF OneAtATime, Fresh, Receiving
  <1> QED BY <1>7, <1>8, <1>9 DEF LinkInv

\* A frame is received while nothing is sent.
LEMMA DeliverLink ==
    ASSUME Orderly, DecodeInv, Sending(d), LinkInv, Deliver
    PROVE  LinkInv'
  <1>1. Reception(d, request) /\ IsDriver(d) /\ d.device \in Devices /\ IsSequence(line)
    BY DEF DecodeInv, Reception, DeviceOK, OnTheBus
  <1>2. PICK f, r : f = Head(line) /\ r = Received(d, f) /\ d' = r
    BY DEF Deliver
  <1>3. FromHost(f, request) /\ line # <<>>
    BY <1>2, LineLemma DEF Deliver
  <1>4. /\ d.device # "zephyr" => SameTx(r, d)
        /\ d.device = "zephyr" /\ ~d.rxFlag => Moved(r, d) /\ (d.mode # "long" => Heard(r, d))
        /\ d.device = "zephyr" /\ d.mode = "short" /\ ~(f.m2s /\ f.fst) => Onward(r, d)
    BY <1>1, <1>2, <1>3, ReceivedMoved
  <1>5. isr' = isr /\ heard' = heard /\ line' = Tail(line) /\ d.work = "idle"
    BY DEF Deliver, BusFree, Orderly
  <1>6. Mail(r, isr)
    <2>1. CASE d.device # "zephyr"
      BY <1>4, <2>1 DEF LinkInv, Mail, SameTx, SameMode, Box
    <2>2. CASE d.device = "zephyr"
      <3>1. Moved(r, d) /\ (d.mode # "long" => Heard(r, d))
        BY <1>4, <2>2 DEF LinkInv, Mail
      <3>2. r.pc = "send" => ~r.txBusy
        BY <3>1 DEF LinkInv, Mail, Heard, SameTx, Moved
      <3> QED BY <3>1, <3>2, MailMoved DEF LinkInv
    <2> QED BY <2>1, <2>2
  <1>7. ASSUME d.device = "zephyr", d.mode = "short"
        PROVE  OneAtATime(r, Tail(line), heard)
    <2>1. Heard(r, d) /\ OneAtATime(d, line, heard)
      BY <1>4, <1>7 DEF LinkInv, Mail
    <2>2. /\ r.pc = d.pc /\ r.work = d.work /\ r.txmb = d.txmb /\ r.bTxActive = d.bTxActive
      BY <2>1 DEF Heard, SameTx
    <2>3. PICK n \in Nat : n = Len(line) /\ n >= 1 /\ f = line[1]
                           /\ Len(Tail(line)) = n - 1 /\ \A i \in 1 .. n - 1 : Tail(line)[i] = line[i + 1]
      BY <1>1, <1>2, <1>3, TailLemma DEF IsSequence
    <2>4. ASSUME NEW j \in 1 .. n - 1 PROVE ~Tail(line)[j].fst
      <3>1. j + 1 \in 2 .. n
        OBVIOUS
      <3>2. ~line[j + 1].fst
        BY <1>7, <2>1, <2>3, <3>1 DEF OneAtATime
      <3> QED BY <2>3, <3>2
    <2>5. ~Fresh(Tail(line))
      <3>1. n - 1 # 0 => 1 \in 1 .. n - 1
        BY <2>3
      <3>2. PICK t : t = Tail(line)
        OBVIOUS
      <3>3. Len(t) = n - 1 /\ (n - 1 # 0 => ~t[1].fst)
        BY <2>3, <2>4, <3>1, <3>2
      <3>4. ~Fresh(t)
        BY <3>3 DEF Fresh
      <3> QED BY <3>2, <3>4
    <2>6. \A j \in 2 .. n - 1 : ~Tail(line)[j].fst
      <3>1. \A j \in 2 .. n - 1 : j \in 1 .. n - 1
        OBVIOUS
      <3> QED BY <2>4, <3>1
    <2>7. CASE f.fst
      <3>1. Fresh(line)
        BY <2>3, <2>7 DEF Fresh
      <3>2. d.pc = "idle" /\ ~d.bTxActive /\ d.txmb = <<>> /\ ~(Len(heard) # 0 /\ heard[Len(heard)].lst)
        BY <1>7, <2>1, <3>1 DEF OneAtATime, Over
      <3> QED BY <1>5, <2>2, <2>3, <2>5, <2>6, <3>2 DEF OneAtATime
    <2>8. CASE ~f.fst
      <3>1. Onward(r, d)
        BY <1>4, <1>7, <2>8
      <3>2. Receiving(r) \/ r.bRxFrameReady \/ r.pc # "idle" => r.work = "idle" /\ r.txmb = <<>>
        BY <1>7, <2>1, <2>2, <3>1 DEF OneAtATime, Onward
      <3>3. r.txmb # <<>> /\ r.txmb[1].lst => ~r.bTxActive
        BY <1>7, <2>1, <2>2 DEF OneAtATime
      <3>4. Len(heard) # 0 /\ heard[Len(heard)].lst => Over(r, Tail(line))
        BY <1>7, <2>1, <2>2, <2>5, <3>1 DEF OneAtATime, Over, Onward
      <3> QED BY <2>3, <2>5, <2>6, <3>2, <3>3, <3>4 DEF OneAtATime
    <2> QED BY <2>7, <2>8
  <1>8. OneAtATime(r, Tail(line), heard)
    <2>1. SameMode(r, d)
      BY <1>4 DEF LinkInv, Mail, Moved, SameTx
    <2>2. CASE d.device = "zephyr" /\ d.mode = "short"
      BY <1>7, <2>2
    <2>3. CASE ~(d.device = "zephyr" /\ d.mode = "short")
      BY <2>1, <2>3 DEF OneAtATime, SameMode
    <2> QED BY <2>2, <2>3
  <1> QED BY <1>2, <1>5, <1>6, <1>8 DEF LinkInv

\* A frame is sent.
LEMMA TransmitLink ==
    ASSUME Orderly, DecodeInv, Sending(d), LinkInv, Transmit
    PROVE  LinkInv'
  <1>1. Reception(d, request) /\ IsDriver(d) /\ d.device \in Devices
    BY DEF DecodeInv, Reception, DeviceOK
  <1>2. /\ Mail(d, isr) /\ Box(d) /\ IsSequence(heard) /\ OneAtATime(d, line, heard)
    BY DEF LinkInv, Mail
  <1>3. d.txmb # <<>> /\ isr = NotRunning /\ d.work = "idle" /\ isr' = isr /\ line' = line
    BY DEF Transmit, BusFree, Orderly
  <1>4. PICK f : f = Head(d.txmb)
    OBVIOUS
  <1>5. d.txmb = <<d.txmb[1]>> /\ f = d.txmb[1] /\ Tail(d.txmb) = <<>> /\ d.txBusy
    <2>1. PICK x : x = d.txmb[1]
      OBVIOUS
    <2>2. d.txmb = <<x>> /\ d.txBusy
      BY <1>2, <1>3, <2>1 DEF Box
    <2>3. Head(<<x>>) = x /\ Tail(<<x>>) = <<>>
      OBVIOUS
    <2> QED BY <1>4, <2>1, <2>2, <2>3
  <1>6. PICK e : e = Transmitted(d) /\ d' = IF echo THEN Received(e, f) ELSE e
    BY <1>4 DEF Transmit
  <1>7. Sending(e) /\ Sent(e, d) /\ Reception(e, request) /\ FromHost(f, request) /\ IsDriver(e)
    BY <1>1, <1>3, <1>4, <1>6, TransmittedSending, TransmittedReception DEF Reception
  <1>8. ~f.m2s
    <2>1. Own(d.txmb) /\ d.txmb # <<>>
      BY <1>1, <1>3 DEF Reception, DeviceOK
    <2>2. PICK k \in Nat : k = Len(d.txmb) /\ d.txmb = [i \in 1 .. k |-> d.txmb[i]] /\ \A i \in 1 .. k : ~d.txmb[i].m2s
      BY <2>1 DEF Own, IsSequence
    <2>3. k # 0
      BY <2>1, <2>2
    <2>4. 1 \in 1 .. k
      BY <2>3
    <2> QED BY <1>5, <2>2, <2>4
  <1>9. Mail(e, isr)
    <2>1. SameMode(e, d) /\ e.pc = d.pc /\ e.txmb = <<>> /\ e.rxFlag = d.rxFlag
      BY <1>5, <1>7 DEF Sent
    <2>2. Box(e)
      BY <1>2, <2>1 DEF Box, SameMode
    <2>3. e.pc # "send"
      BY <1>2, <1>5, <2>1 DEF Mail
    <2>4. CASE d.device = "flexcan"
      <3>1. e.txBusy /\ e.work = d.work
        BY <1>5, <1>7, <2>4 DEF Sent
      <3> QED BY <1>2, <1>3, <2>1, <2>2, <2>3, <2>4, <3>1 DEF Mail, SameMode
    <2>5. CASE d.device # "flexcan"
      <3>1. e.txFlag = d.txFlag /\ (d.device # "zephyr" => e.work = d.work)
        BY <1>7, <2>5 DEF Sent
      <3> QED BY <1>2, <1>3, <2>1, <2>2, <2>3, <2>5, <3>1 DEF Mail, SameMode
    <2> QED BY <2>4, <2>5
  <1>10. PICK r : r = Received(e, f)
    OBVIOUS
  <1>11. /\ e.device # "zephyr" => SameTx(r, e)
         /\ e.device = "zephyr" /\ ~e.rxFlag => Moved(r, e) /\ (e.mode # "long" => Heard(r, e))
         /\ e.device = "zephyr" /\ e.mode = "short" => Onward(r, e)
    BY <1>7, <1>8, <1>10, ReceivedMoved
  <1>12. Mail(r, isr)
    <2>1. CASE e.device # "zephyr"
      BY <1>9, <1>11, <2>1 DEF Mail, SameTx, SameMode, Box
    <2>2. CASE e.device = "zephyr"
      <3>1. Moved(r, e) /\ (e.mode # "long" => Heard(r, e))
        BY <1>9, <1>11, <2>2 DEF Mail
      <3>2. r.pc = "send" => ~r.txBusy
        BY <1>9, <3>1 DEF Mail, Heard, SameTx, Moved
      <3> QED BY <1>9, <3>1, <3>2, MailMoved
    <2> QED BY <2>1, <2>2
  <1>13. Mail(d', isr')
    BY <1>3, <1>6, <1>9, <1>10, <1>12
  <1>14. heard' \in {heard, <<f>>, Append(heard, f)}
    BY <1>4 DEF Transmit
  <1>15. /\ IsSequence(heard') /\ Len(heard') \in Nat
         /\ heard' = heard \/ (Len(heard') # 0 /\ heard'[Len(heard')] = f)
    <2>1. CASE heard' = heard
      BY <1>2, <2>1 DEF IsSequence
    <2>2. CASE heard' = <<f>>
      <3>1. Len(<<f>>) = 1 /\ <<f>>[1] = f /\ <<f>> = [i \in 1 .. 1 |-> <<f>>[i]]
        OBVIOUS
      <3> QED BY <2>2, <3>1 DEF IsSequence
    <2>3. CASE heard' = Append(heard, f)
      <3>1. PICK h : h = heard /\ IsSequence(h) /\ Len(h) \in Nat
        BY <1>2 DEF IsSequence
      <3>2. PICK t : t = Append(h, f)
        OBVIOUS
      <3>3. IsSequence(t) /\ Len(t) = Len(h) + 1 /\ t[Len(h) + 1] = f
        BY <3>1, <3>2, AppendedLemma
      <3> QED BY <2>3, <3>1, <3>2, <3>3
    <2> QED BY <1>14, <2>1, <2>2, <2>3
  <1>16. ASSUME d.device = "zephyr", d.mode = "short"
         PROVE  OneAtATime(d', line, heard')
    <2>1. e.device = "zephyr" /\ e.mode = "short" /\ ~e.rxFlag
      BY <1>7, <1>9, <1>16 DEF Sent, SameMode, Mail
    <2>2. /\ e.pc = d.pc /\ e.txmb = <<>> /\ e.bTxActive = d.bTxActive /\ e.bRxFrameReady = d.bRxFrameReady
          /\ (Receiving(e) <=> Receiving(d))
      BY <1>3, <1>5, <1>7 DEF Sent, Receiving
    <2>3. Heard(r, e) /\ Onward(r, e)
      BY <1>11, <2>1
    <2>4. /\ d'.pc = d.pc /\ d'.txmb = <<>> /\ d'.bTxActive = d.bTxActive /\ Onward(d', d)
      BY <1>6, <1>10, <2>2, <2>3 DEF Heard, SameTx, Onward
    <2>5. ~Fresh(line) /\ ~Receiving(d) /\ ~d.bRxFrameReady /\ d.pc = "idle" /\ (f.lst => ~d.bTxActive)
          /\ \A j \in 2 .. Len(line) : ~line[j].fst
      BY <1>2, <1>3, <1>5, <1>16 DEF OneAtATime
    <2>6. ~(Len(heard) # 0 /\ heard[Len(heard)].lst)
      BY <1>2, <1>3, <1>16 DEF OneAtATime, Over
    <2>7. ~Receiving(d') /\ ~d'.bRxFrameReady
      BY <2>4, <2>5 DEF Onward
    <2>8. Len(heard') # 0 /\ heard'[Len(heard')].lst => Over(d', line)
      BY <1>15, <2>4, <2>5, <2>6, <2>7 DEF Over
    <2> QED BY <2>4, <2>5, <2>7, <2>8 DEF OneAtATime
  <1>17. OneAtATime(d', line, heard')
    <2>1. SameMode(d', d)
      BY <1>6, <1>7, <1>9, <1>10, <1>11 DEF Mail, Sent, Moved, SameTx, SameMode
    <2>2. CASE d.device = "zephyr" /\ d.mode = "short"
      BY <1>16, <2>2
    <2>3. CASE ~(d.device = "zephyr" /\ d.mode = "short")
      BY <2>1, <2>3 DEF OneAtATime, SameMode
    <2> QED BY <2>2, <2>3
  <1> QED BY <1>3, <1>13, <1>15, <1>17 DEF LinkInv

\* FMSTR_Poll, the interrupt and the work item.
LEMMA PollLink ==
    ASSUME Orderly, DecodeInv, Sending(d), LinkInv, Poll
    PROVE  LinkInv'
  <1>1. Reception(d, request) /\ IsDriver(d) /\ Mail(d, isr) /\ IsSequence(heard) /\ OneAtATime(d, line, heard)
    BY DEF DecodeInv, Reception, LinkInv
  <1>2. heard' = heard /\ line' = line /\ isr' = isr
    BY DEF Poll, PollDriven, PollRxDone, PollPrepareTx, PollTxCan, Drive
  <1>3. ASSUME Mail(d', isr), OneAtATime(d', line, heard) PROVE LinkInv'
    BY <1>1, <1>2, <1>3 DEF LinkInv
  <1>4. CASE PollDriven
    <2>1. Moved(d', d) /\ d.mode = "poll"
      BY <1>4, PollDrivenMoved DEF PollDriven
    <2>2. d'.pc # "send" /\ d'.mode = "poll"
      BY <1>1, <2>1 DEF Mail, Moved, SameMode
    <2>3. Mail(d', isr)
      BY <1>1, <2>1, <2>2, MailMoved
    <2>4. OneAtATime(d', line, heard)
      BY <2>2 DEF OneAtATime
    <2> QED BY <1>3, <2>3, <2>4
  <1>5. CASE PollRxDone
    <2>1. PICK r : r = RxDone(d) /\ d' = r /\ d.mode = "short" /\ d.bRxFrameReady
      BY <1>5 DEF PollRxDone, Drive, Runs
    <2>2. Replied(r, d)
      BY <1>1, <2>1, RxDoneSending
    <2>3. Mail(r, isr)
      BY <1>1, <2>1, <2>2 DEF Replied, Mail, SameMode, Box
    <2>4. OneAtATime(r, line, heard)
      <3>1. CASE d.device = "zephyr"
        BY <1>1, <2>1, <2>2, <3>1 DEF OneAtATime, Replied, Over, Receiving
      <3>2. CASE d.device # "zephyr"
        BY <2>2, <3>2 DEF OneAtATime, Replied, SameMode
      <3> QED BY <3>1, <3>2
    <2> QED BY <1>3, <2>1, <2>3, <2>4
  <1>6. CASE PollPrepareTx
    <2>1. PICK pc : pc = (IF d.bTxActive /\ CanPrepareTxFrame(d) THEN "send" ELSE "idle")
      OBVIOUS
    <2>2. PICK r : r = [d EXCEPT !.pc = pc] /\ d' = r /\ d.mode = "short" /\ d.pc = "check"
      BY <1>6, <2>1 DEF PollPrepareTx, Drive, Runs
    <2>3. /\ SameMode(r, d) /\ SameRx(r, d) /\ r.pc = pc /\ r.work = d.work
          /\ r.txmb = d.txmb /\ r.txBusy = d.txBusy /\ r.txFlag = d.txFlag /\ r.bTxActive = d.bTxActive
      BY <1>1, <2>2, PcSending
    <2>4. pc = "send" => ~d.txBusy
      BY <2>1, <2>2 DEF CanPrepareTxFrame, MscanPrepareTxFrame
    <2>5. Mail(r, isr)
      BY <1>1, <2>2, <2>3, <2>4 DEF Mail, SameMode, SameRx, Box
    <2>6. OneAtATime(r, line, heard)
      <3>1. CASE d.device = "zephyr"
        BY <1>1, <2>2, <2>3, <3>1 DEF OneAtATime, SameRx, Over, Receiving
      <3>2. CASE d.device # "zephyr"
        BY <2>3, <3>2 DEF OneAtATime, SameMode
      <3> QED BY <3>1, <3>2
    <2> QED BY <1>3, <2>2, <2>5, <2>6
  <1>7. CASE PollTxCan
    <2>1. PICK h, r : h = [d EXCEPT !.pc = "idle"] /\ r = TxCanOrStop(h) /\ d' = r /\ d.mode = "short" /\ d.pc = "send"
      BY <1>7 DEF PollTxCan, Drive, Runs
    <2>2. /\ Sending(h) /\ IsDriver(h) /\ SameMode(h, d) /\ SameRx(h, d) /\ h.pc = "idle" /\ h.work = d.work
          /\ h.txmb = d.txmb /\ h.txBusy = d.txBusy /\ h.txFlag = d.txFlag /\ h.bTxActive = d.bTxActive
      BY <1>1, <2>1, PcSending
    <2>3. ~d.txBusy /\ d.txmb = <<>> /\ Box(d)
      BY <1>1, <2>1 DEF Mail, Box
    <2>4. CASE d.bTxActive
      <3>1. Gone(r, h)
        BY <2>1, <2>2, <2>4, StopLemma
      <3>2. PICK f : r.txmb = Append(<<>>, f) /\ (f.lst => ~r.bTxActive)
        BY <2>2, <2>3, <3>1 DEF Gone
      <3>3. r.txmb = <<f>> /\ r.txmb[1] = f /\ r.txmb = <<r.txmb[1]>>
        BY <3>2, SingleLemma
      <3>4. /\ SameMode(r, d) /\ r.pc = "idle" /\ r.work = d.work /\ r.txFlag = d.txFlag /\ r.rxFlag = d.rxFlag
            /\ r.txBusy /\ ~r.bRxFrameReady /\ ~Receiving(r)
        BY <2>2, <3>1 DEF Gone, SameMode, SameRx
      <3>5. Box(r)
        BY <2>1, <2>3, <3>3, <3>4 DEF Box, SameMode
      <3>6. d.device = "flexcan" /\ isr = NotRunning => ~d.txFlag
        BY <1>1, <2>1, <2>3 DEF Mail
      <3>7. Mail(r, isr)
        BY <1>1, <2>1, <3>4, <3>5, <3>6 DEF Mail, SameMode
      <3>8. OneAtATime(r, line, heard)
        <4>1. CASE d.device = "zephyr"
          <5>1. /\ \A j \in 2 .. Len(line) : ~line[j].fst
                /\ ~Fresh(line) /\ ~(Len(heard) # 0 /\ heard[Len(heard)].lst)
            BY <1>1, <2>1, <4>1 DEF OneAtATime, Over
          <5> QED BY <3>2, <3>3, <3>4, <5>1 DEF OneAtATime
        <4>2. CASE d.device # "zephyr"
          BY <3>4, <4>2 DEF OneAtATime, SameMode
        <4> QED BY <4>1, <4>2
      <3> QED BY <1>3, <2>1, <3>7, <3>8
    <2>5. CASE ~d.bTxActive
      <3>1. SameTx(r, h) /\ SameRx(r, h)
        BY <2>1, <2>2, <2>5, StopLemma
      <3>2. /\ SameMode(r, d) /\ SameRx(r, d) /\ r.pc = "idle" /\ r.work = d.work
            /\ r.txmb = d.txmb /\ r.txBusy = d.txBusy /\ r.txFlag = d.txFlag /\ r.bTxActive = d.bTxActive
        BY <2>2, <3>1 DEF SameTx, SameMode, SameRx
      <3>3. Mail(r, isr)
        BY <1>1, <3>2 DEF Mail, SameMode, SameRx, Box
      <3>4. OneAtATime(r, line, heard)
        <4>1. CASE d.device = "zephyr"
          BY <1>1, <2>1, <3>2, <4>1 DEF OneAtATime, SameRx, Over, Receiving
        <4>2. CASE d.device # "zephyr"
          BY <3>2, <4>2 DEF OneAtATime, SameMode
        <4> QED BY <4>1, <4>2
      <3> QED BY <1>3, <2>1, <3>3, <3>4
    <2> QED BY <2>4, <2>5
  <1> QED BY <1>4, <1>5, <1>6, <1>7 DEF Poll

LEMMA IsrLink ==
    ASSUME Orderly, DecodeInv, Sending(d), LinkInv, Isr
    PROVE  LinkInv'
  <1>1. Reception(d, request) /\ IsDriver(d) /\ Mail(d, isr) /\ IsSequence(heard)
    BY DEF DecodeInv, Reception, LinkInv
  <1>2. heard' = heard /\ line' = line
    BY DEF Isr, IsrHandle, IsrClear, Drive
  <1>3. d.device # "zephyr"
    BY <1>1 DEF Isr, IsrHandle, IsrClear, Interrupted, Mail
  <1>4. ASSUME Mail(d', isr'), SameMode(d', d) PROVE LinkInv'
    <2>1. OneAtATime(d', line', heard')
      BY <1>3, <1>4 DEF OneAtATime, SameMode
    <2> QED BY <1>1, <1>2, <1>4, <2>1 DEF LinkInv
  <1>5. CASE IsrHandle
    <2>1. PICK r : r = CanIsr(d) /\ d' = r
      BY <1>5 DEF IsrHandle, Drive
    <2>2. /\ isr = NotRunning /\ d.mode # "poll" /\ Box(d)
          /\ (d.txFlag => d.device = "flexcan" /\ d.txBusy /\ d.txmb = <<>>)
      BY <1>1, <1>5 DEF IsrHandle, Interrupted, Mail
    <2>3. /\ SameMode(r, d) /\ r.work = d.work /\ r.pc \in {d.pc, "idle"}
          /\ (r.txFlag => d.txFlag) /\ (r.rxFlag => d.rxFlag) /\ Box(r)
          /\ d.mode = "short" /\ d.device = "flexcan" /\ ~d.txFlag => SameTx(r, d)
      BY <1>1, <2>1, <2>2, CanIsrMoved
    <2>4. r.pc = "send" => ~r.txBusy
      <3>1. SUFFICES ASSUME d.pc = "send", r.pc = "send" PROVE ~r.txBusy
        BY <2>3
      <3>2. d.mode = "short" /\ d.device = "flexcan"
        BY <1>1, <1>3, <3>1 DEF Mail, Orderly, Box, Devices
      <3>3. ~d.txBusy /\ ~d.txFlag
        BY <1>1, <2>2, <3>1 DEF Mail
      <3> QED BY <2>3, <3>2, <3>3 DEF SameTx
    <2>5. CASE d.device = "flexcan"
      <3>1. PICK i : i = [rx |-> d.rxFlag, tx |-> d.txFlag] /\ isr' = i
        BY <1>5, <2>5 DEF IsrHandle
      <3>2. i # NotRunning
        <4>1. d.rxFlag \/ d.txFlag
          BY <1>5, <2>5 DEF IsrHandle, Interrupted
        <4>2. i.rx = d.rxFlag /\ i.tx = d.txFlag /\ NotRunning.rx = FALSE /\ NotRunning.tx = FALSE
          BY <3>1 DEF NotRunning
        <4> QED BY <4>1, <4>2
      <3>3. i.tx = d.txFlag
        BY <3>1
      <3>4. Mail(r, i)
        BY <1>1, <2>2, <2>3, <2>4, <2>5, <3>2, <3>3 DEF Mail, SameMode
      <3> QED BY <1>4, <2>1, <2>3, <3>1, <3>4
    <2>6. CASE d.device # "flexcan"
      <3>1. isr' = NotRunning
        BY <1>5, <2>6 DEF IsrHandle
      <3>2. Mail(r, NotRunning)
        BY <1>1, <2>2, <2>3, <2>4, <2>6, <1>3 DEF Mail, SameMode
      <3> QED BY <1>4, <2>1, <2>3, <3>1, <3>2
    <2> QED BY <2>5, <2>6
  <1>6. CASE IsrClear
    <2>1. PICK x, y : x = (d.rxFlag /\ ~isr.rx) /\ y = (d.txFlag /\ ~isr.tx)
      OBVIOUS
    <2>2. PICK r : r = [d EXCEPT !.rxFlag = x, !.txFlag = y] /\ d' = r
      BY <1>6, <2>1 DEF IsrClear, Drive
    <2>3. /\ SameMode(r, d) /\ r.pc = d.pc /\ r.work = d.work
          /\ r.rxFlag = x /\ r.txFlag = y /\ r.txmb = d.txmb /\ r.txBusy = d.txBusy
      <3>1. IsDriver(d) /\ Sending(d)
        BY <1>1
      <3>2. r = [d EXCEPT !.rxFlag = x, !.txFlag = y]
        BY <2>2
      <3> QED BY <3>1, <3>2 DEF IsDriver, SameMode
    <2>4. isr # NotRunning /\ isr' = NotRunning
      BY <1>6 DEF IsrClear
    <2>5. d.device = "flexcan" /\ d.mode # "poll" /\ ~y
      BY <1>1, <2>1, <2>4 DEF Mail
    <2>6. Mail(r, NotRunning)
      BY <1>1, <2>3, <2>5 DEF Mail, SameMode, Box
    <2> QED BY <1>4, <2>2, <2>3, <2>4, <2>6
  <1> QED BY <1>5, <1>6 DEF Isr

LEMMA WorkLink ==
    ASSUME Orderly, DecodeInv, Sending(d), LinkInv, Work
    PROVE  LinkInv'
  <1>1. Reception(d, request) /\ IsDriver(d) /\ Mail(d, isr) /\ IsSequence(heard) /\ OneAtATime(d, line, heard)
    BY DEF DecodeInv, Reception, LinkInv
  <1>2. heard' = heard /\ line' = line /\ isr' = isr /\ d.work = "submitted"
    BY DEF Work, Drive
  <1>3. PICK r : r = TxHandler(d) /\ d' = r
    BY DEF Work, Drive
  <1>4. PICK h : /\ IsDriver(h) /\ Attempt(r, h) /\ h.work = "idle"
                 /\ SameMode(h, d) /\ SameRx(h, d) /\ h.pc = d.pc /\ h.txmb = d.txmb /\ h.txBusy = d.txBusy
                 /\ h.txFlag = d.txFlag /\ h.bTxActive = d.bTxActive
    BY <1>1, <1>3, TxHandlerSending
  <1>5. Moved(r, h)
    BY <1>4, AttemptMoved
  <1>6. Mail(h, isr)
    BY <1>1, <1>4 DEF Mail, SameMode, SameRx, Box
  <1>7. d.device = "zephyr" /\ d.pc = "idle"
    <2>1. d.device = "zephyr"
      BY <1>1, <1>2 DEF Mail
    <2>2. d.mode # "short" => d.pc = "idle"
      BY <1>1 DEF Mail
    <2>3. d.mode = "short" => d.pc = "idle"
      BY <1>1, <1>2, <2>1 DEF OneAtATime
    <2> QED BY <2>1, <2>2, <2>3
  <1>8. r.pc = "idle"
    BY <1>4, <1>5, <1>7 DEF Moved
  <1>9. Mail(r, isr)
    BY <1>5, <1>6, <1>8, MailMoved
  <1>10. ASSUME d.mode = "short" PROVE OneAtATime(r, line, heard)
    <2>1. ~Receiving(d) /\ ~d.bRxFrameReady /\ \A j \in 2 .. Len(line) : ~line[j].fst
      BY <1>1, <1>2, <1>7, <1>10 DEF OneAtATime
    <2>2. CASE r = h
      <3>1. /\ r.pc = d.pc /\ r.txmb = d.txmb /\ r.bTxActive = d.bTxActive /\ r.bRxFrameReady = d.bRxFrameReady
            /\ (Receiving(r) <=> Receiving(d))
        BY <1>4, <2>2 DEF SameRx, Receiving
      <3> QED BY <1>1, <1>7, <1>10, <2>1, <3>1 DEF OneAtATime, Over
    <2>3. CASE r # h
      <3>1. PICK g : h.bTxActive /\ CanPrepareTxFrame(h) /\ Gone(r, g) /\ g = PrepareTxFrame(h)
        BY <1>4, <2>3 DEF Attempt
      <3>2. g.txmb = h.txmb
        BY <1>4, <3>1, PrepareLemma
      <3>3. ~h.txBusy /\ h.txmb = <<>>
        BY <1>4, <1>6, <1>7, <3>1 DEF CanPrepareTxFrame, Mail, Box, SameMode
      <3>4. PICK f : r.txmb = Append(<<>>, f) /\ (f.lst => ~r.bTxActive)
        BY <3>1, <3>2, <3>3 DEF Gone
      <3>5. r.txmb = <<f>> /\ r.txmb[1] = f
        BY <3>4, SingleLemma
      <3>6. ~r.bRxFrameReady /\ ~Receiving(r) /\ d.bTxActive
        BY <1>4, <3>1 DEF Gone
      <3>7. ~Fresh(line) /\ ~(Len(heard) # 0 /\ heard[Len(heard)].lst)
        BY <1>1, <1>7, <1>10, <3>6 DEF OneAtATime, Over
      <3> QED BY <1>8, <2>1, <3>4, <3>5, <3>6, <3>7 DEF OneAtATime
    <2> QED BY <2>2, <2>3
  <1>11. OneAtATime(r, line, heard)
    <2>1. SameMode(r, d)
      BY <1>4, <1>5 DEF Moved, SameMode
    <2> QED BY <1>10, <2>1 DEF OneAtATime, SameMode
  <1> QED BY <1>1, <1>2, <1>3, <1>9, <1>11 DEF LinkInv

\* The host begins a command.
LEMMA SendLink ==
    ASSUME LinkInv, NEW n \in DOMAIN Requests, Send(n),
           d.device = "zephyr" /\ d.mode = "short" =>
              d.pc = "idle" /\ ~d.bRxFrameReady /\ ~d.bTxActive /\ d.txmb = <<>> /\ (Receiving(d) => d.work = "idle")
    PROVE  LinkInv'
  <1>1. PICK l : l = Command[n] /\ line' = l /\ heard' = <<>> /\ d' = d /\ isr' = isr
    BY DEF Send
  <1>2. \A j \in 2 .. Len(l) : ~l[j].fst
    <2>1. IsSequence(l) /\ \A j \in DOMAIN l : j \in Nat /\ CommandFrame(l[j], n, j)
      BY <1>1, CommandLemma
    <2>2. PICK k \in Nat : k = Len(l) /\ DOMAIN l = 1 .. k
      BY <2>1 DEF IsSequence
    <2>3. \A j \in 2 .. k : j \in DOMAIN l /\ j # 1
      BY <2>2
    <2> QED BY <2>1, <2>2, <2>3 DEF CommandFrame
  <1>3. Len(<<>>) = 0 /\ IsSequence(<<>>)
    BY DEF IsSequence
  <1>4. OneAtATime(d, l, <<>>)
    BY <1>2, <1>3 DEF OneAtATime
  <1> QED BY <1>1, <1>3, <1>4 DEF LinkInv

LEMMA LinkStep == Orderly /\ DecodeInv /\ Sending(d) /\ LinkInv /\ [Next]_vars => LinkInv'
  <1> SUFFICES ASSUME Orderly, DecodeInv, Sending(d), LinkInv, [Next]_vars PROVE LinkInv'
    OBVIOUS
  <1>1. Mail(d, isr) /\ IsSequence(heard) /\ OneAtATime(d, line, heard)
    BY DEF LinkInv
  <1>2. CASE Lose
    <2>1. line # <<>> /\ line' = Tail(line) /\ UNCHANGED <<d, isr, heard>>
      BY <1>2 DEF Lose
    <2>2. PICK n \in Nat : n = Len(line) /\ n >= 1
                           /\ Len(Tail(line)) = n - 1 /\ \A i \in 1 .. n - 1 : Tail(line)[i] = line[i + 1]
      BY <2>1, TailLemma DEF DecodeInv, OnTheBus, IsSequence
    <2>3. PICK t : t = Tail(line)
      OBVIOUS
    <2>4. ASSUME d.device = "zephyr", d.mode = "short" PROVE OneAtATime(d, t, heard)
      <3>1. ASSUME NEW j \in 1 .. n - 1 PROVE ~t[j].fst
        <4>1. j + 1 \in 2 .. n
          OBVIOUS
        <4>2. ~line[j + 1].fst
          BY <1>1, <2>2, <2>4, <4>1 DEF OneAtATime
        <4> QED BY <2>2, <2>3, <4>2
      <3>2. Len(t) = n - 1 /\ (n - 1 # 0 => 1 \in 1 .. n - 1)
        BY <2>2, <2>3
      <3>3. ~Fresh(t) /\ \A j \in 2 .. Len(t) : ~t[j].fst
        BY <3>1, <3>2 DEF Fresh
      <3> QED BY <1>1, <2>4, <3>3 DEF OneAtATime, Over
    <2>5. OneAtATime(d, t, heard)
      BY <2>4 DEF OneAtATime
    <2> QED BY <1>1, <2>1, <2>3, <2>5 DEF LinkInv
  <1>3. CASE HostSend
    <2>1. request \in DOMAIN Requests /\ Send(request)
      BY <1>3 DEF HostSend, Todo
    <2> QED BY <1>3, <2>1, SendLink DEF HostSend, Quiet
  <1>4. CASE HostSendEarly
    <2>1. request \in DOMAIN Requests /\ Send(request)
      BY <1>4 DEF HostSendEarly, Todo
    <2>2. ~(d.device = "zephyr" /\ d.mode = "short")
      BY <1>4 DEF HostSendEarly, Orderly
    <2> QED BY <2>1, <2>2, SendLink
  <1>5. CASE HostNext
    <2>1. line = <<>> /\ Len(heard) # 0 /\ heard[Len(heard)].lst
      <3>1. heard # <<>> /\ heard[Len(heard)].lst /\ line = <<>>
        BY <1>5 DEF HostNext, Answered, IsWhole
      <3>2. Len(heard) # 0
        BY <1>1, <3>1 DEF IsSequence
      <3> QED BY <3>1, <3>2
    <2>2. d.device = "zephyr" /\ d.mode = "short" => Over(d, line)
      BY <1>1, <2>1 DEF OneAtATime
    <2>3. CASE request + 1 \in DOMAIN Requests
      <3>1. Send(request + 1)
        BY <1>5, <2>3 DEF HostNext
      <3>2. d.device = "zephyr" /\ d.mode = "short" =>
               d.pc = "idle" /\ ~d.bRxFrameReady /\ ~d.bTxActive /\ d.txmb = <<>> /\ (Receiving(d) => d.work = "idle")
        BY <2>2 DEF Over
      <3> QED BY <2>3, <3>1, <3>2, SendLink
    <2>4. CASE request + 1 \notin DOMAIN Requests
      <3>1. heard' = <<>> /\ UNCHANGED <<d, isr, line>>
        BY <1>5, <2>4 DEF HostNext
      <3>2. Len(<<>>) = 0 /\ IsSequence(<<>>)
        BY DEF IsSequence
      <3>3. OneAtATime(d, line, <<>>)
        BY <1>1, <3>2 DEF OneAtATime
      <3> QED BY <1>1, <3>1, <3>2, <3>3 DEF LinkInv
    <2> QED BY <2>3, <2>4
  <1>6. CASE UNCHANGED vars
    BY <1>6 DEF vars, LinkInv
  <1> QED BY <1>2, <1>3, <1>4, <1>5, <1>6, PollLink, IsrLink, WorkLink, DeliverLink, TransmitLink DEF Next, Finished

\* What is sent is the response that was begun, and nothing is sent twice, if
\* neither of the two cases occurs in which a frame may be (ResponseIntact).
THEOREM ResponsesAreSentOnce == ASSUME Orderly PROVE Spec => []ResponseIntact
  <1>1. Init => DecodeInv /\ Sending(d) /\ LinkInv
    BY DecodeInit, SendingInit, LinkInit
  <1>2. DecodeInv /\ Sending(d) /\ LinkInv /\ [Next]_vars => (DecodeInv /\ Sending(d) /\ LinkInv)'
    BY DecodeStep, SendingStep, LinkStep
  <1>3. Sending(d) /\ LinkInv => ResponseIntact
    <2> SUFFICES ASSUME Sending(d), LinkInv PROVE ResponseIntact
      OBVIOUS
    <2>1. d.txmb = <<>> \/ d.txmb = <<d.txmb[1]>>
      BY DEF LinkInv, Mail, Box
    <2>2. Len(d.txmb) <= 1
      <3>1. PICK x, m : x = d.txmb[1] /\ m = d.txmb
        OBVIOUS
      <3>2. CASE m = <<>>
        BY <3>1, <3>2
      <3>3. CASE m = <<x>>
        <4>1. Len(m) = 1
          BY <3>3
        <4> QED BY <3>1, <4>1
      <3> QED BY <2>1, <3>1, <3>2, <3>3
    <2> QED BY <2>2, SendingIntact
  <1> QED BY <1>1, <1>2, <1>3, PTL DEF Spec
=============================================================================
