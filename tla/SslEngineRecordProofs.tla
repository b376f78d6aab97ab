----------------------- MODULE SslEngineRecordProofs ------------------------
(***************************************************************************)
(* Proofs about SslEngine: what a sealed record holds.  No record exceeds  *)
(* the fragment length in force when it was sealed or since, and none      *)
(* mixes bytes that were written for another type or another protection;   *)
(* for every choice of the constants, no forced flush of a shared buffer   *)
(* excepted.  A server that lets its peer renegotiate is excluded from the *)
(* first (a record may be on its way out when the new ClientHello asks for *)
(* shorter ones), renegotiation altogether from the second.  Then: what    *)
(* the engine waits for.                                                   *)
(***************************************************************************)
EXTENDS SslEngineProofs

-----------------------------------------------------------------------------
(* The length of records.                                                  *)

(* Neither a sealed record nor the room of an open one exceeds f.          *)
Limited(o, f) == /\ o.hdr # NoHdr => o.hdr.len <= f
                 /\ Gathering(o) => o.b <= o.c + f

(* While the fragment length may still change nothing has been written.    *)
Fresh == appdata = 0 /\ Gathering(ox) /\ ox.a = ox.c /\ h.put = 0
LengthInv == Limited(ox, maxFrag) /\ (Has("frag", todo) => Fresh)

(* Only a server asks for a fragment length again, in a renegotiation.     *)
Settled == NoReneg \/ Role = "client"

(* Sealing keeps within the limit.                                         *)
LEMMA SealLimited ==
  ASSUME NEW o \in OutRegs, NEW f \in Nat, NEW type, NEW e \in BOOLEAN, NEW force,
         o.hdr # NoHdr => o.hdr.len <= f, o.a # o.b => o.a <= o.c + f,
         Gathering(Seal(o, type, e, force)) => o.b <= o.c + f
  PROVE  Limited(Seal(o, type, e, force), f)
<1>0. o.a \in Nat /\ o.b \in Nat /\ o.c \in Nat
  BY DEF OutRegs
<1>1. CASE o.a = o.b \/ (o.a = o.c /\ ~force)
  <2>1. Seal(o, type, e, force) = o
    BY <1>1 DEF Seal
  <2> QED BY <2>1 DEF Limited
<1>2. CASE ~(o.a = o.b \/ (o.a = o.c /\ ~force))
  <2> DEFINE s == Seal(o, type, e, force)
  <2>1. s = [a |-> o.c - Pre(e) - 5, b |-> o.c - Pre(e) - 5,
             c |-> o.a + Post(e), kinds |-> o.kinds,
             hdr |-> [type |-> type, enc |-> e, len |-> o.a - o.c]]
    BY <1>2 DEF Seal
  <2>2. s.a = s.b /\ s.hdr.len = o.a - o.c
    BY <2>1
  <2>3. o.a - o.c <= f
    BY <1>0, <1>2
  <2> QED BY <2>2, <2>3 DEF Limited, Gathering
<1> QED BY <1>1, <1>2

(* ... and so does adding payload.                                         *)
LEMMA AckOutLimited ==
  ASSUME NEW e \in BOOLEAN, NEW o \in OutRegs, NEW type, NEW n \in Nat, NEW f \in Nat,
         OpenOK(o, e), n > 0, o.a + n <= o.b, Limited(o, f)
  PROVE  Limited(AckOut(o, n, type, e), f)
<1>0. /\ o.a \in Nat /\ o.b \in Nat /\ o.c \in Nat /\ o.c <= o.a
      /\ o.b <= o.c + f /\ (o.hdr # NoHdr => o.hdr.len <= f)
  BY DEF OutRegs, OpenOK, Limited, Gathering
<1> DEFINE x == o.a + n  y == o.a + n + 1  b == o.b
<1>1. CASE o.a + n >= o.b
  <2> DEFINE p == Move(o, x, y)
  <2>1. AckOut(o, n, type, e) = Seal(p, type, e, FALSE)
    BY <1>1 DEF AckOut
  <2>2. x \in Nat /\ y \in Nat
    BY <1>0
  <2>3. p \in OutRegs /\ p.a = x /\ p.b = y /\ p.c = o.c /\ p.hdr = o.hdr
    <3> HIDE DEF x, y
    <3>1. Move(o, x, y).hdr = o.hdr
      BY DEF Move
    <3> QED BY <2>2, <3>1, MoveOK
  <2> HIDE DEF p
  <2>4. p.a # p.b /\ p.a # p.c /\ p.a <= p.c + f
    BY <2>3, <1>0, <1>1
  <2>5. ~Gathering(Seal(p, type, e, FALSE))
    BY <2>4 DEF Seal, Gathering
  <2> QED BY <1>0, <2>1, <2>3, <2>4, <2>5, SealLimited
<1>2. CASE ~(o.a + n >= o.b)
  <2>1. AckOut(o, n, type, e) = Move(o, x, b)
    BY <1>2 DEF AckOut
  <2> QED BY <1>0, <2>1 DEF Limited, Gathering, Move
<1> QED BY <1>1, <1>2

(* ... and a flush of the coroutine.                                       *)
LEMMA FlushRecordLimited ==
  ASSUME NEW o \in OutRegs, NEW n \in Nat, NEW type \in RecTypes \union {0}, NEW f \in Nat,
         outenc \in BOOLEAN, OutOK(o, outenc), Limited(o, f),
         n > 0 => OpenOK(o, outenc) /\ o.a + n <= o.b
  PROVE  Limited(FlushRecord(o, n, type), f)
<1> DEFINE p == IF n > 0 THEN AckOut(o, n, type, outenc) ELSE o
<1>1. FlushRecord(o, n, type) = IF HasPld(p) THEN Seal(p, type, outenc, FALSE) ELSE p
  BY DEF FlushRecord
<1>2. p \in OutRegs /\ OutOK(p, outenc)
  BY AckOutOK
<1>3. Limited(p, f)
  BY AckOutLimited
<1> HIDE DEF p
<1>4. ASSUME Gathering(p) PROVE p.a <= p.c + f
  <2>1. p.a \in Nat /\ p.b \in Nat /\ p.c \in Nat
    BY <1>2 DEF OutRegs
  <2>2. p.a < p.b /\ p.b <= p.c + f
    BY <1>2, <1>3, <1>4 DEF OutOK, OpenOK, SealedOK, Limited, Gathering
  <2> QED BY <2>1, <2>2
<1>5. Limited(Seal(p, type, outenc, FALSE), f)
  <2>1. Gathering(Seal(p, type, outenc, FALSE)) => Gathering(p)
    BY DEF Seal, Gathering
  <2> QED BY <1>2, <1>3, <1>4, <2>1, SealLimited DEF Limited, Gathering
<1> QED BY <1>1, <1>3, <1>5

(* Programs without a fragment length.                                     *)
LEMMA OtherHas == ASSUME NEW t \in Seq(OtherInstr) PROVE ~Has("frag", t)
<1>1. \A k \in 1 .. Len(t) : t[k] \in OtherInstr
  BY LenProperties
<1> QED BY <1>1 DEF Has, OtherInstr

(* The programs that start in the course of a connection, if it is settled *)
(* whether the fragment length is asked for again.                         *)
LEMMA ProgramsSettled ==
  /\ ~Has("frag", FullHandshake) /\ ~Has("frag", Resumption)
  /\ ~Has("frag", DoClose) /\ ~Has("frag", FailAlert) /\ ~Has("frag", <<>>)
  /\ ~Has("frag", OnRenegotiate)
  /\ Settled => ~Has("frag", OnHandshakeData)
<1>1. /\ ~Has("frag", FullHandshake) /\ ~Has("frag", Resumption)
      /\ ~Has("frag", DoClose) /\ ~Has("frag", FailAlert)
  BY ProgramsOther, OtherHas
<1>2. ~Has("frag", <<>>)
  BY DEF Has
<1>3. MsgLen \in Nat /\ Role \in {"client", "server"}
  BY BufferAssumption
<1>4. CASE Role = "client"
  <2>1. DoHandshake \in Seq(OtherInstr)
    <3>1. <<I("begin", 0)>> \in Seq(OtherInstr) /\ <<I("branch", 0)>> \in Seq(OtherInstr)
          /\ <<I("write", MsgLen), I("flush", 0), I("read", MsgLen)>> \in Seq(OtherInstr)
      BY <1>3, InstrOK DEF Ops
    <3> QED BY <3>1, <1>4, CatOther DEF DoHandshake
  <2>2. <<I("noapp", 0), I("read", MsgLen)>> \in Seq(OtherInstr)
    BY <1>3, InstrOK DEF Ops
  <2>3. OnHandshakeData \in Seq(OtherInstr)
    BY <1>4, <2>1, <2>2, CatOther, ProgramsOther DEF OnHandshakeData
  <2> QED BY <1>1, <1>2, <1>4, <2>1, <2>3, OtherHas DEF OnRenegotiate
<1>5. CASE Role = "server"
  <2>1. ~Has("frag", OnRenegotiate)
    BY <1>5 DEF OnRenegotiate, Has, I
  <2>2. <<I("read", MsgLen)>> \in Seq(OtherInstr)
    BY <1>3, InstrOK DEF Ops
  <2>3. NoReneg => OnHandshakeData \in Seq(OtherInstr)
    BY <1>5, <2>2, CatOther, ProgramsOther DEF OnHandshakeData
  <2> QED BY <1>1, <1>2, <1>5, <2>1, <2>3, OtherHas DEF Settled
<1> QED BY <1>3, <1>4, <1>5

(* Steps that do not touch the output registers.                           *)
LEMMA QuietLength ==
  ASSUME LengthInv, UNCHANGED <<ox, maxFrag>>,
         Has("frag", todo') => Has("frag", todo) /\ appdata' \in {0, appdata} /\ h'.put \in {0, h.put}
  PROVE  LengthInv'
<1>1. Limited(ox', maxFrag')
  BY DEF LengthInv
<1>2. Has("frag", todo') => Fresh'
  BY DEF LengthInv, Fresh
<1> QED BY <1>1, <1>2 DEF LengthInv

(* What a failed engine had to do is forgotten.                            *)
LEMMA FailLength == ASSUME LengthInv, UNCHANGED <<ox, maxFrag>>, NEW e, Fail(e) PROVE LengthInv'
<1>1. todo' = <<>>
  BY DEF Fail
<1> QED BY <1>1, QuietLength, ProgramsSettled

-----------------------------------------------------------------------------
(* The length of records: the calls.                                       *)

(* The output registers of an engine that has not failed.                  *)
LEMMA OutLegal ==
  ASSUME IInv, iomode # "FAILED"
  PROVE  /\ ox \in OutRegs /\ outenc \in BOOLEAN /\ OutOK(ox, outenc)
         /\ rtout \in RecTypes \union {0} /\ maxFrag \in Nat
         /\ Gathering(ox) => OpenOK(ox, outenc)
<1>1. /\ ox \in OutRegs /\ outenc \in BOOLEAN /\ OutOK(ox, outenc)
      /\ rtout \in RecTypes \union {0} /\ maxFrag \in Nat
  BY DEF IInv, TypeOK, OutputInv
<1> QED BY <1>1 DEF OutOK, SealedOK, Gathering

(* The registers of a fresh record.                                        *)
LEMMA ReadyOutLength ==
  ASSUME NEW e \in BOOLEAN, NEW f \in Nat, f >= 2
  PROVE  /\ Limited(ReadyOut(e, f), f) /\ ReadyOut(e, f).hdr = NoHdr
         /\ Gathering(ReadyOut(e, f)) /\ ReadyOut(e, f).a = ReadyOut(e, f).c
<1>1. ReadyOut(e, f) \in OutRegs /\ OpenOK(ReadyOut(e, f), e) /\ ReadyOut(e, f).a = ReadyOut(e, f).c
  BY ReadyOutOK
<1>2. ReadyOut(e, f).hdr = NoHdr
  BY DEF ReadyOut
<1>3. Gathering(ReadyOut(e, f))
  BY <1>1 DEF OpenOK, Gathering, OutRegs
<1>4. ReadyOut(e, f).b <= ReadyOut(e, f).c + f
  <2>1. PlainStart(e) \in Int /\ PlainEnd(e) \in Int
    BY BufferAssumption DEF PlainStart, PlainEnd, Pre, Post, Least
  <2>2. ReadyOut(e, f).b = Least(PlainEnd(e), PlainStart(e) + f) /\ ReadyOut(e, f).c = PlainStart(e)
    BY DEF ReadyOut
  <2> QED BY <2>1, <2>2 DEF Least
<1> QED BY <1>1, <1>2, <1>3, <1>4 DEF Limited

(* A reset engine has a fresh record, of the length in force.              *)
LEMMA InitLength == ASSUME Init PROVE LengthInv
<1>1. /\ ox = ReadyOut(FALSE, MaxFrag0) /\ maxFrag = MaxFrag0 /\ appdata = 0 /\ h = Idle
  BY DEF Init
<1>2. MaxFrag0 \in Nat /\ MaxFrag0 >= 2
  BY BufferAssumption
<1> QED BY <1>1, <1>2, ReadyOutLength DEF LengthInv, Fresh, Idle

(* ... also when it was in use before.                                     *)
LEMMA ResetLength == ASSUME IInv, Reset PROVE LengthInv'
<1>1. /\ ox' = ReadyOut(FALSE, maxFrag) /\ maxFrag' = maxFrag /\ appdata' = 0 /\ h' = Idle
  BY DEF Reset
<1>2. maxFrag \in Nat /\ maxFrag >= 2
  BY DEF IInv, TypeOK, CallInv
<1>3. /\ Limited(ReadyOut(FALSE, maxFrag), maxFrag)
      /\ Gathering(ReadyOut(FALSE, maxFrag))
      /\ ReadyOut(FALSE, maxFrag).a = ReadyOut(FALSE, maxFrag).c
  BY <1>2, ReadyOutLength
<1>4. Limited(ox', maxFrag')
  BY <1>1, <1>3
<1>5. Fresh'
  BY <1>1, <1>3 DEF Fresh, Idle
<1> QED BY <1>4, <1>5 DEF LengthInv

(* What the transport delivers does not touch the output registers.        *)
LEMMA RecvLength == ASSUME LengthInv, RecvBody \/ RecvHead PROVE LengthInv'
<1>1. UNCHANGED <<ox, maxFrag, appdata>>
  BY DEF RecvBody, RecvHead, RecvCipherPart, RecvClear, RecvCipherEnd, RecvHeaderPart,
         RecvHeader, outVars
<1>2. (\E e : Fail(e)) \/ UNCHANGED <<todo, h>>
  BY DEF RecvBody, RecvHead, RecvCipherPart, RecvClear, RecvCipherEnd, RecvHeaderPart,
         RecvHeader, Deliver, Jump, hsVars
<1> QED BY <1>1, <1>2, FailLength, QuietLength

(* The rest of a record is sent.                                           *)
LEMMA SendRecAckLength ==
  ASSUME IInv, LengthInv, NEW n, SendRecAck(n)
  PROVE  LengthInv'
<1>1. /\ UNCHANGED <<todo, appdata, maxFrag, h>> /\ iomode # "FAILED" /\ pc = "idle"
  BY DEF SendRecAck, Jump, hsVars, Open
<1>2. maxFrag \in Nat /\ maxFrag >= 2 /\ outenc \in BOOLEAN /\ ox \in OutRegs
  BY DEF IInv, TypeOK, CallInv
<1>3. CASE ox.a + n = ox.c
  <2>1. ox' = ReadyOut(outenc, maxFrag)
    BY <1>3 DEF SendRecAck
  <2>2. /\ Limited(ReadyOut(outenc, maxFrag), maxFrag)
        /\ Gathering(ReadyOut(outenc, maxFrag))
        /\ ReadyOut(outenc, maxFrag).a = ReadyOut(outenc, maxFrag).c
    BY <1>2, ReadyOutLength
  <2>3. Limited(ox', maxFrag')
    BY <1>1, <2>1, <2>2
  <2>4. Has("frag", todo') => Fresh'
    BY <1>1, <2>1, <2>2 DEF LengthInv, Fresh
  <2> QED BY <2>3, <2>4 DEF LengthInv
<1>4. CASE ox.a + n # ox.c
  <2>1. ox' = Move(ox, ox.a + n, ox.a + n)
    BY <1>4 DEF SendRecAck
  <2>2. Limited(ox', maxFrag')
    BY <1>1, <2>1 DEF LengthInv, Limited, Move, Gathering
  <2>3. ~Has("frag", todo)
    <3>1. n \in Portions(SendRecLen)
      BY DEF SendRecAck
    <3>2. SendRecLen # 0
      BY <3>1 DEF Portions
    <3>3. ~Fresh
      <4>1. ox.a \in Nat /\ ox.c \in Nat
        BY <1>2 DEF OutRegs
      <4> QED BY <3>2, <4>1 DEF SendRecLen, Fresh
    <3> QED BY <3>3 DEF LengthInv
  <2> QED BY <1>1, <2>2, <2>3 DEF LengthInv
<1> QED BY <1>3, <1>4

(* The application writes, with no fragment length to come.                *)
LEMMA SendAppOpen ==
  ASSUME IInv, NEW n, SendAppAck(n)
  PROVE  /\ n \in Nat /\ n > 0 /\ OpenOK(ox, outenc) /\ ox.a + n <= ox.b
         /\ iomode \in {"OUT", "INOUT"} /\ appdata = 1 /\ pc = "idle" /\ Gathering(ox)
<1>1. /\ n \in 1 .. SendAppLen /\ ox \in OutRegs /\ iomode # "FAILED" /\ pc = "idle"
  BY DEF SendAppAck, IInv, TypeOK, Open
<1>2. ox.a \in Nat /\ ox.b \in Nat
  BY <1>1 DEF OutRegs
<1>3. appdata = 1 /\ iomode \in {"OUT", "INOUT"}
  <2>1. SUFFICES ASSUME ~(appdata = 1 /\ iomode \in {"OUT", "INOUT"}) PROVE FALSE
    OBVIOUS
  <2>2. SendAppLen = 0
    BY <2>1 DEF SendAppLen, SendPldLen
  <2> QED BY <1>1, <2>2
<1>4. SendAppLen = ox.b - ox.a
  BY <1>3 DEF SendAppLen, SendPldLen
<1>5. n \in Nat /\ n > 0 /\ ox.a + n <= ox.b /\ Gathering(ox)
  BY <1>1, <1>2, <1>4 DEF Gathering
<1> QED BY <1>1, <1>3, <1>5, OutLegal

(* ... and the record it writes into keeps within its length.              *)
LEMMA SendAppAckLength ==
  ASSUME IInv, LengthInv, NEW n, SendAppAck(n)
  PROVE  LengthInv'
<1>1. /\ UNCHANGED <<todo, appdata, maxFrag>>
      /\ ox' = AckOut(Written(ox, APPDATA, outenc), n, rtout, outenc)
  BY DEF SendAppAck, hsVars
<1>2. /\ n \in Nat /\ n > 0 /\ OpenOK(ox, outenc) /\ ox.a + n <= ox.b /\ appdata = 1
      /\ iomode # "FAILED"
  BY SendAppOpen
<1>3. ox \in OutRegs /\ outenc \in BOOLEAN /\ maxFrag \in Nat
  BY <1>2, OutLegal
<1> DEFINE w == Written(ox, APPDATA, outenc)
<1>4. w \in OutRegs /\ w.a = ox.a /\ w.b = ox.b /\ w.c = ox.c /\ w.hdr = ox.hdr
  <2>1. APPDATA \in RecTypes \union {0}
    BY DEF RecTypes
  <2>2. w.hdr = ox.hdr
    BY DEF Written
  <2> QED BY <1>3, <2>1, <2>2, WrittenOK
<1> HIDE DEF w
<1>5. OpenOK(w, outenc) /\ Limited(w, maxFrag) /\ w.a + n <= w.b
  BY <1>2, <1>4 DEF OpenOK, LengthInv, Limited, Gathering
<1>6. Limited(AckOut(w, n, rtout, outenc), maxFrag)
  BY <1>2, <1>3, <1>4, <1>5, AckOutLimited
<1>7. Limited(ox', maxFrag')
  BY <1>1, <1>6 DEF w
<1>8. ~Has("frag", todo)
  BY <1>2 DEF LengthInv, Fresh
<1> QED BY <1>1, <1>7, <1>8 DEF LengthInv

(* The other calls of the application.                                     *)
LEMMA OtherCallsLength ==
  ASSUME IInv, LengthInv,
         \/ \E n \in 1 .. RecvAppLen : RecvAppAck(n)
         \/ \E force \in Forces : Flush(force)
         \/ Close \/ Renegotiate \/ IoFail
  PROVE  LengthInv'
<1>1. CASE IoFail
  BY <1>1, FailLength DEF IoFail, outVars
<1>2. CASE (\E n \in 1 .. RecvAppLen : RecvAppAck(n)) \/ Close \/ Renegotiate
  <2>1. UNCHANGED <<ox, maxFrag, todo, h, appdata>>
    BY <1>2 DEF RecvAppAck, Close, Renegotiate, Jump, hsVars, outVars
  <2> QED BY <2>1, QuietLength
<1>3. ASSUME NEW force \in Forces, Flush(force) PROVE LengthInv'
  <2>1. /\ UNCHANGED <<todo, appdata, maxFrag>> /\ appdata = 1 /\ iomode # "FAILED"
        /\ ox' = Seal(ox, rtout, outenc, force)
    BY <1>3 DEF Flush, hsVars, Open
  <2>2. ox \in OutRegs /\ outenc \in BOOLEAN /\ maxFrag \in Nat /\ OutOK(ox, outenc)
    BY <2>1, OutLegal
  <2>3. ox.a # ox.b => ox.a <= ox.c + maxFrag
    <3>1. ox.a \in Nat /\ ox.b \in Nat /\ ox.c \in Nat
      BY <2>2 DEF OutRegs
    <3> QED BY <2>2, <3>1 DEF OutOK, OpenOK, SealedOK, LengthInv, Limited, Gathering
  <2>4. Gathering(Seal(ox, rtout, outenc, force)) => Gathering(ox)
    BY DEF Seal, Gathering
  <2>5. Limited(Seal(ox, rtout, outenc, force), maxFrag)
    BY <2>2, <2>3, <2>4, SealLimited DEF LengthInv, Limited
  <2>6. Limited(ox', maxFrag')
    BY <2>1, <2>5
  <2>7. ~Has("frag", todo)
    BY <2>1 DEF LengthInv, Fresh
  <2> QED BY <2>1, <2>6, <2>7 DEF LengthInv
<1> QED BY <1>1, <1>2, <1>3

-----------------------------------------------------------------------------
(* The length of records: the coroutine.                                   *)

(* What was written fits into an open record.                              *)
LEMMA PutFits ==
  ASSUME IInv, h.put > 0 \/ h.out > 0
  PROVE  /\ h \in Window /\ OpenOK(ox, outenc) /\ ox.a + h.put + h.out <= ox.b
         /\ iomode \in {"OUT", "INOUT"}
<1>1. h \in Window /\ ox \in OutRegs
  BY DEF IInv, TypeOK
<1>2. h.put \in Nat /\ h.out \in Nat /\ ox.a \in Nat /\ ox.b \in Nat
  BY <1>1 DEF Window, OutRegs
<1>3. iomode \in {"OUT", "INOUT"} /\ ox.a < ox.b /\ ox.a + h.put + h.out <= ox.b
  BY <1>2 DEF IInv, WindowInv
<1>4. Gathering(ox)
  BY <1>2, <1>3 DEF Gathering
<1> QED BY <1>1, <1>3, <1>4, OutLegal

(* On return, what was written is added to the open record.                *)
LEMMA HsReturnLength == ASSUME IInv, LengthInv, HsReturn PROVE LengthInv'
<1>1. /\ UNCHANGED <<todo, appdata, maxFrag>> /\ h'.put = 0 /\ pc = "yield"
      /\ ox' = IF h.put > 0 THEN AckOut(ox, h.put, rtout, outenc) ELSE ox
  BY DEF HsReturn, Idle
<1>2. CASE h.put > 0
  <2>1. OpenOK(ox, outenc) /\ h \in Window /\ ox.a + h.put + h.out <= ox.b /\ iomode # "FAILED"
    BY <1>2, PutFits
  <2>2. ox \in OutRegs /\ outenc \in BOOLEAN /\ maxFrag \in Nat
    BY <2>1, OutLegal
  <2>3. h.put \in Nat /\ ox.a + h.put <= ox.b
    BY <2>1, <2>2 DEF Window, OutRegs
  <2>4. Limited(AckOut(ox, h.put, rtout, outenc), maxFrag)
    BY <1>2, <2>1, <2>2, <2>3, AckOutLimited DEF LengthInv
  <2>5. ~Has("frag", todo)
    BY <1>2 DEF LengthInv, Fresh
  <2> QED BY <1>1, <1>2, <2>4, <2>5 DEF LengthInv
<1>3. CASE ~(h.put > 0)
  BY <1>1, <1>3, QuietLength
<1> QED BY <1>2, <1>3

(* What follows the return of co writes nothing.                           *)
LEMMA ReturnLength ==
  ASSUME Settled, IInv, LengthInv,
         HsEnter \/ HsClose \/ HsAlerts \/ HsAlertsEnd \/ HsGoOn \/ HsDiscard
         \/ HsYield \/ \E byte : HsAlertByte(byte)
  PROVE  LengthInv'
<1>1. UNCHANGED <<ox, maxFrag>>
  BY DEF HsEnter, HsClose, HsAlerts, HsAlertsEnd, HsGoOn, HsDiscard, HsYield, HsAlertByte, outVars
<1>2. CASE HsEnter
  <2>1. UNCHANGED <<todo, appdata>> /\ h'.put = 0
    BY <1>2 DEF HsEnter
  <2> QED BY <1>1, <2>1, QuietLength
<1>3. CASE HsClose
  <2>1. todo' = DoClose
    BY <1>3 DEF HsClose, StartClose
  <2> QED BY <1>1, <2>1, QuietLength, ProgramsSettled
<1>4. CASE HsAlerts \/ HsYield
  <2>1. UNCHANGED <<todo, appdata, h>>
    BY <1>4 DEF HsAlerts, HsYield
  <2> QED BY <1>1, <2>1, QuietLength
<1>5. ASSUME Continue, appdata' = appdata PROVE LengthInv'
  <2>1. h' = h /\ (todo' = todo \/ todo' = OnRenegotiate)
    BY <1>5 DEF Continue
  <2> QED BY <1>1, <1>5, <2>1, QuietLength, ProgramsSettled
<1>6. CASE HsAlertsEnd
  <2>1. CASE Closing
    <3>1. appdata' = 0 /\ UNCHANGED <<h, todo>>
      BY <1>6, <2>1 DEF HsAlertsEnd
    <3> QED BY <1>1, <3>1, QuietLength
  <2>2. CASE ~Closing /\ cnr
    <3>1. todo' = DoClose
      BY <1>6, <2>2 DEF HsAlertsEnd, StartClose
    <3> QED BY <1>1, <3>1, QuietLength, ProgramsSettled
  <2>3. CASE ~Closing /\ ~cnr
    BY <1>5, <1>6, <2>3 DEF HsAlertsEnd
  <2> QED BY <2>1, <2>2, <2>3
<1>7. CASE HsGoOn
  <2>1. appdata' = appdata
    BY <1>7 DEF HsGoOn
  <2>2. CASE Fail("ERROR")
    BY <1>1, <2>2, FailLength
  <2>3. CASE Continue
    BY <1>5, <2>1, <2>3
  <2>4. CASE todo' = OnHandshakeData
    BY <1>1, <2>4, QuietLength, ProgramsSettled
  <2> QED BY <1>7, <2>2, <2>3, <2>4 DEF HsGoOn
<1>8. CASE HsDiscard
  <2>1. /\ UNCHANGED <<todo, appdata>> /\ h' = IF cnr THEN h ELSE [h EXCEPT !.in = 0]
        /\ pc = "resume"
    BY <1>8 DEF HsDiscard
  <2>2. h'.put = h.put
    BY <2>1, NothingPut DEF Window
  <2> QED BY <1>1, <2>1, <2>2, QuietLength
<1>9. ASSUME NEW byte, HsAlertByte(byte) PROVE LengthInv'
  <2>1. CASE Fail("ERROR")
    BY <1>1, <2>1, FailLength
  <2>2. CASE ~Fail("ERROR")
    <3>1. UNCHANGED <<appdata, todo>> /\ h' = [h EXCEPT !.in = @ - 1] /\ pc = "alerts"
      BY <1>9, <2>2 DEF HsAlertByte
    <3>2. h'.put = h.put
      BY <3>1, NothingPut DEF Window
    <3> QED BY <1>1, <3>1, <3>2, QuietLength
  <2> QED BY <2>1, <2>2
<1> QED BY <1>2, <1>3, <1>4, <1>6, <1>7, <1>8, <1>9

(* An instruction that only other programs hold.                           *)
LEMMA NoFragLeft ==
  ASSUME IInv, NEW op, Running(op), op \notin {"begin", "read", "frag", "nomore", "branch"}
  PROVE  ~Has("frag", Tail(todo)) /\ ~Has("frag", todo)
<1>1. Tail(todo) \in Seq(OtherInstr) /\ Head(todo).op = op /\ pc = "run"
  BY RunOther
<1>2. todo \in Seq(Instr) /\ todo # <<>>
  BY DEF IInv, TypeOK, Running, At
<1>3. ~Has("frag", Tail(todo))
  BY <1>1, OtherHas
<1> QED BY <1>1, <1>2, <1>3, TailParts

(* Writing does not move a register.                                       *)
LEMMA PutLength ==
  ASSUME IInv, LengthInv, NEW n, NEW type, Put(n, type), UNCHANGED maxFrag, ~Has("frag", todo')
  PROVE  LengthInv'
<1>1. ox' = Written(ox, type, outenc)
  BY DEF Put
<1>2. ox'.a = ox.a /\ ox'.b = ox.b /\ ox'.c = ox.c /\ ox'.hdr = ox.hdr
  BY <1>1 DEF Written
<1>3. Limited(ox', maxFrag')
  BY <1>2 DEF LengthInv, Limited, Gathering
<1> QED BY <1>3 DEF LengthInv

(* The instructions that write.                                            *)
LEMMA WriteLength == ASSUME IInv, LengthInv, HsWrite \/ HsAlertOut PROVE LengthInv'
<1>1. CASE HsWrite
  <2>1. Running("write") /\ UNCHANGED maxFrag
    BY <1>1 DEF HsWrite
  <2>2. ~Has("frag", Tail(todo)) /\ ~Has("frag", todo)
    BY <2>1, NoFragLeft
  <2>3. \E n, type : Put(n, type)
    BY <1>1 DEF HsWrite
  <2>4. todo \in Seq(Instr) /\ todo # <<>> /\ Head(todo).op = "write"
    BY <2>1 DEF IInv, TypeOK, Running, At
  <2>5. \A m : ~Has("frag", Shortened(todo, m))
    BY <2>2, <2>4, SameParts
  <2>6. todo' = Tail(todo) \/ \E m : todo' = Shortened(todo, m)
    BY <1>1, <2>4 DEF HsWrite, Shortened
  <2>7. ~Has("frag", todo')
    BY <2>2, <2>5, <2>6
  <2> QED BY <2>1, <2>3, <2>7, PutLength
<1>2. CASE HsAlertOut
  <2>1. Running("alert") /\ UNCHANGED maxFrag /\ todo' = Tail(todo) /\ Put(Least(2, h.out), ALERT)
    BY <1>2 DEF HsAlertOut, Next1
  <2>2. ~Has("frag", todo')
    BY <2>1, NoFragLeft
  <2> QED BY <2>1, <2>2, PutLength
<1> QED BY <1>1, <1>2

(* The instructions that flush.                                            *)
LEMMA FlushLength == ASSUME IInv, LengthInv, HsFlush \/ HsWriteCcs PROVE LengthInv'
<1>0. iomode # "FAILED"
  <2>1. pc = "run"
    BY DEF HsFlush, HsWriteCcs, Running
  <2> QED BY <2>1, RunningOpen
<1>1. ox \in OutRegs /\ outenc \in BOOLEAN /\ OutOK(ox, outenc) /\ maxFrag \in Nat
      /\ rtout \in RecTypes \union {0}
  BY <1>0, OutLegal
<1>2. h.put \in Nat /\ h.out \in Nat /\ ox.a \in Nat /\ ox.b \in Nat
  BY <1>1 DEF IInv, TypeOK, Window, OutRegs
<1>3. CASE HsFlush
  <2>1. Running("flush") /\ UNCHANGED maxFrag /\ todo' = Tail(todo)
        /\ ox' = FlushRecord(ox, h.put, rtout)
    BY <1>3 DEF HsFlush, Next1
  <2>2. ~Has("frag", todo')
    BY <2>1, NoFragLeft
  <2>3. h.put > 0 => OpenOK(ox, outenc) /\ ox.a + h.put <= ox.b
    BY <1>2, PutFits
  <2>4. Limited(FlushRecord(ox, h.put, rtout), maxFrag)
    BY <1>1, <1>2, <2>3, FlushRecordLimited DEF LengthInv
  <2>5. Limited(ox', maxFrag')
    BY <2>1, <2>4
  <2> QED BY <2>2, <2>5 DEF LengthInv
<1>4. CASE HsWriteCcs
  <2> DEFINE w == Written(ox, CCS, outenc)  n == h.put + 1
  <2>1. Running("writeCcs") /\ UNCHANGED maxFrag /\ todo' = Tail(todo) /\ h.out > 0
        /\ ox' = FlushRecord(w, n, CCS)
    BY <1>4 DEF HsWriteCcs, Next1
  <2>2. ~Has("frag", todo')
    BY <2>1, NoFragLeft
  <2>3. CCS \in RecTypes \union {0}
    BY DEF RecTypes
  <2>4. w \in OutRegs /\ w.a = ox.a /\ w.b = ox.b /\ w.c = ox.c
    BY <1>1, <2>3, WrittenOK
  <2>5. w.hdr = ox.hdr
    BY DEF Written
  <2>6. n \in Nat /\ ox.a + n <= ox.b /\ OpenOK(ox, outenc)
    BY <1>2, <2>1, PutFits
  <2> HIDE DEF w, n
  <2>7. OpenOK(w, outenc) /\ Limited(w, maxFrag) /\ w.a + n <= w.b
    BY <2>4, <2>5, <2>6 DEF OpenOK, LengthInv, Limited, Gathering
  <2>8. Limited(FlushRecord(w, n, CCS), maxFrag)
    BY <1>1, <2>3, <2>4, <2>6, <2>7, FlushRecordLimited DEF OutOK
  <2>9. Limited(ox', maxFrag')
    BY <2>1, <2>8
  <2> QED BY <2>2, <2>9 DEF LengthInv
<1> QED BY <1>3, <1>4

(* The fragment length is lowered while the open record is fresh.          *)
LEMMA HsFragLength ==
  ASSUME IInv, OrderInv, LengthInv, NEW f \in FragSizes, HsFrag(f)
  PROVE  LengthInv'
<1>1. /\ Running("frag") /\ todo' = Tail(todo) /\ UNCHANGED appdata
  BY DEF HsFrag, Next1
<1>2. todo \in Seq(Instr) /\ todo # <<>> /\ Head(todo).op = "frag" /\ pc = "run"
  BY <1>1 DEF IInv, TypeOK, Running, At
<1>3. iomode # "FAILED"
  BY <1>2, RunningOpen
<1>4. Has("frag", todo)
  BY <1>2, TailParts
<1>5. Fresh /\ ox \in OutRegs /\ OpenOK(ox, outenc) /\ ox.hdr = NoHdr /\ maxFrag \in Nat
  BY <1>3, <1>4, OutLegal DEF LengthInv, Fresh, OrderInv, HdrInv
<1>6. f \in Nat /\ f >= 2 /\ ox.a \in Nat /\ ox.b \in Nat /\ ox.c \in Nat
  BY <1>5, BufferAssumption DEF OutRegs
<1>7. CASE f < maxFrag
  <2>1. maxFrag' = f /\ ox' = ShrinkOut(ox, f) /\ h'.put = h.put
    BY <1>7 DEF HsFrag, Offer
  <2>2. CASE ox.b > ox.c + f
    <3>1. ShrinkOut(ox, f) = Move(ox, ox.a, ox.c + f)
      BY <1>5, <1>6, <2>2 DEF ShrinkOut, OpenOK, Fresh
    <3>2. ox'.a = ox.a /\ ox'.b = ox.c + f /\ ox'.c = ox.c /\ ox'.hdr = NoHdr
      BY <1>5, <2>1, <3>1 DEF Move
    <3>3. Limited(ox', maxFrag') /\ Fresh'
      BY <1>1, <1>5, <1>6, <2>1, <3>2 DEF Limited, Fresh, Gathering
    <3> QED BY <3>3 DEF LengthInv
  <2>3. CASE ~(ox.b > ox.c + f)
    <3>1. ox' = ox
      BY <2>1, <2>3 DEF ShrinkOut
    <3>2. Limited(ox', maxFrag') /\ Fresh'
      BY <1>1, <1>5, <1>6, <2>1, <2>3, <3>1 DEF Limited, Fresh, Gathering
    <3> QED BY <3>2 DEF LengthInv
  <2> QED BY <2>2, <2>3
<1>8. CASE ~(f < maxFrag)
  <2>1. UNCHANGED <<maxFrag, ox, h>>
    BY <1>8 DEF HsFrag
  <2> QED BY <1>1, <1>4, <2>1, QuietLength
<1> QED BY <1>7, <1>8

(* The other instructions leave the output registers alone.                *)
LEMMA RunLength ==
  ASSUME IInv, LengthInv,
         \/ HsSet \/ HsRoom \/ HsNoMore \/ HsNoFrag \/ HsRefuse \/ HsBranch \/ HsEnd
         \/ \E bad : HsRead(bad) \/ HsReadCcs(bad)
  PROVE  LengthInv'
<1>1. UNCHANGED <<ox, maxFrag>>
  BY DEF HsSet, HsRoom, HsNoMore, HsNoFrag, HsRefuse, HsBranch, HsEnd, HsRead, HsReadCcs, outVars
<1>2. CASE \E e : Fail(e)
  BY <1>1, <1>2, FailLength
<1>3. ASSUME NEW op, Running(op), todo' = Tail(todo), h'.put = h.put,
             appdata' \in {0, appdata} \/ op = "end"
      PROVE  LengthInv'
  <2>1. todo \in Seq(Instr) /\ todo # <<>>
    BY <1>3 DEF IInv, TypeOK, Running, At
  <2>2. Has("frag", Tail(todo)) => Has("frag", todo)
    BY <2>1, TailParts
  <2>3. op = "end" => ~Has("frag", Tail(todo))
    BY <1>3, NoFragLeft
  <2> QED BY <1>1, <1>3, <2>2, <2>3, QuietLength
<1>4. CASE HsSet
  <2>1. todo' = Tail(todo) /\ h' = h
    BY <1>4 DEF HsSet, Next1
  <2>2. \E op : Running(op) /\ (appdata' \in {0, appdata} \/ op = "end")
    BY <1>4 DEF HsSet
  <2> QED BY <1>3, <2>1, <2>2
<1>5. CASE HsRoom \/ HsNoFrag
  <2>1. todo' = Tail(todo) /\ h' = h /\ appdata' = appdata /\ \E op : Running(op)
    BY <1>5 DEF HsRoom, HsNoFrag, Next1
  <2> QED BY <1>3, <2>1
<1>6. CASE HsNoMore
  <2>1. CASE MoreIncoming(h.in)
    BY <1>2, <1>6, <2>1 DEF HsNoMore
  <2>2. CASE ~MoreIncoming(h.in)
    <3>1. todo' = Tail(todo) /\ h' = h /\ appdata' = appdata /\ Running("nomore")
      BY <1>6, <2>2 DEF HsNoMore, Next1
    <3> QED BY <1>3, <3>1
  <2> QED BY <2>1, <2>2
<1>7. CASE HsBranch \/ HsRefuse
  <2>1. todo' \in {FullHandshake, Resumption, FailAlert}
    BY <1>7 DEF HsBranch, HsRefuse
  <2> QED BY <1>1, <2>1, QuietLength, ProgramsSettled
<1>8. CASE HsEnd
  BY <1>2, <1>8 DEF HsEnd
<1>9. ASSUME NEW bad, HsRead(bad) PROVE LengthInv'
  <2> DEFINE n == Head(todo).n
             k == Least(n, h.in)
  <2>0. Running("read") /\ appdata' = appdata
    BY <1>9 DEF HsRead
  <2>1. todo \in Seq(Instr) /\ todo # <<>> /\ Head(todo).op = "read" /\ h \in Window
    BY <2>0 DEF IInv, TypeOK, Running, At
  <2>2. CASE Fail("ERROR")
    BY <1>2, <2>2
  <2>3. CASE ~Fail("ERROR")
    <3>1. h' = [h EXCEPT !.in = h.in - k]
      BY <1>9, <2>3 DEF HsRead
    <3>2. h'.put = h.put
      BY <2>1, <3>1 DEF Window
    <3>3. todo' = Tail(todo) \/ \E m : todo' = Shortened(todo, m)
      BY <1>9, <2>1, <2>3 DEF HsRead, Shortened
    <3>4. Has("frag", Tail(todo)) => Has("frag", todo)
      BY <2>1, TailParts
    <3>5. \A m : Has("frag", Shortened(todo, m)) => Has("frag", todo)
      BY <2>1, SameParts
    <3>6. Has("frag", todo') => Has("frag", todo)
      BY <3>3, <3>4, <3>5
    <3> QED BY <1>1, <2>0, <3>2, <3>6, QuietLength
  <2> QED BY <2>2, <2>3
<1>10. ASSUME NEW bad, HsReadCcs(bad) PROVE LengthInv'
  <2>1. Running("readCcs") /\ appdata' = appdata
    BY <1>10 DEF HsReadCcs
  <2>2. CASE Fail("ERROR")
    BY <1>2, <2>2
  <2>3. CASE ~Fail("ERROR")
    <3>1. todo' = Tail(todo) /\ h' = [h EXCEPT !.in = @ - 1]
      BY <1>10, <2>3 DEF HsReadCcs, Next1
    <3>2. h'.put = h.put
      BY <3>1 DEF IInv, TypeOK, Window
    <3> QED BY <1>3, <2>1, <3>1, <3>2
  <2> QED BY <2>2, <2>3
<1> QED BY <1>4, <1>5, <1>6, <1>7, <1>8, <1>9, <1>10

(* Every step keeps the records within the fragment length.                *)
LEMMA NextLength ==
  ASSUME Settled, IInv, OrderInv, LengthInv, [Next]_vars
  PROVE  LengthInv'
<1>1. CASE HsStep
  BY <1>1, HsReturnLength, ReturnLength, WriteLength, FlushLength, HsFragLength, RunLength
     DEF HsStep
<1>2. CASE RecvBody \/ RecvHead \/ SendRec
  BY <1>2, RecvLength, SendRecAckLength DEF SendRec
<1>3. CASE AppStep
  BY <1>3, SendAppAckLength, OtherCallsLength, ResetLength DEF AppStep
<1>4. CASE UNCHANGED vars
  BY <1>4 DEF vars, inVars, outVars, hsVars, LengthInv, Fresh
<1> QED BY <1>1, <1>2, <1>3, <1>4 DEF Next

(* No sealed record exceeds the fragment length, which a ClientHello may   *)
(* lower while the coroutine holds a window into the open record           *)
(* (br_ssl_engine_new_max_frag_len, set-max-frag-len).                     *)
THEOREM RecordsWithinFragment ==
  ASSUME Shared => Forces \subseteq {FALSE}, NoReneg \/ Role = "client"
  PROVE  Spec => []SealedWithinFragment
<1>1. Init => LengthInv
  BY InitLength
<1>2. IInv /\ OrderInv /\ LengthInv /\ [Next]_vars => LengthInv'
  BY NextLength DEF Settled
<1>3. LengthInv => SealedWithinFragment
  BY DEF LengthInv, Limited, SealedWithinFragment, Record
<1> QED BY <1>1, <1>2, <1>3, Invariance, OrderKept, PTL DEF Spec

-----------------------------------------------------------------------------
(* The types of records: the course of a connection without renegotiation. *)

(* What is left of the refusal of a renegotiation, of a closure and of a   *)
(* failure, as long as their alert is still to be written.                 *)
RejectRoom  == <<I("room", 0), I("alert", 2), I("flush", 0), I("end", 0)>>
RejectAlert == <<I("alert", 2), I("flush", 0), I("end", 0)>>
CloseRoom   == <<I("closeRoom", 0), I("alert", 2), I("flush", 0), I("closeWait", 0)>>
CloseAlert  == <<I("alert", 2), I("flush", 0), I("closeWait", 0)>>
FailRoom    == <<I("room", 0), I("alert", 2), I("flush", 0), I("room", 0), I("fail", 0)>>
FailSend    == <<I("alert", 2), I("flush", 0), I("room", 0), I("fail", 0)>>

Rejects    == {RejectReneg, RejectRoom, RejectAlert}
RejectEnds == Rejects \union {<<I("flush", 0), I("end", 0)>>, <<I("end", 0)>>, <<>>}
Refusals   == Rejects \union {DoClose, CloseRoom, CloseAlert, FailAlert, FailRoom, FailSend}

(* The request that is refused is being read.                              *)
Rejecting(t) == t # <<>> /\ Head(t).op = "read" /\ Tail(t) = RejectReneg

(* A program has no alert, or is one of those; no write is empty.          *)
PlainWrite == {i \in Instr : i.op # "alert" /\ (i.op = "write" => i.n > 0)}
Shape(t) == \/ t \in Seq(PlainWrite) \/ t \in Refusals
            \/ Rejecting(t) \/ t = OnHandshakeData

(* While application data may pass, at most a refusal is going on; the     *)
(* record type is that of application data but for its last lines.         *)
CourseInv ==
  /\ Shape(todo)
  /\ At("alert") => pc = "run" /\ h.out > 0
  /\ appdata = 1 => todo \in RejectEnds \/ Rejecting(todo) \/ todo = OnHandshakeData
  /\ iomode # "FAILED" /\ appdata = 1 =>
       rtout = APPDATA \/ At("end") \/ (At("flush") /\ Tail(todo) = <<I("end", 0)>>)
  /\ action # 2

(* The refusals, one instruction after the other.                          *)
LEMMA RefusalTails ==
  /\ \A t \in Refusals : t # <<>>
  /\ Head(RejectReneg).op = "flush" /\ Tail(RejectReneg) = RejectRoom
  /\ Head(RejectRoom).op = "room" /\ Tail(RejectRoom) = RejectAlert
  /\ Head(RejectAlert).op = "alert" /\ Tail(RejectAlert) = <<I("flush", 0), I("end", 0)>>
  /\ Head(DoClose).op = "flush" /\ Tail(DoClose) = CloseRoom
  /\ Head(CloseRoom).op = "closeRoom" /\ Tail(CloseRoom) = CloseAlert
  /\ Head(CloseAlert).op = "alert" /\ Tail(CloseAlert) = <<I("flush", 0), I("closeWait", 0)>>
  /\ Head(FailAlert).op = "flush" /\ Tail(FailAlert) = FailRoom
  /\ Head(FailRoom).op = "room" /\ Tail(FailRoom) = FailSend
  /\ Head(FailSend).op = "alert"
  /\ Tail(FailSend) = <<I("flush", 0), I("room", 0), I("fail", 0)>>
<1>1. \A t \in Refusals : t # <<>>
  BY DEF Refusals, Rejects, RejectReneg, RejectRoom, RejectAlert, DoClose, CloseRoom, CloseAlert,
         FailAlert, FailRoom, FailSend
<1>2. /\ Head(RejectReneg).op = "flush" /\ Tail(RejectReneg) = RejectRoom
      /\ Head(RejectRoom).op = "room" /\ Tail(RejectRoom) = RejectAlert
      /\ Head(RejectAlert).op = "alert" /\ Tail(RejectAlert) = <<I("flush", 0), I("end", 0)>>
  BY DEF RejectReneg, RejectRoom, RejectAlert, I
<1>3. /\ Head(DoClose).op = "flush" /\ Tail(DoClose) = CloseRoom
      /\ Head(CloseRoom).op = "closeRoom" /\ Tail(CloseRoom) = CloseAlert
      /\ Head(CloseAlert).op = "alert" /\ Tail(CloseAlert) = <<I("flush", 0), I("closeWait", 0)>>
  BY DEF DoClose, CloseRoom, CloseAlert, I
<1>4. /\ Head(FailAlert).op = "flush" /\ Tail(FailAlert) = FailRoom
      /\ Head(FailRoom).op = "room" /\ Tail(FailRoom) = FailSend
      /\ Head(FailSend).op = "alert"
      /\ Tail(FailSend) = <<I("flush", 0), I("room", 0), I("fail", 0)>>
  BY DEF FailAlert, FailRoom, FailSend, I
<1> QED BY <1>1, <1>2, <1>3, <1>4

(* The last lines of a refusal.                                            *)
LEMMA EndTails ==
  /\ <<I("flush", 0), I("end", 0)>> # <<>> /\ Head(<<I("flush", 0), I("end", 0)>>).op = "flush"
  /\ Tail(<<I("flush", 0), I("end", 0)>>) = <<I("end", 0)>>
  /\ <<I("end", 0)>> # <<>> /\ Head(<<I("end", 0)>>).op = "end"
  /\ Tail(<<I("end", 0)>>) = <<>>
BY DEF I

(* What a program is made of.                                              *)
LEMMA PlainWriteOK ==
  ASSUME NEW op \in Ops \ {"alert"}, NEW n \in Nat, op = "type" => n \in RecTypes,
         op = "write" => n > 0
  PROVE  I(op, n) \in PlainWrite
BY DEF I, Ops, PlainWrite, Instr

(* Programs concatenate.                                                   *)
LEMMA CatWrite ==
  ASSUME NEW s \in Seq(PlainWrite), NEW t \in Seq(PlainWrite)
  PROVE  s \o t \in Seq(PlainWrite)
BY ConcatProperties

(* The programs of a handshake have no alert.                              *)
LEMMA ProgramsWrite ==
  /\ DoHandshake \in Seq(PlainWrite) /\ FullHandshake \in Seq(PlainWrite)
  /\ Resumption \in Seq(PlainWrite)
  /\ <<I("flush", 0), I("end", 0)>> \in Seq(PlainWrite) /\ <<I("end", 0)>> \in Seq(PlainWrite)
  /\ <<I("flush", 0), I("closeWait", 0)>> \in Seq(PlainWrite)
  /\ <<I("flush", 0), I("room", 0), I("fail", 0)>> \in Seq(PlainWrite)
  /\ <<>> \in Seq(PlainWrite)
<1>1. MsgLen \in Nat /\ MsgLen > 0 /\ Role \in {"client", "server"}
  BY BufferAssumption
<1>2. HANDSHAKE \in Nat /\ HANDSHAKE \in RecTypes
  BY DEF HANDSHAKE, RecTypes
<1>3. \A op \in Ops \ {"type", "alert"}, n \in Nat :
        (op = "write" => n > 0) => I(op, n) \in PlainWrite
  BY PlainWriteOK
<1>4. /\ I("flush", 0) \in PlainWrite /\ I("writeCcs", 1) \in PlainWrite
      /\ I("room", 0) \in PlainWrite /\ I("write", MsgLen) \in PlainWrite
      /\ I("readCcs", 1) \in PlainWrite /\ I("read", MsgLen) \in PlainWrite
      /\ I("nomore", 0) \in PlainWrite /\ I("end", 0) \in PlainWrite
      /\ I("begin", 0) \in PlainWrite /\ I("branch", 0) \in PlainWrite
      /\ I("frag", 0) \in PlainWrite /\ I("fail", 0) \in PlainWrite
      /\ I("closeWait", 0) \in PlainWrite
  BY <1>1, <1>3 DEF Ops
<1>5. I("type", HANDSHAKE) \in PlainWrite
  BY <1>2, PlainWriteOK DEF Ops
<1> HIDE DEF PlainWrite
<1>6. /\ WriteCcsFinished \in Seq(PlainWrite) /\ ReadCcsFinished \in Seq(PlainWrite)
      /\ <<I("flush", 0), I("end", 0)>> \in Seq(PlainWrite) /\ <<I("end", 0)>> \in Seq(PlainWrite)
      /\ <<I("flush", 0), I("closeWait", 0)>> \in Seq(PlainWrite)
      /\ <<I("flush", 0), I("room", 0), I("fail", 0)>> \in Seq(PlainWrite)
      /\ <<>> \in Seq(PlainWrite)
  BY <1>4, <1>5 DEF WriteCcsFinished, ReadCcsFinished
<1>7. /\ <<I("begin", 0)>> \in Seq(PlainWrite) /\ <<I("branch", 0)>> \in Seq(PlainWrite)
      /\ <<I("write", MsgLen), I("flush", 0), I("read", MsgLen)>> \in Seq(PlainWrite)
      /\ <<I("read", MsgLen), I("frag", 0), I("nomore", 0)>> \in Seq(PlainWrite)
      /\ <<I("read", MsgLen), I("nomore", 0), I("write", MsgLen)>> \in Seq(PlainWrite)
      /\ <<I("write", MsgLen)>> \in Seq(PlainWrite)
  BY <1>4
<1>8. DoHandshake \in Seq(PlainWrite)
  BY <1>1, <1>7, CatWrite DEF DoHandshake
<1>9. FullHandshake \in Seq(PlainWrite)
  BY <1>6, <1>7, CatWrite DEF FullHandshake
<1>10. Resumption \in Seq(PlainWrite)
  BY <1>6, <1>7, CatWrite DEF Resumption
<1> QED BY <1>6, <1>8, <1>9, <1>10

(* A first instruction before a program.                                   *)
LEMMA ConsParts ==
  ASSUME NEW x, NEW s \in Seq(Instr)
  PROVE  <<x>> \o s # <<>> /\ Head(<<x>> \o s) = x /\ Tail(<<x>> \o s) = s
<1> DEFINE S == Instr \union {x}  t == <<x>> \o s
<1>1. s \in Seq(S) /\ <<x>> \in Seq(S)
  BY SMT
<1>2. /\ t \in Seq(S) /\ Len(t) = Len(s) + 1
      /\ \A j \in 1 .. Len(s) + 1 : t[j] = IF j = 1 THEN x ELSE s[j - 1]
  BY <1>1, ConcatProperties, LenProperties
<1>3. t # <<>> /\ Head(t) = x
  BY <1>1, <1>2, EmptySeq, LenProperties, HeadTailProperties
<1>4. /\ Tail(t) \in Seq(S) /\ Len(Tail(t)) = Len(s)
      /\ \A j \in 1 .. Len(s) : Tail(t)[j] = s[j]
  BY <1>1, <1>2, <1>3, LenProperties, HeadTailProperties, SMT
<1>5. Tail(t) = s
  BY <1>1, <1>4, SeqEqual
<1> QED BY <1>3, <1>5

(* A renegotiation is refused after it is asked for.                       *)
LEMMA RefusedReneg ==
  ASSUME NoReneg
  PROVE  /\ Role = "server" => Rejecting(OnHandshakeData)
         /\ Role = "client" => /\ OnHandshakeData # <<>> /\ Head(OnHandshakeData).op = "noapp"
                               /\ Rejecting(Tail(OnHandshakeData))
<1>1. RejectReneg \in Seq(Instr)
  BY ProgramsOther, SubSeqs
<1>2. MsgLen \in Nat
  BY BufferAssumption
<1>3. CASE Role = "server"
  <2>1. OnHandshakeData = <<I("read", MsgLen)>> \o RejectReneg
    BY <1>3 DEF OnHandshakeData
  <2> QED BY <1>1, <1>3, <2>1, ConsParts DEF Rejecting, I
<1>4. CASE Role = "client"
  <2> DEFINE t == <<I("read", MsgLen)>> \o RejectReneg
  <2>1. I("read", MsgLen) \in Instr /\ I("noapp", 0) \in Instr
    BY <1>2 DEF I, Instr, Ops
  <2>2. t \in Seq(Instr)
    BY <1>1, <2>1, ConcatProperties
  <2>3. OnHandshakeData = <<I("noapp", 0)>> \o t
    <3>1. OnHandshakeData = <<I("noapp", 0), I("read", MsgLen)>> \o RejectReneg
      BY <1>4 DEF OnHandshakeData
    <3>2. <<I("noapp", 0), I("read", MsgLen)>> = <<I("noapp", 0)>> \o <<I("read", MsgLen)>>
      OBVIOUS
    <3>3. /\ <<I("noapp", 0)>> \in Seq(Instr) /\ <<I("read", MsgLen)>> \in Seq(Instr)
      BY <2>1
    <3> QED BY <1>1, <3>1, <3>2, <3>3, ConcatAssociative
  <2>4. Rejecting(t)
    BY <1>1, ConsParts DEF Rejecting, I
  <2> HIDE DEF t
  <2>5. OnHandshakeData # <<>> /\ Head(OnHandshakeData) = I("noapp", 0) /\ Tail(OnHandshakeData) = t
    BY <2>2, <2>3, ConsParts
  <2>6. Head(OnHandshakeData).op = "noapp"
    BY <2>5 DEF I
  <2>7. Rejecting(Tail(OnHandshakeData))
    BY <2>4, <2>5
  <2> QED BY <1>4, <2>5, <2>6, <2>7
<1> QED BY <1>3, <1>4

(* One instruction less, or a shorter one, keeps the shape; only a wait    *)
(* for room leads to an alert.                                             *)
LEMMA TailShape ==
  ASSUME NoReneg, NEW t \in Seq(Instr), t # <<>>, Shape(t)
  PROVE  /\ Shape(Tail(t))
         /\ Tail(t) # <<>> /\ Head(Tail(t)).op = "alert" => Head(t).op \in {"room", "closeRoom"}
         /\ Head(t).op = "write" => Head(t).n > 0
<1>1. CASE t \in Seq(PlainWrite)
  <2>1. Tail(t) \in Seq(PlainWrite) /\ Head(t) \in PlainWrite
    BY <1>1, HeadTailProperties
  <2>2. Tail(t) # <<>> => Head(Tail(t)) \in PlainWrite
    BY <2>1, HeadTailProperties
  <2> QED BY <2>1, <2>2 DEF Shape, PlainWrite
<1>2. CASE t \in {RejectReneg, DoClose, FailAlert}
  <2>1. Tail(t) \in {RejectRoom, CloseRoom, FailRoom} /\ Head(t).op = "flush"
    BY <1>2, RefusalTails
  <2>2. Head(Tail(t)).op \in {"room", "closeRoom"}
    BY <2>1, RefusalTails
  <2> QED BY <2>1, <2>2 DEF Shape, Refusals, Rejects
<1>3. CASE t \in {RejectRoom, CloseRoom, FailRoom}
  <2>1. Tail(t) \in {RejectAlert, CloseAlert, FailSend} /\ Head(t).op \in {"room", "closeRoom"}
    BY <1>3, RefusalTails
  <2> QED BY <2>1 DEF Shape, Refusals, Rejects
<1>4. CASE t \in {RejectAlert, CloseAlert, FailSend}
  <2>1. /\ Tail(t) \in {<<I("flush", 0), I("end", 0)>>, <<I("flush", 0), I("closeWait", 0)>>,
                        <<I("flush", 0), I("room", 0), I("fail", 0)>>}
        /\ Head(t).op = "alert"
    BY <1>4, RefusalTails
  <2>2. Tail(t) \in Seq(PlainWrite)
    BY <2>1, ProgramsWrite
  <2>3. Tail(t) # <<>> => Head(Tail(t)).op # "alert"
    BY <2>2, HeadTailProperties DEF PlainWrite
  <2> QED BY <2>1, <2>2, <2>3 DEF Shape
<1>5. CASE Rejecting(t)
  <2>1. Tail(t) = RejectReneg /\ Head(t).op = "read"
    BY <1>5 DEF Rejecting
  <2> QED BY <2>1, RefusalTails DEF Shape, Refusals, Rejects
<1>6. CASE t = OnHandshakeData /\ Role = "client"
  <2>1. Head(t).op = "noapp" /\ Rejecting(Tail(t))
    BY <1>6, RefusedReneg
  <2> QED BY <2>1 DEF Shape, Rejecting
<1>7. t = OnHandshakeData => Rejecting(t) \/ Role = "client"
  BY RefusedReneg, BufferAssumption
<1> QED BY <1>1, <1>2, <1>3, <1>4, <1>5, <1>6, <1>7 DEF Shape, Refusals, Rejects

(* ... and so does a shorter first instruction.                            *)
LEMMA ShortenedShape ==
  ASSUME NoReneg, NEW t \in Seq(Instr), t # <<>>, Shape(t), NEW m \in Nat, m > 0,
         Head(t).op \in {"read", "write"}
  PROVE  /\ Shape(Shortened(t, m))
         /\ Rejecting(t) => Rejecting(Shortened(t, m))
         /\ Head(Shortened(t, m)).op = Head(t).op
<1>1. Tail(t) \in Seq(Instr)
  BY HeadTailProperties
<1>2. /\ Shortened(t, m) # <<>> /\ Head(Shortened(t, m)) = I(Head(t).op, m)
      /\ Tail(Shortened(t, m)) = Tail(t)
  BY <1>1, ConsParts DEF Shortened
<1>3. Head(Shortened(t, m)).op = Head(t).op
  BY <1>2 DEF I
<1>4. Rejecting(t) => Rejecting(Shortened(t, m))
  BY <1>2, <1>3 DEF Rejecting
<1>5. CASE t \in Seq(PlainWrite)
  <2>1. I(Head(t).op, m) \in PlainWrite
    BY PlainWriteOK DEF Ops
  <2>2. Tail(t) \in Seq(PlainWrite)
    BY <1>5, HeadTailProperties
  <2>3. <<I(Head(t).op, m)>> \in Seq(PlainWrite)
    BY <2>1
  <2>4. Shortened(t, m) \in Seq(PlainWrite)
    BY <2>2, <2>3, CatWrite DEF Shortened
  <2> QED BY <1>3, <1>4, <2>4 DEF Shape
<1>6. CASE Rejecting(t)
  BY <1>3, <1>4, <1>6 DEF Shape
<1>7. CASE t \in Refusals
  <2>1. Head(t).op \in {"flush", "room", "closeRoom", "alert"}
    BY <1>7, RefusalTails DEF Refusals, Rejects
  <2> QED BY <2>1
<1>8. CASE t = OnHandshakeData
  <2>1. Role = "server" => Rejecting(t)
    BY <1>8, RefusedReneg
  <2>2. Role # "client"
    BY <1>8, RefusedReneg
  <2> QED BY <1>6, <2>1, <2>2, BufferAssumption
<1> QED BY <1>5, <1>6, <1>7, <1>8 DEF Shape

(* While application data may pass: what is left of a refusal.             *)
LEMMA RejectSteps ==
  ASSUME NoReneg, NEW t, t # <<>>,
         t \in RejectEnds \/ Rejecting(t) \/ t = OnHandshakeData
  PROVE  /\ Head(t).op \in {"flush", "room", "alert", "end", "read", "noapp"}
         /\ Head(t).op # "noapp" => Tail(t) \in RejectEnds
         /\ Head(t).op = "alert" => Tail(t) = <<I("flush", 0), I("end", 0)>>
         /\ Head(t).op = "read" => Rejecting(t)
<1>1. CASE t = RejectReneg
  BY <1>1, RefusalTails DEF RejectEnds, Rejects
<1>2. CASE t = RejectRoom
  BY <1>2, RefusalTails DEF RejectEnds, Rejects
<1>3. CASE t = RejectAlert
  BY <1>3, RefusalTails DEF RejectEnds, Rejects
<1>4. CASE t = <<I("flush", 0), I("end", 0)>>
  BY <1>4, EndTails DEF RejectEnds, Rejects
<1>5. CASE t = <<I("end", 0)>>
  BY <1>5, EndTails DEF RejectEnds, Rejects
<1>6. CASE Rejecting(t)
  <2>1. Head(t).op = "read" /\ Tail(t) = RejectReneg
    BY <1>6 DEF Rejecting
  <2> QED BY <1>6, <2>1 DEF RejectEnds, Rejects
<1>7. CASE t = OnHandshakeData
  <2>1. Role = "server" => Rejecting(t)
    BY <1>7, RefusedReneg
  <2>2. Role = "client" => Head(t).op = "noapp"
    BY <1>7, RefusedReneg
  <2> QED BY <1>6, <2>1, <2>2, BufferAssumption
<1> QED BY <1>1, <1>2, <1>3, <1>4, <1>5, <1>6, <1>7 DEF RejectEnds, Rejects

-----------------------------------------------------------------------------
(* The types of records: how the course of a connection goes on.           *)

(* Nothing changes, or application data is no longer accepted.             *)
LEMMA QuietCourse ==
  ASSUME CourseInv, UNCHANGED <<todo, rtout>>, appdata' = 1 => appdata = 1,
         iomode' # "FAILED" => iomode # "FAILED", action' # 2, ~At("alert")
  PROVE  CourseInv'
<1>1. Shape(todo') /\ ~At("alert")'
  BY DEF CourseInv, At
<1>2. appdata' = 1 => todo' \in RejectEnds \/ Rejecting(todo') \/ todo' = OnHandshakeData
  BY DEF CourseInv
<1>3. (iomode # "FAILED" /\ appdata = 1 =>
          rtout = APPDATA \/ At("end") \/ (At("flush") /\ Tail(todo) = <<I("end", 0)>>))'
  BY DEF CourseInv, At
<1> QED BY <1>1, <1>2, <1>3 DEF CourseInv

(* The engine fails.                                                       *)
LEMMA FailCourse == ASSUME NEW e, Fail(e) PROVE CourseInv'
<1>1. todo' = <<>> /\ iomode' = "FAILED" /\ action' = 0
  BY DEF Fail
<1>2. Shape(<<>>) /\ <<>> \in RejectEnds
  BY ProgramsWrite DEF Shape, RejectEnds
<1>3. ~At("alert")'
  BY <1>1 DEF At
<1> QED BY <1>1, <1>2, <1>3 DEF CourseInv

(* Another program starts; no application data is accepted.                *)
LEMMA StartCourse ==
  ASSUME Shape(todo'), ~At("alert")', appdata' # 1, action' # 2
  PROVE  CourseInv'
BY DEF CourseInv

(* An instruction is done.                                                 *)
LEMMA StepCourse ==
  ASSUME NoReneg, IInv, CourseInv, NEW op, Running(op), op # "end",
         todo' = Tail(todo), UNCHANGED <<pc, action>>,
         op \in {"room", "closeRoom"} => h'.out > 0,
         appdata' = 1 => appdata = 1 /\ op # "noapp" /\ (rtout' = rtout \/ op = "alert")
  PROVE  CourseInv'
<1>1. todo \in Seq(Instr) /\ todo # <<>> /\ Head(todo).op = op /\ pc = "run"
  BY DEF IInv, TypeOK, Running, At
<1>2. Shape(todo)
  BY DEF CourseInv
<1>3. /\ Shape(Tail(todo))
      /\ Tail(todo) # <<>> /\ Head(Tail(todo)).op = "alert" => op \in {"room", "closeRoom"}
  BY <1>1, <1>2, TailShape
<1>4. At("alert")' => op \in {"room", "closeRoom"}
  <2>1. At("alert")' <=> Tail(todo) # <<>> /\ Head(Tail(todo)).op = "alert"
    BY DEF At
  <2> QED BY <1>3, <2>1
<1>5. ASSUME appdata' = 1
      PROVE  /\ todo' \in RejectEnds
             /\ iomode' # "FAILED" =>
                  rtout' = APPDATA \/ At("end")' \/ (At("flush")' /\ Tail(todo') = <<I("end", 0)>>)
  <2>1. appdata = 1 /\ op # "noapp"
    BY <1>5
  <2>2. todo \in RejectEnds \/ Rejecting(todo) \/ todo = OnHandshakeData
    BY <2>1 DEF CourseInv
  <2>3. Tail(todo) \in RejectEnds /\ (op = "alert" => Tail(todo) = <<I("flush", 0), I("end", 0)>>)
    BY <1>1, <2>1, <2>2, RejectSteps
  <2>4. CASE op = "alert"
    <3>1. todo' = <<I("flush", 0), I("end", 0)>>
      BY <2>3, <2>4
    <3>2. At("flush")' /\ Tail(todo') = <<I("end", 0)>>
      <4>1. todo' # <<>> /\ Head(todo').op = "flush" /\ Tail(todo') = <<I("end", 0)>>
        BY <3>1, EndTails
      <4> QED BY <4>1 DEF At
    <3> QED BY <2>3, <3>2
  <2>5. CASE op # "alert"
    <3>1. rtout' = rtout /\ iomode # "FAILED"
      <4>1. iomode # "FAILED"
        BY <1>1, RunningOpen
      <4> QED BY <1>5, <2>5, <4>1
    <3>2. rtout = APPDATA \/ (op = "flush" /\ Tail(todo) = <<I("end", 0)>>)
      BY <1>1, <2>1, <3>1 DEF CourseInv, At
    <3>3. Tail(todo) = <<I("end", 0)>> => At("end")'
      <4>1. todo' = <<I("end", 0)>> => todo' # <<>> /\ Head(todo').op = "end"
        BY EndTails
      <4> QED BY <4>1 DEF At
    <3> QED BY <2>3, <3>1, <3>2, <3>3
  <2> QED BY <2>4, <2>5
<1>6. At("alert")' => pc' = "run" /\ h'.out > 0
  BY <1>1, <1>4
<1>7. action' # 2
  BY DEF CourseInv
<1> QED BY <1>3, <1>5, <1>6, <1>7 DEF CourseInv

(* A read or a write is part done.                                         *)
LEMMA PartCourse ==
  ASSUME NoReneg, IInv, CourseInv, NEW op \in {"read", "write"}, Running(op),
         NEW m \in Nat, m > 0, todo' = Shortened(todo, m),
         UNCHANGED <<appdata, rtout, iomode, action>>
  PROVE  CourseInv'
<1>1. todo \in Seq(Instr) /\ todo # <<>> /\ Head(todo).op = op
  BY DEF IInv, TypeOK, Running, At
<1>2. Shape(todo) /\ action # 2
  BY DEF CourseInv
<1>3. /\ Shape(Shortened(todo, m)) /\ Head(Shortened(todo, m)).op = op
      /\ Rejecting(todo) => Rejecting(Shortened(todo, m))
  BY <1>1, <1>2, ShortenedShape
<1>4. ~At("alert")'
  <2>1. Head(todo').op = op
    BY <1>3
  <2> QED BY <2>1 DEF At
<1>5. ASSUME appdata = 1 PROVE Rejecting(todo)
  <2>1. todo \in RejectEnds \/ Rejecting(todo) \/ todo = OnHandshakeData
    BY <1>5 DEF CourseInv
  <2> QED BY <1>1, <2>1, RejectSteps
<1>6. appdata' = 1 => Rejecting(todo')
  BY <1>3, <1>5
<1>7. iomode' # "FAILED" /\ appdata' = 1 => rtout' = APPDATA
  BY <1>1 DEF CourseInv, At
<1> QED BY <1>2, <1>3, <1>4, <1>6, <1>7 DEF CourseInv

(* A program without alert does not start with one.                        *)
LEMMA PlainWriteStart ==
  ASSUME NEW t \in Seq(PlainWrite)
  PROVE  Shape(t) /\ ~(t # <<>> /\ Head(t).op = "alert")
<1>1. t # <<>> => Head(t) \in PlainWrite
  BY HeadTailProperties
<1> QED BY <1>1 DEF PlainWrite, Shape

(* A reset engine starts with the handshake.                               *)
LEMMA InitCourse == ASSUME Init PROVE CourseInv
<1>1. todo = DoHandshake /\ appdata = 0 /\ action = 0
  BY DEF Init
<1> QED BY <1>1, ProgramsWrite, PlainWriteStart DEF CourseInv, At

(* ... also when it was in use before.                                     *)
LEMMA ResetCourse == ASSUME Reset PROVE CourseInv'
<1>1. todo' = DoHandshake /\ appdata' = 0 /\ action' = 0
  BY DEF Reset
<1>2. Shape(DoHandshake) /\ ~(DoHandshake # <<>> /\ Head(DoHandshake).op = "alert")
  BY ProgramsWrite, PlainWriteStart
<1>3. ~At("alert")'
  BY <1>1, <1>2 DEF At
<1> QED BY <1>1, <1>2, <1>3, StartCourse

(* The calls leave the coroutine to the next jump.                         *)
LEMMA CallsCourse ==
  ASSUME NoReneg, IInv, CourseInv, RecvBody \/ RecvHead \/ SendRec \/ AppStep
  PROVE  CourseInv'
<1>1. CASE Reset
  BY <1>1, ResetCourse
<1>2. CASE \E e : Fail(e)
  BY <1>2, FailCourse
<1>3. CASE ~Reset /\ ~(\E e : Fail(e))
  <2>1. /\ UNCHANGED <<todo, rtout, appdata>> /\ action' \in {0, 1, action}
        /\ pc = "idle" /\ iomode # "FAILED"
    <3>1. CASE RecvBody \/ RecvHead
      BY <1>3, <3>1 DEF RecvBody, RecvHead, RecvCipherPart, RecvClear, RecvCipherEnd,
         RecvHeaderPart, RecvHeader, Deliver, Jump, hsVars, outVars, Open
    <3>2. CASE SendRec
      BY <3>2 DEF SendRec, SendRecAck, Jump, hsVars, Open
    <3>3. CASE AppStep
      BY <1>3, <3>3 DEF AppStep, SendAppAck, RecvAppAck, Flush, Close, Renegotiate, IoFail,
         Jump, hsVars, outVars, Open
    <3> QED BY <3>1, <3>2, <3>3
  <2>2. ~At("alert") /\ action' # 2
    BY <2>1 DEF CourseInv
  <2> QED BY <2>1, <2>2, QuietCourse
<1> QED BY <1>1, <1>2, <1>3

(* The jump, and what follows the return of co.                            *)
LEMMA ReturnCourse ==
  ASSUME NoReneg, IInv, CourseInv,
         HsEnter \/ HsReturn \/ HsClose \/ HsAlerts \/ HsAlertsEnd \/ HsGoOn \/ HsDiscard
         \/ HsYield \/ \E byte : HsAlertByte(byte)
  PROVE  CourseInv'
<1>0. action # 2 /\ (pc # "run" => ~At("alert"))
  BY DEF CourseInv
<1>1. CASE \E e : Fail(e)
  BY <1>1, FailCourse
<1>2. CASE HsEnter \/ HsReturn \/ HsAlerts \/ HsDiscard \/ HsYield
  <2>1. UNCHANGED <<todo, rtout, appdata>> /\ action' \in {0, action}
    BY <1>2 DEF HsEnter, HsReturn, HsAlerts, HsDiscard, HsYield, outVars
  <2>2. ~At("alert")
    BY <1>0, <1>2 DEF HsEnter, HsReturn, HsAlerts, HsDiscard, HsYield, At
  <2>3. iomode' # "FAILED" => iomode # "FAILED"
    <3>1. pc # "idle"
      BY <1>2 DEF HsEnter, HsReturn, HsAlerts, HsDiscard, HsYield
    <3> QED BY <3>1 DEF IInv, CallInv
  <2> QED BY <1>0, <2>1, <2>2, <2>3, QuietCourse
<1>3. ASSUME NEW received, StartClose(received), action' = action PROVE CourseInv'
  <2>1. todo' = DoClose /\ appdata' # 1
    BY <1>3 DEF StartClose
  <2>2. Shape(DoClose) /\ DoClose # <<>> /\ Head(DoClose).op = "flush"
    BY RefusalTails DEF Shape, Refusals
  <2>3. Shape(todo') /\ ~At("alert")'
    BY <2>1, <2>2 DEF At
  <2> QED BY <1>0, <1>3, <2>1, <2>3, StartCourse
<1>4. ASSUME Continue, UNCHANGED <<appdata, rtout>>, pc # "run" PROVE CourseInv'
  <2>1. todo' = todo /\ UNCHANGED <<iomode, action>>
    BY <1>0, <1>4 DEF Continue, WantReneg
  <2> QED BY <1>0, <1>4, <2>1, QuietCourse
<1>5. CASE HsClose
  BY <1>3, <1>5 DEF HsClose
<1>6. CASE HsAlertsEnd
  <2>0. rtout' = rtout /\ pc = "alerts"
    BY <1>6 DEF HsAlertsEnd, outVars
  <2>1. CASE Closing
    <3>1. appdata' = 0 /\ UNCHANGED <<iomode, action, todo>>
      BY <1>6, <2>1 DEF HsAlertsEnd
    <3> QED BY <1>0, <2>0, <3>1, QuietCourse
  <2>2. CASE ~Closing /\ cnr
    BY <1>3, <1>6, <2>2 DEF HsAlertsEnd
  <2>3. CASE ~Closing /\ ~cnr
    BY <1>4, <1>6, <2>0, <2>3 DEF HsAlertsEnd
  <2> QED BY <2>1, <2>2, <2>3
<1>7. CASE HsGoOn
  <2>0. UNCHANGED <<appdata, rtout>> /\ pc = "resume"
    BY <1>7 DEF HsGoOn, outVars
  <2>1. CASE Continue
    BY <1>4, <2>0, <2>1
  <2>2. CASE todo = <<>> /\ todo' = OnHandshakeData /\ UNCHANGED <<iomode, action>>
    <3>1. ~At("alert")'
      <4>1. OnHandshakeData # <<>> /\ Head(OnHandshakeData).op # "alert"
        BY RefusedReneg, BufferAssumption DEF Rejecting
      <4> QED BY <2>2, <4>1 DEF At
    <3>2. Shape(todo')
      BY <2>2 DEF Shape
    <3>3. iomode' # "FAILED" /\ appdata' = 1 => rtout' = APPDATA
      BY <2>0, <2>2 DEF CourseInv, At
    <3> QED BY <1>0, <2>2, <3>1, <3>2, <3>3 DEF CourseInv
  <2> QED BY <1>1, <1>7, <2>1, <2>2 DEF HsGoOn
<1>8. ASSUME NEW byte, HsAlertByte(byte) PROVE CourseInv'
  <2>1. CASE Fail("ERROR")
    BY <1>1, <2>1
  <2>2. CASE ~Fail("ERROR")
    <3>1. UNCHANGED <<todo, rtout, appdata, action, iomode>> /\ pc = "alerts"
      BY <1>8, <2>2 DEF HsAlertByte, outVars
    <3> QED BY <1>0, <3>1, QuietCourse
  <2> QED BY <2>1, <2>2
<1> QED BY <1>2, <1>5, <1>6, <1>7, <1>8

(* The instructions.                                                       *)
LEMMA RunCourse ==
  ASSUME NoReneg, IInv, OrderInv, CourseInv,
         \/ HsSet \/ HsRoom \/ HsWrite \/ HsAlertOut \/ HsFlush \/ HsWriteCcs
         \/ HsNoMore \/ HsNoFrag \/ HsRefuse \/ HsBranch \/ HsEnd
         \/ \E bad : HsRead(bad) \/ HsReadCcs(bad)
         \/ \E f : HsFrag(f)
  PROVE  CourseInv'
<1>0. action # 2 /\ Shape(todo)
  BY DEF CourseInv
<1>1. CASE \E e : Fail(e)
  BY <1>1, FailCourse
<1>2. ASSUME NEW op, Running(op)
      PROVE  todo \in Seq(Instr) /\ todo # <<>> /\ Head(todo).op = op /\ h \in Window
  BY <1>2 DEF IInv, TypeOK, Running, At
<1>3. CASE HsSet
  <2>1. todo' = Tail(todo) /\ UNCHANGED <<pc, action>>
    BY <1>3 DEF HsSet, Next1
  <2>2. CASE Running("end") /\ rtout' = APPDATA
    <3>1. todo \in Seq(Instr) /\ todo # <<>> /\ Head(todo).op = "end"
      BY <1>2, <2>2
    <3>2. Tail(todo) = <<>>
      BY <3>1, TailParts DEF OrderInv, ProgramInv, LastOps
    <3>3. Shape(<<>>) /\ <<>> \in RejectEnds
      BY ProgramsWrite, PlainWriteStart DEF RejectEnds
    <3>4. ~At("alert")'
      BY <2>1, <3>2 DEF At
    <3> QED BY <1>0, <2>1, <2>2, <3>2, <3>3, <3>4 DEF CourseInv
  <2>3. ASSUME NEW op \in {"begin", "noapp"}, Running(op), appdata' = 0 PROVE CourseInv'
    BY <2>1, <2>3, StepCourse
  <2>4. ASSUME Running("type"), appdata' = appdata PROVE CourseInv'
    <3>1. appdata # 1
      <4>1. todo # <<>> /\ Head(todo).op = "type"
        BY <1>2, <2>4
      <4> QED BY <4>1, RejectSteps DEF CourseInv
    <3> QED BY <2>1, <2>4, <3>1, StepCourse
  <2> QED BY <1>3, <2>2, <2>3, <2>4 DEF HsSet
<1>4. CASE HsRoom
  <2>1. /\ todo' = Tail(todo) /\ UNCHANGED <<pc, action, appdata, rtout, h>> /\ h.out > 0
        /\ Running("room") \/ Running("closeRoom")
    BY <1>4 DEF HsRoom, Next1, outVars
  <2> QED BY <2>1, StepCourse
<1>5. ASSUME NEW op \in {"alert", "flush", "nomore", "frag"}, Running(op), todo' = Tail(todo),
             UNCHANGED <<pc, action, appdata>>, rtout' = rtout \/ op = "alert"
      PROVE  CourseInv'
  BY <1>5, StepCourse
<1>6. CASE HsAlertOut \/ HsFlush \/ HsNoFrag \/ \E f : HsFrag(f)
  <2>1. CASE HsAlertOut
    BY <1>5, <2>1 DEF HsAlertOut, Next1
  <2>2. CASE HsFlush
    BY <1>5, <2>2 DEF HsFlush, Next1
  <2>3. CASE HsNoFrag
    BY <1>5, <2>3 DEF HsNoFrag, Next1, outVars
  <2>4. ASSUME NEW f, HsFrag(f) PROVE CourseInv'
    BY <1>5, <2>4 DEF HsFrag, Next1
  <2> QED BY <1>6, <2>1, <2>2, <2>3, <2>4
<1>7. CASE HsNoMore
  <2>1. CASE MoreIncoming(h.in)
    BY <1>1, <1>7, <2>1 DEF HsNoMore
  <2>2. CASE ~MoreIncoming(h.in)
    BY <1>5, <1>7, <2>2 DEF HsNoMore, Next1, outVars
  <2> QED BY <2>1, <2>2
<1>8. CASE HsWriteCcs
  <2>1. /\ todo' = Tail(todo) /\ UNCHANGED <<pc, action, appdata>> /\ Running("writeCcs")
    BY <1>8 DEF HsWriteCcs, Next1
  <2>2. appdata # 1
    <3>1. todo # <<>> /\ Head(todo).op = "writeCcs"
      BY <1>2, <2>1
    <3> QED BY <3>1, RejectSteps DEF CourseInv
  <2> QED BY <2>1, <2>2, StepCourse
<1>9. ASSUME NEW bad, HsReadCcs(bad) PROVE CourseInv'
  <2>1. UNCHANGED <<appdata, rtout>> /\ Running("readCcs")
    BY <1>9 DEF HsReadCcs, outVars
  <2>2. CASE Fail("ERROR")
    BY <1>1, <2>2
  <2>3. CASE ~Fail("ERROR")
    <3>1. todo' = Tail(todo) /\ UNCHANGED <<pc, action>>
      BY <1>9, <2>3 DEF HsReadCcs, Next1
    <3> QED BY <2>1, <3>1, StepCourse
  <2> QED BY <2>2, <2>3
<1>10. CASE HsBranch \/ HsRefuse
  <2>1. /\ UNCHANGED <<appdata, action>> /\ (Running("branch") \/ Running("nomore"))
        /\ todo' \in {FullHandshake, Resumption, FailAlert}
    BY <1>10 DEF HsBranch, HsRefuse
  <2>2. appdata # 1
    <3>1. todo # <<>> /\ Head(todo).op \in {"branch", "nomore"}
      BY <1>2, <2>1
    <3> QED BY <3>1, RejectSteps DEF CourseInv
  <2>3. \A t \in {FullHandshake, Resumption, FailAlert} :
          Shape(t) /\ ~(t # <<>> /\ Head(t).op = "alert")
    <3>1. Shape(FailAlert) /\ Head(FailAlert).op = "flush"
      BY RefusalTails DEF Shape, Refusals
    <3> QED BY <3>1, ProgramsWrite, PlainWriteStart
  <2>4. Shape(todo') /\ ~At("alert")'
    BY <2>1, <2>3 DEF At
  <2> QED BY <1>0, <2>1, <2>2, <2>4, StartCourse
<1>11. CASE HsEnd
  BY <1>1, <1>11 DEF HsEnd
<1>12. CASE HsWrite
  <2> DEFINE n == Head(todo).n
             k == Least(n, h.out)
  <2>1. Running("write") /\ UNCHANGED <<pc, action, appdata, rtout, iomode>> /\ h.out > 0
    BY <1>12 DEF HsWrite
  <2>2. todo \in Seq(Instr) /\ todo # <<>> /\ Head(todo).op = "write" /\ h \in Window
    BY <1>2, <2>1
  <2>3. todo' = IF k = n THEN Tail(todo) ELSE <<I("write", n - k)>> \o Tail(todo)
    BY <1>12 DEF HsWrite
  <2>4. CASE k = n
    BY <2>1, <2>3, <2>4, StepCourse
  <2>5. CASE k # n
    <3>1. Head(todo) \in Instr
      BY <2>2, HeadTailProperties
    <3>2. n \in Nat /\ h.out \in Nat
      BY <2>2, <3>1 DEF Instr, Window
    <3>3. n - k \in Nat /\ n - k > 0
      <4>1. k \in Nat /\ k <= n
        BY <3>2, LeastOK
      <4> QED BY <2>5, <3>2, <4>1
    <3>4. todo' = Shortened(todo, n - k)
      BY <2>2, <2>3, <2>5 DEF Shortened
    <3> QED BY <2>1, <3>3, <3>4, PartCourse
  <2> QED BY <2>4, <2>5
<1>13. ASSUME NEW bad, HsRead(bad) PROVE CourseInv'
  <2> DEFINE n == Head(todo).n
             k == Least(n, h.in)
  <2>1. Running("read") /\ UNCHANGED <<appdata, rtout>>
    BY <1>13 DEF HsRead, outVars
  <2>2. todo \in Seq(Instr) /\ todo # <<>> /\ Head(todo).op = "read" /\ h \in Window
    BY <1>2, <2>1
  <2>3. CASE Fail("ERROR")
    BY <1>1, <2>3
  <2>4. CASE ~Fail("ERROR")
    <3>1. /\ UNCHANGED <<iomode, pc, action>>
          /\ todo' = IF k = n THEN Tail(todo) ELSE <<I("read", n - k)>> \o Tail(todo)
      BY <1>13, <2>4 DEF HsRead
    <3>2. CASE k = n
      BY <2>1, <3>1, <3>2, StepCourse
    <3>3. CASE k # n
      <4>1. Head(todo) \in Instr
        BY <2>2, HeadTailProperties
      <4>2. n \in Nat /\ h.in \in Nat
        BY <2>2, <4>1 DEF Instr, Window
      <4>3. n - k \in Nat /\ n - k > 0
        <5>1. k \in Nat /\ k <= n
          BY <4>2, LeastOK
        <5> QED BY <3>3, <4>2, <5>1
      <4>4. todo' = Shortened(todo, n - k)
        BY <2>2, <3>1, <3>3 DEF Shortened
      <4> QED BY <2>1, <3>1, <4>3, <4>4, PartCourse
    <3> QED BY <3>2, <3>3
  <2> QED BY <2>3, <2>4
<1> QED BY <1>3, <1>4, <1>6, <1>7, <1>8, <1>9, <1>10, <1>11, <1>12, <1>13

(* Every step keeps the course of the connection.                          *)
LEMMA NextCourse ==
  ASSUME NoReneg, IInv, OrderInv, CourseInv, [Next]_vars
  PROVE  CourseInv'
<1>1. CASE HsStep
  BY <1>1, ReturnCourse, RunCourse DEF HsStep
<1>2. CASE RecvBody \/ RecvHead \/ SendRec \/ AppStep
  BY <1>2, CallsCourse
<1>3. CASE UNCHANGED vars
  BY <1>3 DEF vars, outVars, hsVars, CourseInv, At
<1> QED BY <1>1, <1>2, <1>3 DEF Next

-----------------------------------------------------------------------------
(* The types of records: what the registers hold.                          *)

(* Payload that is neither sealed nor flushed soon waits for room, or is   *)
(* application data that the refusal of a renegotiation will flush.        *)
Pending(t) == \/ t = <<>> \/ Head(t).op \in {"write", "flush", "room"}
              \/ Rejecting(t) \/ t = OnHandshakeData

(* A record holds bytes of its type and protection; an open one that is    *)
(* empty holds none.                                                       *)
Pure(o) == Record(o) => o.kinds \subseteq {<<o.hdr.type, o.hdr.enc>>}
OpenInv == iomode # "FAILED" /\ Gathering(ox) =>
             /\ ox.kinds \subseteq {<<rtout, outenc>>}
             /\ ox.a = ox.c /\ h.put = 0 => ox.kinds = {}
RoomInv == h.out > 0 /\ h.put = 0 => ox.a = ox.c
PendingInv == HasPld(ox) => Pending(todo)
KindsInv == Pure(ox) /\ OpenInv /\ RoomInv /\ PendingInv

(* Sealing takes the type and the protection of what is in the record.     *)
LEMMA SealPure ==
  ASSUME NEW o, NEW type, NEW e, NEW force, Pure(o),
         o.a # o.b => o.kinds \subseteq {<<type, e>>}
  PROVE  Pure(Seal(o, type, e, force))
<1>1. CASE o.a = o.b \/ (o.a = o.c /\ ~force)
  BY <1>1 DEF Seal
<1>2. CASE ~(o.a = o.b \/ (o.a = o.c /\ ~force))
  <2> DEFINE s == Seal(o, type, e, force)
  <2>1. s.kinds = o.kinds /\ s.hdr.type = type /\ s.hdr.enc = e
    BY <1>2 DEF Seal
  <2> QED BY <1>2, <2>1 DEF Pure
<1> QED BY <1>1, <1>2

(* ... and so does adding payload.                                         *)
LEMMA AckOutPure ==
  ASSUME NEW o \in OutRegs, NEW n \in Nat, NEW type, NEW e \in BOOLEAN,
         OpenOK(o, e), n > 0, Pure(o), o.kinds \subseteq {<<type, e>>}
  PROVE  /\ Pure(AckOut(o, n, type, e)) /\ AckOut(o, n, type, e).kinds = o.kinds
         /\ Gathering(AckOut(o, n, type, e)) => AckOut(o, n, type, e).a # AckOut(o, n, type, e).c
<1>0. /\ o.a \in Nat /\ o.b \in Nat /\ o.c \in Nat /\ o.c <= o.a
  BY DEF OutRegs, OpenOK
<1> DEFINE x == o.a + n  y == o.a + n + 1  b == o.b
<1>1. CASE o.a + n >= o.b
  <2> DEFINE p == Move(o, x, y)
  <2>1. AckOut(o, n, type, e) = Seal(p, type, e, FALSE)
    BY <1>1 DEF AckOut
  <2>2. p.a = x /\ p.b = y /\ p.c = o.c /\ p.kinds = o.kinds /\ p.hdr = o.hdr
    <3> HIDE DEF x, y
    <3> QED BY DEF Move
  <2> HIDE DEF p
  <2>3. Pure(p) /\ p.a # p.b /\ p.a # p.c
    BY <1>0, <2>2 DEF Pure, Record
  <2>4. Pure(Seal(p, type, e, FALSE))
    BY <2>2, <2>3, SealPure
  <2>5. Seal(p, type, e, FALSE).kinds = o.kinds /\ ~Gathering(Seal(p, type, e, FALSE))
    BY <2>2, <2>3 DEF Seal, Gathering
  <2> QED BY <2>1, <2>4, <2>5
<1>2. CASE ~(o.a + n >= o.b)
  <2> DEFINE p == Move(o, x, b)
  <2>1. AckOut(o, n, type, e) = p
    BY <1>2 DEF AckOut
  <2>2. p.a = x /\ p.b = b /\ p.c = o.c /\ p.kinds = o.kinds /\ p.hdr = o.hdr
    <3> HIDE DEF x, b
    <3> QED BY DEF Move
  <2> HIDE DEF p
  <2>3. Pure(p) /\ p.a # p.c
    BY <1>0, <2>2 DEF Pure, Record
  <2> QED BY <2>1, <2>2, <2>3
<1> QED BY <1>1, <1>2

(* ... and a flush of the coroutine, which leaves nothing pending.         *)
LEMMA FlushRecordPure ==
  ASSUME NEW o \in OutRegs, NEW n \in Nat, NEW type \in RecTypes \union {0},
         outenc \in BOOLEAN, OutOK(o, outenc), Pure(o),
         n > 0 => OpenOK(o, outenc) /\ o.a + n <= o.b,
         Gathering(o) => o.kinds \subseteq {<<type, outenc>>}
  PROVE  /\ Pure(FlushRecord(o, n, type)) /\ ~HasPld(FlushRecord(o, n, type))
         /\ Gathering(FlushRecord(o, n, type)) =>
              n = 0 /\ FlushRecord(o, n, type) = o /\ o.a = o.c
<1> DEFINE p == IF n > 0 THEN AckOut(o, n, type, outenc) ELSE o
<1>0. ~(n > 0) => n = 0
  OBVIOUS
<1>1. FlushRecord(o, n, type) = IF HasPld(p) THEN Seal(p, type, outenc, FALSE) ELSE p
  BY DEF FlushRecord
<1>2. p \in OutRegs /\ OutOK(p, outenc) /\ (n > 0 => HasPld(p) \/ SealedOK(p))
  BY AckOutOK
<1>3. Pure(p) /\ (Gathering(p) => p.kinds \subseteq {<<type, outenc>>})
  <2>1. CASE n > 0
    <3>1. Gathering(o)
      BY <2>1 DEF OpenOK, Gathering, OutRegs
    <3> QED BY <2>1, <3>1, AckOutPure
  <2>2. CASE ~(n > 0)
    BY <2>2
  <2> QED BY <2>1, <2>2
<1>4. ~(n > 0) => p = o
  OBVIOUS
<1> HIDE DEF p
<1>5. CASE HasPld(p)
  <2>1. SealedOK(Seal(p, type, outenc, FALSE))
    BY <1>2, <1>5, SealOK
  <2>2. Pure(Seal(p, type, outenc, FALSE))
    BY <1>3, SealPure DEF Gathering
  <2> QED BY <1>1, <1>5, <2>1, <2>2 DEF SealedOK, HasPld, Gathering
<1>6. CASE ~HasPld(p)
  <2>1. FlushRecord(o, n, type) = p
    BY <1>1, <1>6
  <2>2. Gathering(p) => ~(n > 0) /\ p.a = p.c
    BY <1>2, <1>6 DEF SealedOK, HasPld, Gathering
  <2> QED BY <1>0, <1>3, <1>4, <1>6, <2>1, <2>2
<1> QED BY <1>5, <1>6

-----------------------------------------------------------------------------
(* The types of records: the steps that leave the registers alone.         *)

(* Nothing is written.                                                     *)
LEMMA QuietKinds ==
  ASSUME KindsInv, UNCHANGED <<ox, rtout, outenc>>, iomode' # "FAILED" => iomode # "FAILED",
         h'.put = h.put, h'.out > 0 => h.out > 0, HasPld(ox) => Pending(todo')
  PROVE  KindsInv'
<1>1. Pure(ox') /\ OpenInv'
  BY DEF KindsInv, OpenInv
<1>2. RoomInv' /\ PendingInv'
  BY DEF KindsInv, RoomInv, PendingInv
<1> QED BY <1>1, <1>2 DEF KindsInv

(* Whatever program starts, nothing is pending.                            *)
LEMMA FreshKinds ==
  ASSUME Pure(ox'), h'.put = 0, ~HasPld(ox'),
         iomode' # "FAILED" /\ Gathering(ox') => ox'.kinds = {},
         h'.out > 0 => ox'.a = ox'.c
  PROVE  KindsInv'
BY DEF KindsInv, OpenInv, RoomInv, PendingInv

(* The engine fails.                                                       *)
LEMMA FailKinds == ASSUME KindsInv, ox' = ox, NEW e, Fail(e) PROVE KindsInv'
<1>1. todo' = <<>> /\ iomode' = "FAILED" /\ ~(h'.out > 0)
  BY DEF Fail, Idle
<1>2. Pure(ox')
  BY DEF KindsInv
<1> QED BY <1>1, <1>2 DEF KindsInv, OpenInv, RoomInv, PendingInv, Pending

(* An instruction that is not part of a wait for room, nor read or written *)
(* with pending data: nothing is pending, and the open record is empty.    *)
LEMMA NothingPending ==
  ASSUME NoReneg, IInv, OrderInv, KindsInv, NEW op, Running(op),
         op \notin {"write", "flush", "room", "read", "noapp"}
  PROVE  /\ ~HasPld(ox) /\ h.put = 0 /\ iomode # "FAILED" /\ Pure(ox)
         /\ Gathering(ox) => ox.a = ox.c /\ ox.kinds = {}
         /\ h.out > 0 => ox.a = ox.c
<1>1. todo # <<>> /\ Head(todo).op = op /\ h \in Window /\ pc = "run"
  BY DEF IInv, TypeOK, Running, At
<1>2. todo = OnHandshakeData \/ Rejecting(todo) => op \in {"read", "noapp"}
  BY <1>1, RefusedReneg, BufferAssumption DEF Rejecting
<1>3. ~HasPld(ox)
  BY <1>1, <1>2 DEF KindsInv, PendingInv, Pending
<1>4. h.put = 0
  BY <1>1 DEF OrderInv, PutInv, At, Window
<1>5. iomode # "FAILED"
  BY <1>1, RunningOpen
<1>6. Gathering(ox) => ox.a = ox.c
  BY <1>3 DEF HasPld, Gathering
<1> QED BY <1>3, <1>4, <1>5, <1>6 DEF KindsInv, OpenInv, RoomInv

(* An instruction is done that wrote nothing, with nothing pending.        *)
LEMMA StepKinds ==
  ASSUME NoReneg, IInv, OrderInv, KindsInv, NEW op, Running(op),
         op \notin {"write", "flush", "room", "read", "noapp"},
         ox' = ox, h'.put = h.put, h'.out > 0 => h.out > 0
  PROVE  KindsInv'
<1>1. /\ ~HasPld(ox) /\ h.put = 0 /\ iomode # "FAILED" /\ Pure(ox)
      /\ Gathering(ox) => ox.a = ox.c /\ ox.kinds = {}
      /\ h.out > 0 => ox.a = ox.c
  BY NothingPending
<1> QED BY <1>1, FreshKinds

-----------------------------------------------------------------------------
(* The types of records: the calls.                                        *)

(* A fresh record is empty.                                                *)
LEMMA ReadyOutKinds ==
  ASSUME NEW e \in BOOLEAN, NEW f \in Nat, f >= 2
  PROVE  /\ Pure(ReadyOut(e, f)) /\ ~HasPld(ReadyOut(e, f)) /\ ReadyOut(e, f).kinds = {}
         /\ ReadyOut(e, f).a = ReadyOut(e, f).c
<1>1. ReadyOut(e, f).hdr = NoHdr /\ ReadyOut(e, f).a = ReadyOut(e, f).c
  BY ReadyOutLength
<1>2. ReadyOut(e, f).kinds = {}
  BY DEF ReadyOut
<1> QED BY <1>1, <1>2 DEF Pure, Record, HasPld

(* A reset engine has written nothing.                                     *)
LEMMA InitKinds == ASSUME Init PROVE KindsInv
<1>1. ox = ReadyOut(FALSE, MaxFrag0) /\ h = Idle /\ MaxFrag0 \in Nat /\ MaxFrag0 >= 2
  BY BufferAssumption DEF Init
<1>2. Pure(ox) /\ ~HasPld(ox) /\ ox.kinds = {} /\ ox.a = ox.c
  BY <1>1, ReadyOutKinds
<1> QED BY <1>2 DEF KindsInv, OpenInv, RoomInv, PendingInv

(* ... also when it was in use before.                                     *)
LEMMA ResetKinds == ASSUME IInv, Reset PROVE KindsInv'
<1>1. ox' = ReadyOut(FALSE, maxFrag) /\ h' = Idle /\ maxFrag \in Nat /\ maxFrag >= 2
  BY DEF Reset, IInv, TypeOK, CallInv
<1>2. Pure(ox') /\ ~HasPld(ox') /\ ox'.kinds = {} /\ ox'.a = ox'.c
  BY <1>1, ReadyOutKinds
<1>3. h'.put = 0
  BY <1>1 DEF Idle
<1> QED BY <1>2, <1>3, FreshKinds

(* The rest of a record is sent.                                           *)
LEMMA SendRecAckKinds == ASSUME IInv, KindsInv, NEW n, SendRecAck(n) PROVE KindsInv'
<1>1. UNCHANGED <<todo, h>> /\ pc = "idle"
  BY DEF SendRecAck, Jump, hsVars, Open
<1>2. maxFrag \in Nat /\ maxFrag >= 2 /\ outenc \in BOOLEAN /\ h = Idle
  BY <1>1 DEF IInv, TypeOK, CallInv
<1>3. h'.put = 0 /\ ~(h'.out > 0)
  BY <1>1, <1>2 DEF Idle
<1>4. CASE ox.a + n = ox.c
  <2>1. ox' = ReadyOut(outenc, maxFrag)
    BY <1>4 DEF SendRecAck
  <2>2. Pure(ox') /\ ~HasPld(ox') /\ ox'.kinds = {}
    BY <1>2, <2>1, ReadyOutKinds
  <2> QED BY <1>3, <2>2, FreshKinds
<1>5. CASE ox.a + n # ox.c
  <2>1. ox' = Move(ox, ox.a + n, ox.a + n)
    BY <1>5 DEF SendRecAck
  <2>2. ox'.a = ox'.b /\ ox'.kinds = ox.kinds /\ ox'.hdr = ox.hdr
    BY <2>1 DEF Move
  <2>3. Pure(ox') /\ ~HasPld(ox') /\ ~Gathering(ox')
    BY <2>2 DEF KindsInv, Pure, Record, HasPld, Gathering
  <2> QED BY <1>3, <2>3, FreshKinds
<1> QED BY <1>4, <1>5

(* While the application may write, the program that waits, if any, does   *)
(* so in the course of a refusal.                                          *)
LEMMA AppCourse ==
  ASSUME NoReneg, ReadInv, CourseInv, appdata = 1, pc = "idle", iomode # "FAILED"
  PROVE  Pending(todo) /\ rtout = APPDATA
<1>1. todo = <<>> \/ Head(todo).op \in WaitOps \/ Head(todo).op = "begin"
  BY DEF ReadInv, WaitInv, AtStart, At
<1>2. todo \in RejectEnds \/ Rejecting(todo) \/ todo = OnHandshakeData
  BY DEF CourseInv
<1>3. todo = <<>> \/ Head(todo).op \in {"room", "read"}
  BY <1>1, <1>2, RejectSteps DEF WaitOps
<1>4. rtout = APPDATA
  BY <1>3 DEF CourseInv, At
<1>5. todo # <<>> /\ Head(todo).op = "read" => Rejecting(todo)
  BY <1>2, RejectSteps
<1> QED BY <1>3, <1>4, <1>5 DEF Pending

(* The application writes.                                                 *)
LEMMA SendAppAckKinds ==
  ASSUME NoReneg, IInv, OrderInv, ReadInv, CourseInv, KindsInv, NEW n, SendAppAck(n)
  PROVE  KindsInv'
<1>1. /\ UNCHANGED <<todo, h, rtout, outenc>>
      /\ ox' = AckOut(Written(ox, APPDATA, outenc), n, rtout, outenc)
  BY DEF SendAppAck, hsVars
<1>2. /\ n \in Nat /\ n > 0 /\ OpenOK(ox, outenc) /\ ox.a + n <= ox.b /\ appdata = 1
      /\ iomode # "FAILED" /\ pc = "idle" /\ Gathering(ox)
  BY SendAppOpen
<1>3. ox \in OutRegs /\ outenc \in BOOLEAN
  BY <1>2, OutLegal
<1>4. Pending(todo) /\ rtout = APPDATA
  BY <1>2, AppCourse
<1>5. h' = Idle
  BY <1>1, <1>2 DEF IInv, CallInv
<1> DEFINE w == Written(ox, APPDATA, outenc)
<1>6. w \in OutRegs /\ w.a = ox.a /\ w.b = ox.b /\ w.c = ox.c
  <2>1. APPDATA \in RecTypes \union {0}
    BY DEF RecTypes
  <2> QED BY <1>3, <2>1, WrittenOK
<1>7. w.hdr = NoHdr /\ w.kinds \subseteq {<<rtout, outenc>>}
  BY <1>2, <1>4 DEF Written, OrderInv, HdrInv, KindsInv, OpenInv
<1> HIDE DEF w
<1>8. OpenOK(w, outenc) /\ Pure(w)
  BY <1>2, <1>6, <1>7 DEF OpenOK, Pure, Record
<1> DEFINE a == AckOut(w, n, rtout, outenc)
<1>9. Pure(a) /\ a.kinds = w.kinds /\ (Gathering(a) => a.a # a.c)
  BY <1>2, <1>3, <1>6, <1>7, <1>8, AckOutPure
<1>10. ox' = a
  BY <1>1 DEF w
<1> HIDE DEF a
<1>11. Pure(ox') /\ OpenInv'
  BY <1>1, <1>7, <1>9, <1>10 DEF OpenInv
<1>12. RoomInv'
  BY <1>5 DEF RoomInv, Idle
<1>13. PendingInv'
  BY <1>1, <1>4 DEF PendingInv
<1> QED BY <1>11, <1>12, <1>13 DEF KindsInv

(* The application flushes, with or without anything pending.              *)
LEMMA FlushKinds ==
  ASSUME NoReneg, IInv, ReadInv, CourseInv, KindsInv, NEW force \in Forces, Flush(force)
  PROVE  KindsInv'
<1>1. /\ UNCHANGED <<todo, h, rtout, outenc, iomode>> /\ appdata = 1 /\ pc = "idle"
      /\ iomode # "FAILED" /\ ox' = Seal(ox, rtout, outenc, force)
  BY DEF Flush, hsVars, Open
<1>2. h = Idle
  BY <1>1 DEF IInv, CallInv
<1>3. CASE ox.a = ox.b \/ (ox.a = ox.c /\ ~force)
  <2>1. ox' = ox
    BY <1>1, <1>3 DEF Seal
  <2> QED BY <1>1, <2>1, QuietKinds DEF KindsInv, PendingInv
<1>4. CASE ~(ox.a = ox.b \/ (ox.a = ox.c /\ ~force))
  <2>1. Pure(Seal(ox, rtout, outenc, force))
    BY <1>1, SealPure DEF KindsInv, OpenInv, Gathering
  <2>2. ~Gathering(ox')
    BY <1>1, <1>4 DEF Seal, Gathering
  <2>3. ~HasPld(ox') /\ h'.put = 0 /\ ~(h'.out > 0)
    BY <1>1, <1>2, <2>2 DEF HasPld, Gathering, Idle
  <2> QED BY <1>1, <2>1, <2>2, <2>3, FreshKinds
<1> QED BY <1>3, <1>4

(* The calls that do not touch the output registers.                       *)
LEMMA CallsKinds ==
  ASSUME NoReneg, IInv, OrderInv, ReadInv, CourseInv, KindsInv,
         RecvBody \/ RecvHead \/ SendRec \/ AppStep
  PROVE  KindsInv'
<1>1. CASE RecvBody \/ RecvHead
  <2>1. ox' = ox /\ UNCHANGED <<rtout, outenc>>
    BY <1>1 DEF RecvBody, RecvHead, RecvCipherPart, RecvClear, RecvCipherEnd, RecvHeaderPart,
       RecvHeader, outVars
  <2>2. (\E e : Fail(e)) \/ (UNCHANGED <<todo, h>> /\ iomode # "FAILED")
    BY <1>1 DEF RecvBody, RecvHead, RecvCipherPart, RecvClear, RecvCipherEnd, RecvHeaderPart,
       RecvHeader, Deliver, Jump, hsVars, Open
  <2> QED BY <2>1, <2>2, FailKinds, QuietKinds DEF KindsInv, PendingInv
<1>2. CASE SendRec
  BY <1>2, SendRecAckKinds DEF SendRec
<1>3. CASE (\E n \in 1 .. RecvAppLen : RecvAppAck(n)) \/ Close \/ Renegotiate
  <2>1. UNCHANGED <<ox, rtout, outenc, todo, h>> /\ iomode # "FAILED"
    BY <1>3 DEF RecvAppAck, Close, Renegotiate, Jump, hsVars, outVars, Open
  <2> QED BY <2>1, QuietKinds DEF KindsInv, PendingInv
<1>4. CASE IoFail
  BY <1>4, FailKinds DEF IoFail, outVars
<1>5. CASE AppStep
  BY <1>3, <1>4, <1>5, SendAppAckKinds, FlushKinds, ResetKinds DEF AppStep
<1> QED BY <1>1, <1>2, <1>5

-----------------------------------------------------------------------------
(* The types of records: the coroutine.                                    *)

(* The jump gives room in an empty record only.                            *)
LEMMA HsEnterKinds == ASSUME IInv, KindsInv, HsEnter PROVE KindsInv'
<1>1. /\ UNCHANGED <<ox, rtout, outenc, iomode, todo>> /\ pc = "jump" /\ h'.put = 0
      /\ h'.out = IF HasPld(ox) THEN 0 ELSE SendPldLen(iomode, ox)
  BY DEF HsEnter, outVars
<1>2. h = Idle /\ ox \in OutRegs
  BY <1>1 DEF IInv, CallInv, TypeOK
<1>3. OpenInv'
  BY <1>1, <1>2 DEF KindsInv, OpenInv, Idle
<1>4. RoomInv'
  <2>1. SUFFICES ASSUME h'.out > 0 PROVE ox.a = ox.c
    BY <1>1 DEF RoomInv
  <2>2. ~HasPld(ox) /\ SendPldLen(iomode, ox) # 0
    BY <1>1, <2>1
  <2>3. ox.a # ox.b
    <3>1. ox.a \in Nat /\ ox.b \in Nat
      BY <1>2 DEF OutRegs
    <3> QED BY <2>2, <3>1 DEF SendPldLen
  <2> QED BY <2>2, <2>3 DEF HasPld
<1>5. Pure(ox') /\ PendingInv'
  BY <1>1 DEF KindsInv, PendingInv
<1> QED BY <1>3, <1>4, <1>5 DEF KindsInv

(* On return, what was written is added to the open record; the rest of    *)
(* the message, or its flush, is still to come.                            *)
LEMMA HsReturnKinds == ASSUME IInv, OrderInv, KindsInv, HsReturn PROVE KindsInv'
<1>1. /\ UNCHANGED <<todo, rtout, outenc>> /\ h' = Idle /\ pc = "yield"
      /\ ox' = IF h.put > 0 THEN AckOut(ox, h.put, rtout, outenc) ELSE ox
  BY DEF HsReturn
<1>2. iomode # "FAILED" /\ h \in Window
  BY <1>1 DEF IInv, CallInv, TypeOK
<1>3. h'.put = 0 /\ ~(h'.out > 0)
  BY <1>1 DEF Idle
<1>4. CASE h.put > 0
  <2>1. OpenOK(ox, outenc) /\ ox \in OutRegs /\ outenc \in BOOLEAN
    BY <1>2, <1>4, PutFits, OutLegal
  <2>2. Gathering(ox)
    BY <1>4, WindowOpen
  <2> DEFINE a == AckOut(ox, h.put, rtout, outenc)
  <2>3. Pure(a) /\ a.kinds = ox.kinds /\ (Gathering(a) => a.a # a.c)
    <3>1. h.put \in Nat /\ Pure(ox) /\ ox.kinds \subseteq {<<rtout, outenc>>}
      BY <1>2, <2>2 DEF KindsInv, OpenInv, Window
    <3> QED BY <1>4, <2>1, <3>1, AckOutPure
  <2>4. ox' = a
    BY <1>1, <1>4
  <2> HIDE DEF a
  <2>5. Pure(ox') /\ OpenInv'
    BY <1>1, <1>2, <2>2, <2>3, <2>4 DEF KindsInv, OpenInv
  <2>6. Pending(todo)
    BY <1>4 DEF OrderInv, PutInv, At, Pending
  <2>7. PendingInv' /\ RoomInv'
    BY <1>1, <1>3, <2>6 DEF PendingInv, RoomInv
  <2> QED BY <2>5, <2>7 DEF KindsInv
<1>5. CASE ~(h.put > 0)
  <2>1. h.put = 0
    BY <1>2, <1>5 DEF Window
  <2> QED BY <1>1, <1>2, <1>3, <1>5, <2>1, QuietKinds DEF KindsInv, PendingInv
<1> QED BY <1>4, <1>5

(* What follows the return of co.                                          *)
LEMMA ReturnKinds ==
  ASSUME NoReneg, IInv, CourseInv, KindsInv,
         HsClose \/ HsAlerts \/ HsAlertsEnd \/ HsGoOn \/ HsDiscard
         \/ HsYield \/ \E byte : HsAlertByte(byte)
  PROVE  KindsInv'
<1>1. UNCHANGED <<ox, rtout, outenc>> /\ pc # "idle"
  BY DEF HsClose, HsAlerts, HsAlertsEnd, HsGoOn, HsDiscard, HsYield, HsAlertByte, outVars
<1>2. iomode # "FAILED" /\ h \in Window
  BY <1>1 DEF IInv, CallInv, TypeOK
<1>3. CASE \E e : Fail(e)
  BY <1>1, <1>3, FailKinds
<1>4. Pending(DoClose)
  BY RefusalTails DEF Pending
<1>5. Pending(OnHandshakeData)
  BY DEF Pending
<1>6. ASSUME todo' = todo, h' = h \/ h' = [h EXCEPT !.in = h.in - 1] \/ h' = [h EXCEPT !.in = 0]
      PROVE  KindsInv'
  <2>1. h'.put = h.put /\ h'.out = h.out
    BY <1>2, <1>6 DEF Window
  <2> QED BY <1>1, <1>2, <1>6, <2>1, QuietKinds DEF KindsInv, PendingInv
<1>7. ASSUME h' = h, todo' = DoClose \/ todo' = OnHandshakeData PROVE KindsInv'
  BY <1>1, <1>2, <1>4, <1>5, <1>7, QuietKinds
<1>8. ASSUME Continue PROVE KindsInv'
  <2>1. todo' = todo /\ h' = h
    BY <1>8 DEF Continue, WantReneg, CourseInv
  <2> QED BY <1>6, <2>1
<1>9. CASE HsClose
  BY <1>7, <1>9 DEF HsClose, StartClose
<1>10. CASE HsAlerts \/ HsYield
  BY <1>6, <1>10 DEF HsAlerts, HsYield
<1>11. CASE HsAlertsEnd
  BY <1>6, <1>7, <1>8, <1>11 DEF HsAlertsEnd, StartClose
<1>12. CASE HsGoOn
  BY <1>3, <1>7, <1>8, <1>12 DEF HsGoOn
<1>13. CASE HsDiscard
  BY <1>6, <1>13 DEF HsDiscard
<1>14. ASSUME NEW byte, HsAlertByte(byte) PROVE KindsInv'
  BY <1>3, <1>6, <1>14 DEF HsAlertByte
<1> QED BY <1>9, <1>10, <1>11, <1>12, <1>13, <1>14

-----------------------------------------------------------------------------
(* The types of records: the instructions.                                 *)

(* Where a program reads, pending data belongs to a refusal.               *)
LEMMA ReadPending ==
  ASSUME NoReneg, KindsInv, todo # <<>>, Head(todo).op = "read", HasPld(ox)
  PROVE  Rejecting(todo)
<1>1. Rejecting(todo) \/ todo = OnHandshakeData
  BY DEF KindsInv, PendingInv, Pending
<1>2. todo = OnHandshakeData => Rejecting(todo)
  <2>1. Role = "client" => Head(OnHandshakeData).op = "noapp"
    BY RefusedReneg
  <2>2. Role = "server" => Rejecting(OnHandshakeData)
    BY RefusedReneg
  <2> QED BY <2>1, <2>2, BufferAssumption
<1> QED BY <1>1, <1>2

(* The words that set a field: only the one that closes the engine to      *)
(* application data does so with data pending.                             *)
LEMMA HsSetKinds == ASSUME NoReneg, IInv, OrderInv, KindsInv, HsSet PROVE KindsInv'
<1>1. UNCHANGED <<ox, outenc, iomode, h>> /\ todo' = Tail(todo)
  BY DEF HsSet, Next1
<1>2. CASE Running("begin") \/ Running("type") \/ Running("end")
  BY <1>1, <1>2, StepKinds
<1>3. CASE Running("noapp") /\ rtout' = rtout
  <2>1. todo # <<>> /\ Head(todo).op = "noapp"
    BY <1>3 DEF Running, At
  <2>2. HasPld(ox) => Pending(Tail(todo))
    <3>1. SUFFICES ASSUME HasPld(ox) PROVE Pending(Tail(todo))
      OBVIOUS
    <3>2. todo = OnHandshakeData
      BY <2>1, <3>1 DEF KindsInv, PendingInv, Pending, Rejecting
    <3>3. Rejecting(Tail(todo))
      <4>1. Role = "client" => Rejecting(Tail(OnHandshakeData))
        BY RefusedReneg
      <4>2. Role = "server" => Head(OnHandshakeData).op = "read"
        BY RefusedReneg DEF Rejecting
      <4> QED BY <2>1, <3>2, <4>1, <4>2, BufferAssumption
    <3> QED BY <3>3 DEF Pending
  <2>3. HasPld(ox) => Pending(todo')
    BY <1>1, <2>2
  <2> QED BY <1>1, <1>3, <2>3, QuietKinds
<1> QED BY <1>2, <1>3 DEF HsSet

(* There is room, so the open record is empty.                             *)
LEMMA HsRoomKinds == ASSUME IInv, OrderInv, KindsInv, HsRoom PROVE KindsInv'
<1>1. /\ UNCHANGED <<ox, rtout, outenc, iomode, h>> /\ h.out > 0
      /\ Running("room") \/ Running("closeRoom")
  BY DEF HsRoom, outVars
<1>2. h.put = 0
  BY <1>1 DEF OrderInv, PutInv, Running, At, IInv, TypeOK, Window
<1>3. ~HasPld(ox)
  BY <1>1, <1>2 DEF KindsInv, RoomInv, HasPld
<1> QED BY <1>1, <1>3, QuietKinds

(* Reading leaves pending data to the refusal that follows.                *)
LEMMA HsReadKinds ==
  ASSUME NoReneg, IInv, CourseInv, KindsInv, NEW bad, HsRead(bad)
  PROVE  KindsInv'
<1> DEFINE n == Head(todo).n
           k == Least(n, h.in)
<1>1. Running("read") /\ UNCHANGED <<ox, rtout, outenc>>
  BY DEF HsRead, outVars
<1>2. todo \in Seq(Instr) /\ todo # <<>> /\ Head(todo).op = "read" /\ h \in Window
  BY <1>1 DEF IInv, TypeOK, Running, At
<1>3. CASE Fail("ERROR")
  BY <1>1, <1>3, FailKinds
<1>4. CASE ~Fail("ERROR")
  <2>1. h' = [h EXCEPT !.in = h.in - k] /\ iomode' = iomode
    BY <1>4 DEF HsRead
  <2>2. h'.put = h.put /\ h'.out = h.out
    BY <1>2, <2>1 DEF Window
  <2>3. todo' = IF k = n THEN Tail(todo) ELSE <<I("read", n - k)>> \o Tail(todo)
    BY <1>4 DEF HsRead
  <2>4. ASSUME HasPld(ox) PROVE Pending(todo')
    <3>1. Rejecting(todo)
      BY <1>2, <2>4, ReadPending
    <3>2. CASE k = n
      <4>1. todo' = RejectReneg
        BY <2>3, <3>1, <3>2 DEF Rejecting
      <4> QED BY <4>1, RefusalTails DEF Pending
    <3>3. CASE k # n
      <4>1. Head(todo) \in Instr
        BY <1>2, HeadTailProperties
      <4>2. n \in Nat /\ h.in \in Nat
        BY <1>2, <4>1 DEF Instr, Window
      <4>3. n - k \in Nat /\ n - k > 0
        <5>1. k \in Nat /\ k <= n
          BY <4>2, LeastOK
        <5> QED BY <3>3, <4>2, <5>1
      <4>4. todo' = Shortened(todo, n - k)
        BY <1>2, <2>3, <3>3 DEF Shortened
      <4>5. Shape(todo)
        BY DEF CourseInv
      <4>6. Rejecting(Shortened(todo, n - k))
        BY <1>2, <3>1, <4>3, <4>5, ShortenedShape
      <4>7. Rejecting(todo')
        BY <4>4, <4>6
      <4> QED BY <4>7 DEF Pending
    <3> QED BY <3>2, <3>3
  <2> QED BY <1>1, <2>1, <2>2, <2>4, QuietKinds
<1> QED BY <1>3, <1>4

(* The other instructions that neither read nor write.                     *)
LEMMA OtherKinds ==
  ASSUME NoReneg, IInv, OrderInv, KindsInv,
         HsNoMore \/ HsNoFrag \/ HsRefuse \/ HsBranch \/ HsEnd \/ \E bad : HsReadCcs(bad)
  PROVE  KindsInv'
<1>1. ox' = ox
  BY DEF HsNoMore, HsNoFrag, HsRefuse, HsBranch, HsEnd, HsReadCcs, outVars
<1>2. CASE \E e : Fail(e)
  BY <1>1, <1>2, FailKinds
<1>3. ASSUME NEW op \in {"nomore", "frag", "branch", "readCcs"}, Running(op),
             h'.put = h.put, h'.out = h.out
      PROVE  KindsInv'
  BY <1>1, <1>3, StepKinds
<1>4. CASE HsNoMore
  BY <1>2, <1>3, <1>4 DEF HsNoMore
<1>5. CASE HsNoFrag \/ HsRefuse \/ HsBranch
  BY <1>3, <1>5 DEF HsNoFrag, HsRefuse, HsBranch
<1>6. CASE HsEnd
  BY <1>2, <1>6 DEF HsEnd
<1>7. ASSUME NEW bad, HsReadCcs(bad) PROVE KindsInv'
  <2>1. CASE Fail("ERROR")
    BY <1>2, <2>1
  <2>2. CASE ~Fail("ERROR")
    <3>1. h' = [h EXCEPT !.in = @ - 1] /\ Running("readCcs")
      BY <1>7, <2>2 DEF HsReadCcs
    <3>2. h'.put = h.put /\ h'.out = h.out
      BY <3>1 DEF IInv, TypeOK, Window
    <3> QED BY <1>3, <3>1, <3>2
  <2> QED BY <2>1, <2>2
<1> QED BY <1>4, <1>5, <1>6, <1>7

(* The limit of the open record moves, and nothing is pending.             *)
LEMMA HsFragKinds ==
  ASSUME NoReneg, IInv, OrderInv, KindsInv, NEW f \in FragSizes, HsFrag(f)
  PROVE  KindsInv'
<1>1. Running("frag")
  BY DEF HsFrag
<1>2. /\ ~HasPld(ox) /\ h.put = 0 /\ iomode # "FAILED" /\ Pure(ox)
      /\ Gathering(ox) => ox.a = ox.c /\ ox.kinds = {}
      /\ h.out > 0 => ox.a = ox.c
  BY <1>1, NothingPending
<1>3. CASE f < maxFrag
  <2>1. ox' = ShrinkOut(ox, f) /\ h'.out = Least(h.out, f) /\ h'.put = h.put
    BY <1>3 DEF HsFrag, Offer, WindowAfterFrag
  <2>2. h'.out > 0 => h.out > 0
    <3>1. f \in Nat /\ h.out \in Nat
      BY BufferAssumption DEF IInv, TypeOK, Window
    <3>2. Least(h.out, f) \in Nat /\ Least(h.out, f) <= h.out
      BY <3>1, LeastOK
    <3> QED BY <2>1, <3>1, <3>2
  <2>3. CASE ox.a < ox.b /\ ox.b > ox.c + f /\ ox.a < ox.c + f
    <3>1. ox' = Move(ox, ox.a, ox.c + f)
      BY <2>1, <2>3 DEF ShrinkOut
    <3>2. ox'.a = ox.a /\ ox'.c = ox.c /\ ox'.kinds = ox.kinds /\ ox'.hdr = ox.hdr
      BY <3>1 DEF Move
    <3>3. Gathering(ox)
      BY <2>3 DEF Gathering, IInv, TypeOK, OutRegs
    <3>4. ox'.a = ox'.c /\ ox'.kinds = {} /\ Pure(ox')
      BY <1>2, <3>2, <3>3 DEF Pure, Record
    <3> QED BY <1>2, <2>1, <3>4, FreshKinds DEF HasPld
  <2>4. CASE ~(ox.a < ox.b /\ ox.b > ox.c + f /\ ox.a < ox.c + f)
    <3>1. ox' = ox
      BY <2>1, <2>4 DEF ShrinkOut
    <3> QED BY <1>1, <2>1, <2>2, <3>1, StepKinds
  <2> QED BY <2>3, <2>4
<1>4. CASE ~(f < maxFrag)
  <2>1. UNCHANGED <<ox, h>>
    BY <1>4 DEF HsFrag
  <2> QED BY <1>1, <2>1, StepKinds
<1> QED BY <1>3, <1>4

(* A message, or a part of it, joins what the open record already holds of *)
(* its type.                                                               *)
LEMMA HsWriteKinds ==
  ASSUME NoReneg, IInv, OrderInv, CourseInv, KindsInv, HsWrite
  PROVE  KindsInv'
<1> DEFINE n == Head(todo).n
           k == Least(n, h.out)
<1>1. Running("write") /\ UNCHANGED <<rtout, outenc, iomode>> /\ h.out > 0
  BY DEF HsWrite
<1>2. todo \in Seq(Instr) /\ todo # <<>> /\ Head(todo).op = "write" /\ h \in Window
  BY <1>1 DEF IInv, TypeOK, Running, At
<1>3. /\ ox' = Written(ox, rtout, outenc) /\ h'.put = h.put + k
      /\ todo' = IF k = n THEN Tail(todo) ELSE <<I("write", n - k)>> \o Tail(todo)
  BY DEF HsWrite, Put, Offer
<1>4. iomode # "FAILED" /\ Gathering(ox) /\ ox.hdr = NoHdr
  BY <1>1, WindowOpen
<1>5. Head(todo) \in Instr
  BY <1>2, HeadTailProperties
<1>6. n \in Nat /\ h.out \in Nat /\ h.put \in Nat /\ n > 0
  BY <1>2, <1>5, TailShape DEF Instr, Window, CourseInv
<1>7. h'.put > 0
  <2>1. k \in Nat /\ k > 0
    BY <1>1, <1>6 DEF Least
  <2> HIDE DEF k
  <2> QED BY <1>3, <1>6, <2>1
<1>8. ox'.hdr = NoHdr /\ ox'.kinds = ox.kinds \union {<<rtout, outenc>>}
  BY <1>3, <1>4 DEF Written
<1>9. Pure(ox') /\ OpenInv'
  BY <1>1, <1>4, <1>7, <1>8 DEF Pure, Record, OpenInv, KindsInv
<1>10. Pending(todo')
  <2>1. CASE k = n
    <3>1. Tail(todo) # <<>> /\ Head(Tail(todo)).op = "flush"
      BY <1>2, TailParts DEF OrderInv, ProgramInv, OutOps
    <3>2. todo' # <<>> /\ Head(todo').op = "flush"
      BY <1>3, <2>1, <3>1
    <3> QED BY <3>2 DEF Pending
  <2>2. CASE k # n
    <3>1. todo' = Shortened(todo, n - k)
      BY <1>2, <1>3, <2>2 DEF Shortened
    <3>2. Head(Shortened(todo, n - k)).op = "write"
      BY <1>2, SameParts
    <3>3. Head(todo').op = "write"
      BY <3>1, <3>2
    <3> QED BY <3>3 DEF Pending
  <2> QED BY <2>1, <2>2
<1>11. RoomInv' /\ PendingInv'
  BY <1>7, <1>10 DEF RoomInv, PendingInv
<1> QED BY <1>9, <1>11 DEF KindsInv

(* The alert is written into an empty record.                              *)
LEMMA HsAlertOutKinds ==
  ASSUME IInv, OrderInv, CourseInv, KindsInv, HsAlertOut
  PROVE  KindsInv'
<1>1. Running("alert") /\ UNCHANGED <<outenc, iomode>> /\ rtout' = ALERT
  BY DEF HsAlertOut
<1>2. h.out > 0 /\ h \in Window
  BY <1>1 DEF CourseInv, Running, IInv, TypeOK
<1>3. h.put = 0
  BY <1>1, <1>2 DEF OrderInv, PutInv, Running, At, Window
<1>4. ox' = Written(ox, ALERT, outenc) /\ h'.put = h.put + Least(2, h.out)
  BY DEF HsAlertOut, Put, Offer
<1>5. iomode # "FAILED" /\ Gathering(ox) /\ ox.hdr = NoHdr
  BY <1>2, WindowOpen
<1>6. ox.a = ox.c /\ ox.kinds = {}
  BY <1>2, <1>3, <1>5 DEF KindsInv, RoomInv, OpenInv
<1>7. h'.put > 0
  BY <1>2, <1>3, <1>4 DEF Window, Least
<1>8. /\ ox'.hdr = NoHdr /\ ox'.kinds = {<<ALERT, outenc>>}
      /\ ox'.a = ox'.c
  BY <1>4, <1>5, <1>6 DEF Written
<1>9. Pure(ox') /\ OpenInv'
  BY <1>1, <1>7, <1>8 DEF Pure, Record, OpenInv
<1>10. RoomInv' /\ PendingInv'
  BY <1>7, <1>8 DEF RoomInv, PendingInv, HasPld
<1> QED BY <1>9, <1>10 DEF KindsInv

(* A flush closes the record, or found nothing in it.                      *)
LEMMA HsFlushKinds == ASSUME IInv, OrderInv, KindsInv, HsFlush PROVE KindsInv'
<1>1. /\ Running("flush") /\ UNCHANGED <<rtout, outenc>> /\ h'.put = 0
      /\ ox' = FlushRecord(ox, h.put, rtout) /\ h'.out = SendPldLen(iomode', ox')
  BY DEF HsFlush, Offer
<1>2. iomode # "FAILED" /\ h \in Window
  BY <1>1, RunningOpen DEF Running
<1>3. /\ ox \in OutRegs /\ outenc \in BOOLEAN /\ OutOK(ox, outenc)
      /\ rtout \in RecTypes \union {0}
  BY <1>2, OutLegal
<1>4. h.put \in Nat /\ h.out \in Nat /\ ox.a \in Nat /\ ox.b \in Nat
  BY <1>2, <1>3 DEF Window, OutRegs
<1>5. h.put > 0 => OpenOK(ox, outenc) /\ ox.a + h.put <= ox.b
  BY <1>4, PutFits
<1>6. Pure(ox) /\ (Gathering(ox) => ox.kinds \subseteq {<<rtout, outenc>>})
  BY <1>2 DEF KindsInv, OpenInv
<1> DEFINE p == FlushRecord(ox, h.put, rtout)
<1>7. Pure(p) /\ ~HasPld(p) /\ (Gathering(p) => h.put = 0 /\ p = ox /\ ox.a = ox.c)
  BY <1>3, <1>4, <1>5, <1>6, FlushRecordPure
<1>8. ox' = p
  BY <1>1
<1> HIDE DEF p
<1>9. Gathering(ox') => ox'.kinds = {} /\ ox'.a = ox'.c
  BY <1>2, <1>7, <1>8 DEF KindsInv, OpenInv
<1>10. h'.out > 0 => ox'.a = ox'.c
  <2>1. SUFFICES ASSUME h'.out > 0, ~Gathering(ox') PROVE FALSE
    BY <1>9
  <2>2. ox' \in OutRegs /\ ox'.a = ox'.b
    <3>1. OutOK(ox, outenc) /\ h.put \in Nat
      BY <1>3, <1>4
    <3>2. FlushRecord(ox, h.put, rtout) \in OutRegs
      BY <1>3, <1>4, <1>5, FlushRecordOK
    <3> QED BY <1>1, <2>1, <3>2 DEF Gathering
  <2>3. SendPldLen(iomode', ox') = 0
    BY <2>2 DEF SendPldLen, OutRegs
  <2> QED BY <1>1, <2>1, <2>3
<1> QED BY <1>1, <1>7, <1>8, <1>9, <1>10, FreshKinds

(* The ChangeCipherSpec gets a record of its own, under the protection     *)
(* that it ends.                                                           *)
LEMMA HsWriteCcsKinds == ASSUME IInv, OrderInv, KindsInv, HsWriteCcs PROVE KindsInv'
<1> DEFINE w == Written(ox, CCS, outenc)
           n == h.put + 1
           p == FlushRecord(w, n, CCS)
<1>1. /\ Running("writeCcs") /\ h.out > 0 /\ h'.put = 0
      /\ ox' = p /\ h'.out = SendPldLen(iomode', ox')
  BY DEF HsWriteCcs, Offer
<1>2. iomode # "FAILED" /\ Gathering(ox) /\ ox.hdr = NoHdr
  BY <1>1, WindowOpen
<1>3. /\ ox \in OutRegs /\ outenc \in BOOLEAN /\ OpenOK(ox, outenc) /\ h \in Window
      /\ ox.a + h.put + h.out <= ox.b
  BY <1>1, <1>2, OutLegal, PutFits
<1>4. h.put = 0
  BY <1>1, <1>3 DEF OrderInv, PutInv, Running, At, Window
<1>5. ox.kinds = {}
  BY <1>1, <1>2, <1>4 DEF KindsInv, RoomInv, OpenInv
<1>6. CCS \in RecTypes \union {0}
  BY DEF RecTypes
<1>7. w \in OutRegs /\ w.a = ox.a /\ w.b = ox.b /\ w.c = ox.c
  BY <1>3, <1>6, WrittenOK
<1>8. w.hdr = NoHdr /\ w.kinds = {<<CCS, outenc>>}
  BY <1>2, <1>5 DEF Written
<1>9. n \in Nat /\ n = 1 /\ w.a + n <= w.b
  BY <1>1, <1>3, <1>4, <1>7 DEF Window, OutRegs
<1> HIDE DEF w, n
<1>10. OpenOK(w, outenc) /\ OutOK(w, outenc) /\ Pure(w)
  BY <1>3, <1>7, <1>8 DEF OpenOK, OutOK, Pure, Record
<1>11. Pure(p) /\ ~HasPld(p) /\ ~Gathering(p) /\ p \in OutRegs
  <2>1. Pure(p) /\ ~HasPld(p) /\ (Gathering(p) => n = 0)
    BY <1>3, <1>6, <1>7, <1>8, <1>9, <1>10, FlushRecordPure
  <2>2. p \in OutRegs
    BY <1>3, <1>6, <1>7, <1>9, <1>10, FlushRecordOK
  <2> QED BY <1>9, <2>1, <2>2
<1> HIDE DEF p
<1>12. ~(h'.out > 0)
  <2>1. SendPldLen(iomode', ox') = 0
    BY <1>1, <1>11 DEF SendPldLen, OutRegs, Gathering
  <2> QED BY <1>1, <2>1
<1> QED BY <1>1, <1>11, <1>12, FreshKinds

(* Every step keeps apart what records hold.                               *)
LEMMA NextKinds ==
  ASSUME NoReneg, IInv, OrderInv, ReadInv, CourseInv, KindsInv, [Next]_vars
  PROVE  KindsInv'
<1>1. CASE HsStep
  <2>1. CASE HsEnter \/ HsReturn \/ HsClose \/ HsAlerts \/ HsAlertsEnd \/ HsGoOn \/ HsDiscard
             \/ HsYield \/ \E byte : HsAlertByte(byte)
    BY <2>1, HsEnterKinds, HsReturnKinds, ReturnKinds
  <2>2. CASE HsSet \/ HsRoom \/ HsWrite \/ HsAlertOut \/ HsFlush \/ HsWriteCcs
    BY <2>2, HsSetKinds, HsRoomKinds, HsWriteKinds, HsAlertOutKinds, HsFlushKinds,
       HsWriteCcsKinds
  <2>3. CASE HsNoMore \/ HsNoFrag \/ HsRefuse \/ HsBranch \/ HsEnd \/ \E bad : HsReadCcs(bad)
    BY <2>3, OtherKinds
  <2>4. ASSUME NEW bad, HsRead(bad) PROVE KindsInv'
    BY <2>4, HsReadKinds
  <2>5. ASSUME NEW f \in FragSizes, HsFrag(f) PROVE KindsInv'
    BY <2>5, HsFragKinds
  <2> QED BY <1>1, <2>1, <2>2, <2>3, <2>4, <2>5 DEF HsStep
<1>2. CASE RecvBody \/ RecvHead \/ SendRec \/ AppStep
  BY <1>2, CallsKinds
<1>3. CASE UNCHANGED vars
  BY <1>3, QuietKinds DEF vars, outVars, hsVars, KindsInv, PendingInv
<1> QED BY <1>1, <1>2, <1>3 DEF Next

(* A sealed record carries only bytes that were written for its type and   *)
(* under its protection: the waits for a free buffer keep a change of type *)
(* or of protection from meeting bytes of the previous kind                *)
(* (wait-rectype-out, send-alert, write-CCS-Finished, do-close).           *)
THEOREM RecordsAsWritten ==
  ASSUME Shared => Forces \subseteq {FALSE}, NoReneg
  PROVE  Spec => []SealedAsWritten
<1>1. Init => ReadInv /\ CourseInv /\ KindsInv
  BY InitRead, InitCourse, InitKinds
<1>2. IInv /\ ReadInv /\ [Next]_vars => ReadInv'
  BY InvOneWindow, NextRead
<1>3. IInv /\ OrderInv /\ CourseInv /\ [Next]_vars => CourseInv'
  BY NextCourse
<1>4. IInv /\ OrderInv /\ ReadInv /\ CourseInv /\ KindsInv /\ [Next]_vars => KindsInv'
  BY NextKinds
<1>5. KindsInv => SealedAsWritten
  BY DEF KindsInv, Pure, SealedAsWritten
<1> QED BY <1>1, <1>2, <1>3, <1>4, <1>5, Invariance, OrderKept, PTL DEF Spec

-----------------------------------------------------------------------------
(* What the engine waits for.  With separate buffers and without           *)
(* renegotiation an open engine can always do something for the transport  *)
(* or for the application; for every other choice of the constants.        *)

(* Separate buffers keep their mode.                                       *)
BothWays == ~Shared => iomode \in {"INOUT", "FAILED"}

(* A program ends with a last operation: what is left of one has it, and   *)
(* the main loop is only reached by an "end".                              *)
Ends(t) == \E op \in LastOps : Has(op, t)
EndInv == /\ todo # <<>> => Ends(todo)
          /\ iomode # "FAILED" /\ todo = <<>> => appdata = 1

(* What is left of a closure.  The peer's side is closed only then.        *)
CloseSteps == {DoClose, CloseRoom, CloseAlert, <<I("flush", 0), I("closeWait", 0)>>,
               <<I("closeWait", 0)>>}
ClosingInv == Closure(todo) => todo \in CloseSteps
ShutInv == shutdownRecv /\ iomode # "FAILED" => cnr /\ Has("closeWait", todo)
WayInv == EndInv /\ ClosingInv /\ ShutInv

(* Separate buffers keep their mode.                                       *)
LEMMA BothWaysStep ==
  ASSUME [Next]_vars, BothWays
  PROVE  BothWays'
<1> SUFFICES ASSUME ~Shared, iomode \in {"INOUT", "FAILED"}
             PROVE  iomode' \in {"INOUT", "FAILED"}
  BY DEF BothWays
<1>1. /\ ModeRecv = iomode /\ ModeReadyIn(iomode) = iomode /\ ModeReadyOut(iomode) = iomode
      /\ AckOutMode(iomode) = iomode
      /\ \A i, n : AckInMode(i, n, iomode) = iomode
      /\ \A n : FlushMode(n) = iomode
  BY DEF ModeRecv, ModeReadyIn, ModeReadyOut, AckOutMode, AckInMode, FlushMode
<1>2. ASSUME NEW e, Fail(e) PROVE iomode' = "FAILED"
  BY <1>2 DEF Fail
<1>3. CASE HsStep
  <2>1. ASSUME \/ HsEnter \/ HsClose \/ HsAlerts \/ HsDiscard \/ HsYield \/ HsSet \/ HsRoom \/ HsWrite
               \/ HsAlertOut \/ HsNoFrag \/ HsRefuse \/ HsBranch
        PROVE  iomode' = iomode
    <3>1. CASE HsEnter \/ HsClose \/ HsAlerts \/ HsDiscard \/ HsYield
      BY <3>1 DEF HsEnter, HsClose, HsAlerts, HsDiscard, HsYield
    <3>2. CASE HsSet \/ HsRoom \/ HsWrite \/ HsAlertOut
      BY <3>2 DEF HsSet, HsRoom, HsWrite, HsAlertOut
    <3>3. CASE HsNoFrag \/ HsRefuse \/ HsBranch
      BY <3>3 DEF HsNoFrag, HsRefuse, HsBranch
    <3> QED BY <2>1, <3>1, <3>2, <3>3
  <2>2. CASE HsReturn
    BY <1>1, <2>2 DEF HsReturn
  <2>3. CASE HsFlush \/ HsWriteCcs
    BY <1>1, <2>3 DEF HsFlush, HsWriteCcs
  <2>4. CASE HsAlertsEnd \/ HsGoOn \/ HsNoMore
    BY <1>2, <2>4 DEF HsAlertsEnd, HsGoOn, HsNoMore, Continue
  <2>5. CASE HsEnd
    BY <1>2, <2>5 DEF HsEnd
  <2>6. ASSUME NEW bad, HsRead(bad) \/ HsReadCcs(bad) PROVE iomode' \in {"INOUT", "FAILED"}
    BY <1>2, <2>6 DEF HsRead, HsReadCcs
  <2>7. ASSUME NEW f, HsFrag(f) PROVE iomode' \in {"INOUT", "FAILED"}
    BY <2>7 DEF HsFrag
  <2>8. ASSUME NEW byte, HsAlertByte(byte) PROVE iomode' \in {"INOUT", "FAILED"}
    BY <1>2, <2>8 DEF HsAlertByte
  <2> QED BY <1>3, <2>1, <2>2, <2>3, <2>4, <2>5, <2>6, <2>7, <2>8 DEF HsStep
<1>4. CASE RecvBody \/ RecvHead
  <2>1. ASSUME NEW i, Deliver(i) PROVE iomode' \in {"INOUT", "FAILED"}
    <3>1. AckInMode(i, i.b - i.a, ModeRecv) = iomode
      BY <1>1
    <3> QED BY <1>1, <1>2, <2>1, <3>1 DEF Deliver
  <2> QED BY <1>1, <1>2, <1>4, <2>1 DEF RecvBody, RecvHead, RecvCipherPart, RecvClear,
                                        RecvCipherEnd, RecvHeaderPart, RecvHeader
<1>5. CASE SendRec
  BY <1>1, <1>5 DEF SendRec, SendRecAck
<1>6. CASE AppStep
  BY <1>1, <1>2, <1>6
  DEF AppStep, SendAppAck, RecvAppAck, Flush, Close, Renegotiate, Reset, IoFail
<1>7. CASE UNCHANGED vars
  BY <1>7 DEF vars
<1> QED BY <1>3, <1>4, <1>5, <1>6, <1>7 DEF Next

(* A flush leaves no payload in the open record.                           *)
LEMMA FlushClears == ASSUME NEW o, NEW n, NEW type PROVE ~HasPld(FlushRecord(o, n, type))
<1> DEFINE q == IF n > 0 THEN AckOut(o, n, type, outenc) ELSE o
<1>1. FlushRecord(o, n, type) = IF HasPld(q) THEN Seal(q, type, outenc, FALSE) ELSE q
  BY DEF FlushRecord
<1> HIDE DEF q
<1> QED BY <1>1 DEF HasPld, Seal

(* Sealing does not either.                                                *)
LEMMA SealClears == ASSUME NEW o, NEW type, NEW e, NEW f PROVE ~HasPld(Seal(o, type, e, f))
BY DEF HasPld, Seal

(* The part of a record that is sent is no payload.                        *)
LEMMA SentClears == ASSUME IInv, NEW n, SendRecAck(n) PROVE ~HasPld(ox')
<1>1. maxFrag \in Nat /\ maxFrag >= 2 /\ outenc \in BOOLEAN
  BY DEF IInv, TypeOK, CallInv
<1>2. ox' = ReadyOut(outenc, maxFrag) \/ ox' = Move(ox, ox.a + n, ox.a + n)
  BY DEF SendRecAck
<1>3. ~HasPld(ReadyOut(outenc, maxFrag))
  BY <1>1, ReadyOutKinds
<1>4. ~HasPld(Move(ox, ox.a + n, ox.a + n))
  BY DEF HasPld, Move
<1> QED BY <1>2, <1>3, <1>4

(* A shorter fragment length does not bring payload into the record.       *)
LEMMA ShrinkKeeps ==
  ASSUME NEW o \in OutRegs, NEW f, HasPld(ShrinkOut(o, f))
  PROVE  HasPld(o)
<1>1. CASE o.a < o.b /\ o.b > o.c + f /\ o.a < o.c + f
  <2>1. o.a \in Nat /\ o.b \in Nat
    BY DEF OutRegs
  <2>2. o.a # o.b
    BY <1>1, <2>1
  <2>3. ShrinkOut(o, f) = Move(o, o.a, o.c + f)
    BY <1>1 DEF ShrinkOut
  <2> QED BY <2>2, <2>3 DEF HasPld, Move
<1>2. CASE ~(o.a < o.b /\ o.b > o.c + f /\ o.a < o.c + f)
  BY <1>2 DEF ShrinkOut
<1> QED BY <1>1, <1>2

-----------------------------------------------------------------------------
(* The programs.                                                           *)

(* The programs of an engine without renegotiation end.                    *)
LEMMA ProgramsEnd ==
  ASSUME NoReneg
  PROVE  \A t \in {DoHandshake, FullHandshake, Resumption, DoClose, FailAlert, OnHandshakeData} :
           t # <<>> /\ Ends(t)
<1> DEFINE a == <<I("write", MsgLen), I("flush", 0), I("read", MsgLen)>>
           b == <<I("read", MsgLen), I("nomore", 0), I("write", MsgLen)>>
           e == <<I("write", MsgLen)>>
           f == <<I("noapp", 0), I("read", MsgLen)>>
           g == <<I("read", MsgLen)>>
           end == <<I("end", 0)>>
           P == {a, b, e, f, g, end, WriteCcsFinished, ReadCcsFinished, RejectReneg}
<1>1. \A t \in P : t \in Seq(PlainInstr)
  BY Pieces
<1>2. \A t \in P : t \in Seq(Instr)
  BY <1>1, PlainHas
<1>3. Has("end", end) /\ Has("end", RejectReneg)
  BY DEF Has, RejectReneg, I
<1>4. FullHandshake \in {((b \o WriteCcsFinished) \o ReadCcsFinished) \o end,
                         ((a \o ReadCcsFinished) \o WriteCcsFinished) \o end}
  BY DEF FullHandshake
<1>5. Resumption \in {(ReadCcsFinished \o WriteCcsFinished) \o end,
                      ((e \o WriteCcsFinished) \o ReadCcsFinished) \o end}
  BY DEF Resumption
<1>6. OnHandshakeData \in {f \o RejectReneg, g \o RejectReneg}
  BY DEF OnHandshakeData
<1> HIDE DEF a, b, e, f, g, end, P
<1>7. ASSUME NEW s \in Seq(Instr), NEW t \in Seq(Instr), Has("end", t) PROVE Has("end", s \o t)
  BY <1>7, CatHas
<1>8. ASSUME NEW s \in Seq(Instr), NEW t \in Seq(Instr) PROVE s \o t \in Seq(Instr)
  BY <1>8, ConcatProperties
<1>9. /\ a \in Seq(Instr) /\ b \in Seq(Instr) /\ e \in Seq(Instr) /\ f \in Seq(Instr)
      /\ g \in Seq(Instr) /\ end \in Seq(Instr) /\ RejectReneg \in Seq(Instr)
      /\ WriteCcsFinished \in Seq(Instr) /\ ReadCcsFinished \in Seq(Instr)
  BY <1>2 DEF P
<1>10. Has("end", FullHandshake)
  <2>1. /\ (b \o WriteCcsFinished) \o ReadCcsFinished \in Seq(Instr)
        /\ (a \o ReadCcsFinished) \o WriteCcsFinished \in Seq(Instr)
    BY <1>8, <1>9
  <2> QED BY <1>3, <1>4, <1>7, <1>9, <2>1
<1>11. Has("end", Resumption)
  <2>1. /\ ReadCcsFinished \o WriteCcsFinished \in Seq(Instr)
        /\ (e \o WriteCcsFinished) \o ReadCcsFinished \in Seq(Instr)
    BY <1>8, <1>9
  <2> QED BY <1>3, <1>5, <1>7, <1>9, <2>1
<1>12. Has("end", OnHandshakeData)
  BY <1>3, <1>6, <1>7, <1>9
<1>13. /\ Has("branch", DoHandshake) /\ Has("closeWait", DoClose) /\ Has("fail", FailAlert)
  BY DoHandshakeOrdered, ClosureOrdered
<1>14. \A t, op : Has(op, t) => t # <<>>
  BY DEF Has
<1> QED BY <1>10, <1>11, <1>12, <1>13, <1>14 DEF Ends, LastOps

(* The closure, one instruction after the other.                           *)
LEMMA CloseTails ==
  \A t \in CloseSteps :
    /\ t # <<>> /\ Has("closeWait", t) /\ Head(t).op \in {"flush", "closeRoom", "alert", "closeWait"}
    /\ Head(t).op # "closeWait" => Tail(t) \in CloseSteps
    /\ Head(t).op = "flush" => t = DoClose \/ t = <<I("flush", 0), I("closeWait", 0)>>
<1> DEFINE flush == <<I("flush", 0), I("closeWait", 0)>>
           wait == <<I("closeWait", 0)>>
<1>1. /\ flush # <<>> /\ Head(flush).op = "flush" /\ Tail(flush) = wait
      /\ wait # <<>> /\ Head(wait).op = "closeWait"
  BY DEF I
<1>2. /\ Has("closeWait", flush) /\ Has("closeWait", wait) /\ Has("closeWait", CloseRoom)
      /\ Has("closeWait", CloseAlert) /\ Has("closeWait", DoClose)
  BY DEF Has, I, CloseRoom, CloseAlert, DoClose
<1> HIDE DEF flush, wait
<1>3. CloseSteps = {DoClose, CloseRoom, CloseAlert, flush, wait}
  BY DEF CloseSteps, flush, wait
<1>4. /\ DoClose # <<>> /\ CloseRoom # <<>> /\ CloseAlert # <<>>
      /\ Head(DoClose).op = "flush" /\ Tail(DoClose) = CloseRoom
      /\ Head(CloseRoom).op = "closeRoom" /\ Tail(CloseRoom) = CloseAlert
      /\ Head(CloseAlert).op = "alert" /\ Tail(CloseAlert) = flush
  BY RefusalTails DEF Refusals, flush
<1> QED BY <1>1, <1>2, <1>3, <1>4 DEF flush, wait

-----------------------------------------------------------------------------
(* The way of the programs: what a step does to the one under way.         *)

Forgets == iomode' = "FAILED" /\ todo' = <<>>
Keeps == /\ UNCHANGED <<todo, appdata, shutdownRecv>> /\ (cnr => cnr')
         /\ iomode' # "FAILED" => iomode # "FAILED"
Hears == /\ Closing /\ UNCHANGED <<todo, cnr>> /\ appdata' = 0 /\ pc = "alerts"
         /\ shutdownRecv' = (shutdownRecv \/ cnr)
Does(op) ==
  /\ Running(op) /\ op \notin {"branch", "fail", "closeWait"}
  /\ todo' = Tail(todo) /\ UNCHANGED <<cnr, shutdownRecv>>
  /\ appdata' = IF op = "end" THEN 1 ELSE IF op \in {"begin", "noapp"} THEN 0 ELSE appdata
DoesPart(op, m) ==
  /\ Running(op) /\ op \in {"read", "write"} /\ todo' = Shortened(todo, m)
  /\ UNCHANGED <<cnr, shutdownRecv, appdata>>
Starts ==
  /\ UNCHANGED <<cnr, shutdownRecv, appdata>>
  /\ \/ todo = <<>> /\ todo' = OnHandshakeData /\ h.in > 0 /\ pc = "resume"
     \/ Running("branch") /\ todo' \in {FullHandshake, Resumption}
     \/ Running("nomore") /\ todo' = FailAlert
Closes ==
  /\ todo' = DoClose /\ appdata' \in {0, 2} /\ ~Closing
  /\ \/ pc = "resume" /\ UNCHANGED shutdownRecv
     \/ pc = "alerts" /\ cnr'
Restarts == todo' = DoHandshake /\ appdata' = 0 /\ ~shutdownRecv'

(* Every step is one of these.                                             *)
LEMMA ProgramStep ==
  ASSUME NoReneg, IInv, CourseInv, [Next]_vars
  PROVE  \/ Forgets \/ Keeps \/ Hears \/ Starts \/ Closes \/ Restarts
         \/ (\E op : Does(op)) \/ (\E op, m : DoesPart(op, m))
<1>0. pc # "idle" => iomode # "FAILED"
  BY DEF IInv, CallInv
<1>1. ASSUME NEW e, Fail(e) PROVE Forgets
  BY <1>1 DEF Fail, Forgets
<1>2. ASSUME Continue, UNCHANGED <<appdata, shutdownRecv>>, pc # "idle" PROVE Keeps
  BY <1>0, <1>2 DEF Continue, WantReneg, CourseInv, Keeps
<1>3. CASE HsStep
  <2>1. CASE HsEnter \/ HsReturn \/ HsAlerts \/ HsDiscard \/ HsYield
    BY <1>0, <2>1 DEF HsEnter, HsReturn, HsAlerts, HsDiscard, HsYield, Keeps, inVars
  <2>2. CASE HsClose
    BY <2>2 DEF HsClose, StartClose, Closes, inVars
  <2>3. ASSUME NEW byte, HsAlertByte(byte) PROVE Forgets \/ Keeps
    BY <1>0, <1>1, <2>3 DEF HsAlertByte, Keeps, inVars
  <2>4. CASE HsAlertsEnd
    <3>1. CASE Closing
      BY <2>4, <3>1 DEF HsAlertsEnd, Hears
    <3>2. CASE ~Closing /\ cnr
      BY <2>4, <3>2 DEF HsAlertsEnd, StartClose, Closes
    <3>3. CASE ~Closing /\ ~cnr
      <4>1. Continue /\ pc # "idle" /\ appdata' = appdata /\ shutdownRecv' = (shutdownRecv \/ cnr)
        BY <2>4, <3>3 DEF HsAlertsEnd
      <4>2. shutdownRecv' = shutdownRecv
        <5>1. shutdownRecv \in BOOLEAN
          BY DEF IInv, TypeOK
        <5> QED BY <3>3, <4>1, <5>1, Zenon
      <4> QED BY <1>2, <4>1, <4>2
    <3> QED BY <3>1, <3>2, <3>3
  <2>5. CASE HsGoOn
    <3>1. UNCHANGED <<appdata, shutdownRecv>> /\ pc = "resume"
      BY <2>5 DEF HsGoOn, inVars
    <3>2. Fail("ERROR") \/ Continue \/ (todo = <<>> /\ h.in > 0 /\ todo' = OnHandshakeData /\ cnr' = cnr)
      BY <2>5 DEF HsGoOn
    <3> QED BY <1>1, <1>2, <3>1, <3>2 DEF Starts
  <2>6. CASE HsSet
    <3>1. UNCHANGED <<cnr, shutdownRecv>> /\ todo' = Tail(todo)
      BY <2>6 DEF HsSet, Next1, inVars
    <3>2. CASE Running("begin") /\ appdata' = 0
      <4>1. Does("begin")
        BY <3>1, <3>2 DEF Does
      <4> QED BY <4>1
    <3>3. CASE Running("noapp") /\ appdata' = 0
      <4>1. Does("noapp")
        BY <3>1, <3>3 DEF Does
      <4> QED BY <4>1
    <3>4. CASE Running("type") /\ appdata' = appdata
      <4>1. Does("type")
        BY <3>1, <3>4 DEF Does
      <4> QED BY <4>1
    <3>5. CASE Running("end") /\ appdata' = 1
      <4>1. Does("end")
        BY <3>1, <3>5 DEF Does
      <4> QED BY <4>1
    <3> QED BY <2>6, <3>2, <3>3, <3>4, <3>5 DEF HsSet
  <2>7. CASE HsRoom
    <3>1. Does("room") \/ Does("closeRoom")
      BY <2>7 DEF HsRoom, Next1, inVars, Does
    <3> QED BY <3>1
  <2>8. CASE HsWrite
    <3>1. /\ Running("write") /\ UNCHANGED <<cnr, shutdownRecv, appdata>>
          /\ \E m : todo' = Tail(todo) \/ todo' = <<I("write", m)>> \o Tail(todo)
      BY <2>8 DEF HsWrite, inVars
    <3>2. Does("write") \/ \E m : DoesPart("write", m)
      BY <3>1 DEF Does, DoesPart, Shortened, Running, At
    <3> QED BY <3>2
  <2>9. CASE HsAlertOut \/ HsFlush \/ HsWriteCcs \/ HsNoFrag
    <3>1. Does("alert") \/ Does("flush") \/ Does("writeCcs") \/ Does("frag")
      BY <2>9 DEF HsAlertOut, HsFlush, HsWriteCcs, HsNoFrag, Next1, inVars, Does
    <3> QED BY <3>1
  <2>10. ASSUME NEW bad, HsRead(bad)
         PROVE  Forgets \/ Does("read") \/ \E m : DoesPart("read", m)
    <3>1. /\ Running("read") /\ UNCHANGED <<shutdownRecv, appdata>>
          /\ \/ Fail("ERROR")
             \/ cnr' = cnr /\ (\E m : todo' = Tail(todo) \/ todo' = <<I("read", m)>> \o Tail(todo))
      BY <2>10 DEF HsRead, inVars
    <3> QED BY <1>1, <3>1 DEF Does, DoesPart, Shortened, Running, At
  <2>11. ASSUME NEW bad, HsReadCcs(bad) PROVE Forgets \/ Does("readCcs")
    BY <1>1, <2>11 DEF HsReadCcs, Next1, Does
  <2>12. CASE HsNoMore
    <3>1. Forgets \/ Does("nomore")
      BY <1>1, <2>12 DEF HsNoMore, Next1, inVars, Does
    <3> QED BY <3>1
  <2>13. ASSUME NEW f, HsFrag(f) PROVE Does("frag")
    BY <2>13 DEF HsFrag, Next1, inVars, Does
  <2>14. CASE HsRefuse \/ HsBranch
    BY <2>14 DEF HsRefuse, HsBranch, inVars, Starts
  <2>15. CASE HsEnd
    BY <1>1, <2>15 DEF HsEnd
  <2> QED BY <1>3, <2>1, <2>2, <2>3, <2>4, <2>5, <2>6, <2>7, <2>8, <2>9, <2>10, <2>11, <2>12,
             <2>13, <2>14, <2>15 DEF HsStep
<1>4. CASE RecvBody \/ RecvHead
  BY <1>1, <1>4 DEF RecvBody, RecvHead, RecvCipherPart, RecvClear, RecvCipherEnd, RecvHeaderPart,
     RecvHeader, Deliver, Jump, hsVars, outVars, Open, Keeps
<1>5. CASE SendRec
  BY <1>5 DEF SendRec, SendRecAck, Jump, hsVars, inVars, Open, Keeps
<1>6. CASE AppStep
  <2>1. CASE Reset
    BY <2>1 DEF Reset, Restarts
  <2>2. CASE ~Reset
    BY <1>1, <1>6, <2>2 DEF AppStep, SendAppAck, RecvAppAck, Flush, Close, Renegotiate, IoFail,
       Jump, hsVars, inVars, outVars, Open, Keeps
  <2> QED BY <2>1, <2>2
<1>7. CASE UNCHANGED vars
  BY <1>7 DEF vars, inVars, hsVars, Keeps
<1> QED BY <1>3, <1>4, <1>5, <1>6, <1>7 DEF Next

(* The programs go on towards their end.                                   *)
LEMMA WayStep ==
  ASSUME NoReneg, IInv, OrderInv, ReadInv, CourseInv, WayInv, [Next]_vars
  PROVE  WayInv'
<1>1. /\ todo \in Seq(Instr) /\ Ordered(todo)
      /\ todo # <<>> => Ends(todo)
      /\ Closure(todo) => todo \in CloseSteps
      /\ shutdownRecv /\ iomode # "FAILED" => cnr /\ Has("closeWait", todo)
  BY DEF IInv, TypeOK, OrderInv, ProgramInv, WayInv, EndInv, ClosingInv, ShutInv
<1>2. pc # "idle" => iomode # "FAILED"
  BY DEF IInv, CallInv
<1>3. Has("closeWait", todo) => Closure(todo)
  BY DEF Closure
<1>4. CASE Forgets
  <2>1. todo' = <<>> /\ iomode' = "FAILED"
    BY <1>4 DEF Forgets
  <2> QED BY <2>1, ProgramsRead DEF WayInv, EndInv, ClosingInv, ShutInv
<1>5. CASE Keeps
  BY <1>5 DEF Keeps, WayInv, EndInv, ClosingInv, ShutInv
<1>6. CASE Hears
  <2>1. todo' = todo /\ cnr' = cnr /\ pc = "alerts" /\ shutdownRecv' = (shutdownRecv \/ cnr)
    BY <1>6 DEF Hears
  <2>2. todo # <<>> /\ Head(todo).op \in {"closeRoom", "closeWait"}
    BY <1>6 DEF Hears, Closing, At
  <2>3. Closure(todo)
    BY <1>1, <2>2, TailParts DEF Closure
  <2>4. Has("closeWait", todo)
    BY <1>1, <2>3, CloseTails
  <2>5. shutdownRecv' => cnr'
    BY <1>1, <1>2, <2>1
  <2> QED BY <1>1, <2>1, <2>2, <2>4, <2>5 DEF WayInv, EndInv, ClosingInv, ShutInv
<1>7. ASSUME NEW op, Does(op) PROVE WayInv'
  <2>1. /\ pc = "run" /\ todo # <<>> /\ Head(todo).op = op /\ op \notin {"branch", "fail", "closeWait"}
        /\ todo' = Tail(todo) /\ UNCHANGED <<cnr, shutdownRecv>>
    BY <1>7 DEF Does, Running, At
  <2>2. op = "end" => appdata' = 1
    BY <1>7 DEF Does
  <2>3. \A o : Has(o, todo) <=> op = o \/ Has(o, todo')
    BY <1>1, <2>1, TailParts
  <2>4. op = "end" => todo' = <<>>
    BY <1>1, <2>1, TailParts DEF LastOps
  <2>5. op # "end" => Ends(todo')
    BY <1>1, <2>1, <2>3 DEF Ends, LastOps
  <2>6. ~Ends(<<>>)
    BY DEF Ends, Has
  <2>7. EndInv'
    BY <2>2, <2>4, <2>5, <2>6 DEF EndInv
  <2>8. Closure(todo') => todo' \in CloseSteps
    <3>1. Closure(todo') => todo \in CloseSteps
      BY <1>1, <2>3 DEF Closure
    <3> QED BY <2>1, <3>1, CloseTails
  <2>9. ShutInv'
    BY <1>1, <1>2, <2>1, <2>3 DEF ShutInv
  <2> QED BY <2>7, <2>8, <2>9 DEF WayInv, ClosingInv
<1>8. ASSUME NEW op, NEW m, DoesPart(op, m) PROVE WayInv'
  <2>1. /\ pc = "run" /\ todo # <<>> /\ Head(todo).op = op /\ op \in {"read", "write"}
        /\ todo' = Shortened(todo, m) /\ UNCHANGED <<cnr, shutdownRecv>>
    BY <1>8 DEF DoesPart, Running, At
  <2>2. todo' # <<>> /\ \A o : Has(o, todo') <=> Has(o, todo)
    BY <1>1, <2>1, SameParts
  <2>3. EndInv'
    BY <1>1, <2>1, <2>2 DEF EndInv, Ends
  <2>4. ~Closure(todo)
    BY <1>1, <2>1, CloseTails
  <2>5. ~Closure(todo')
    BY <2>2, <2>4 DEF Closure
  <2>6. ShutInv'
    BY <1>1, <1>2, <2>1, <2>2 DEF ShutInv
  <2> QED BY <2>3, <2>5, <2>6 DEF WayInv, ClosingInv
<1>9. CASE Starts
  <2>1. UNCHANGED <<cnr, shutdownRecv>> /\ pc \in {"resume", "run"}
    BY <1>9 DEF Starts, Running
  <2>2. todo' \in {OnHandshakeData, FullHandshake, Resumption, FailAlert}
    BY <1>9 DEF Starts
  <2>3. todo' # <<>> /\ Ends(todo') /\ ~Closure(todo')
    BY <2>2, ProgramsEnd, ProgramsRead
  <2>4. todo = <<>> \/ Head(todo).op \in {"branch", "nomore"}
    BY <1>9 DEF Starts, Running, At
  <2>5. ~Closure(todo)
    BY <1>1, <2>4, CloseTails
  <2>6. ~shutdownRecv
    BY <1>1, <1>2, <1>3, <2>1, <2>5
  <2> QED BY <2>1, <2>3, <2>6 DEF WayInv, EndInv, ClosingInv, ShutInv
<1>10. CASE Closes
  <2>1. todo' = DoClose /\ ~Closing
    BY <1>10 DEF Closes
  <2>2. DoClose # <<>> /\ Ends(DoClose) /\ Has("closeWait", DoClose) /\ DoClose \in CloseSteps
    BY ProgramsEnd, ClosureOrdered DEF CloseSteps
  <2>3. shutdownRecv' => cnr'
    <3>1. CASE pc = "resume" /\ UNCHANGED shutdownRecv
      <4>1. todo = <<>> \/ Head(todo).op \in WaitOps \/ Head(todo).op = "begin"
        BY <3>1 DEF ReadInv, WaitInv, AtStart, At
      <4>2. todo = <<>> \/ Head(todo).op \notin {"closeRoom", "closeWait"}
        BY <2>1 DEF Closing, At
      <4>3. ~Closure(todo)
        BY <1>1, <4>1, <4>2, CloseTails DEF WaitOps
      <4> QED BY <1>1, <1>2, <1>3, <3>1, <4>3
    <3> QED BY <1>10, <3>1 DEF Closes
  <2> QED BY <2>1, <2>2, <2>3 DEF WayInv, EndInv, ClosingInv, ShutInv
<1>11. CASE Restarts
  <2>1. todo' = DoHandshake /\ ~shutdownRecv'
    BY <1>11 DEF Restarts
  <2> QED BY <2>1, ProgramsEnd, ProgramsRead DEF WayInv, EndInv, ClosingInv, ShutInv
<1> QED BY <1>4, <1>5, <1>6, <1>7, <1>8, <1>9, <1>10, <1>11, ProgramStep

(* ... from the start.                                                     *)
LEMMA InitWay == ASSUME NoReneg, Init PROVE WayInv
<1>1. todo = DoHandshake /\ ~shutdownRecv
  BY DEF Init
<1> QED BY <1>1, ProgramsEnd, ProgramsRead DEF WayInv, EndInv, ClosingInv, ShutInv

-----------------------------------------------------------------------------
(* What the coroutine has not read.                                        *)

(* Application data waits for the application only while it may read it: a *)
(* program that stops the data starts when none is unread.                 *)
UnreadInv == iomode # "FAILED" /\ ix.a # ix.b /\ rtin = APPDATA => appdata = 1
TakenInv == action = 1 /\ pc \in {"jump", "resume"} => ix.a = ix.b \/ rtin # APPDATA
NoappInv == appdata = 1 /\ At("noapp") => rtin # APPDATA
AlertInv == pc = "alerts" => rtin = ALERT

(* The coroutine is offered all there is to read but application data.     *)
Within == pc \notin {"idle", "jump"}
OfferedInv == Within /\ h.in0 = 0 => ix.a = ix.b \/ rtin = APPDATA
TakingInv == TakenInv /\ AlertInv /\ OfferedInv
UnheardInv == UnreadInv /\ NoappInv /\ TakingInv

(* What the coroutine does to its input.                                   *)
InputFrame ==
  /\ rtin' = rtin /\ pc # "idle"
  /\ ix' = ix \/ HsReturn
  /\ pc' = "alerts" => pc = "alerts" \/ rtin = ALERT
  /\ pc' \in {"jump", "resume"} => action' = 0 \/ (HsEnter /\ action' = action)
  /\ pc' \notin {"idle", "jump"} => HsEnter \/ (Within /\ h'.in0 = h.in0)

(* ... in each of its steps.                                               *)
LEMMA HsFrame == ASSUME IInv, HsStep PROVE InputFrame
<1>1. h \in Window
  BY DEF IInv, TypeOK
<1>2. ASSUME rtin' = rtin, ix' = ix, Within, pc' = "alerts" => pc = "alerts" \/ rtin = ALERT,
             pc' \notin {"jump", "resume"}, pc' = "idle" \/ h'.in0 = h.in0
      PROVE  InputFrame
  BY <1>2 DEF InputFrame, Within
<1>3. CASE HsEnter
  BY <1>3 DEF HsEnter, inVars, InputFrame
<1>4. CASE HsReturn
  BY <1>4 DEF HsReturn, InputFrame
<1>5. CASE HsClose \/ HsAlerts \/ HsAlertsEnd \/ HsGoOn
  <2>1. CASE HsClose \/ HsAlerts
    BY <1>2, <2>1 DEF HsClose, StartClose, HsAlerts, inVars, Within
  <2>2. CASE HsAlertsEnd
    BY <1>2, <2>2 DEF HsAlertsEnd, StartClose, Continue, Within
  <2>3. CASE HsGoOn
    BY <1>2, <2>3 DEF HsGoOn, Continue, Fail, inVars, Within
  <2> QED BY <1>5, <2>1, <2>2, <2>3
<1>6. CASE HsDiscard
  BY <1>1, <1>2, <1>6 DEF HsDiscard, inVars, Within, Window
<1>7. ASSUME NEW byte, HsAlertByte(byte) PROVE InputFrame
  BY <1>1, <1>2, <1>7 DEF HsAlertByte, Fail, inVars, Within, Window
<1>8. CASE HsYield \/ HsSet \/ HsRoom \/ HsNoMore \/ HsNoFrag \/ HsRefuse \/ HsBranch \/ HsEnd
  <2>1. CASE HsYield \/ HsSet \/ HsRoom
    BY <1>2, <2>1 DEF HsYield, Yield, HsSet, HsRoom, Running, inVars, Within
  <2>2. CASE HsNoMore \/ HsNoFrag
    BY <1>2, <2>2 DEF HsNoMore, HsNoFrag, Fail, Running, inVars, Within
  <2>3. CASE HsRefuse \/ HsBranch \/ HsEnd
    BY <1>2, <2>3 DEF HsRefuse, HsBranch, HsEnd, Fail, Running, inVars, Within
  <2> QED BY <1>8, <2>1, <2>2, <2>3
<1>9. CASE HsWrite \/ HsAlertOut \/ HsFlush \/ HsWriteCcs
  BY <1>2, <1>9 DEF HsWrite, HsAlertOut, HsFlush, HsWriteCcs, Put, Offer, Running, inVars, Within
<1>10. ASSUME NEW bad, HsRead(bad) PROVE InputFrame
  BY <1>1, <1>2, <1>10 DEF HsRead, Fail, Running, inVars, Within, Window
<1>11. ASSUME NEW bad, HsReadCcs(bad) PROVE InputFrame
  BY <1>1, <1>2, <1>11 DEF HsReadCcs, Fail, Running, Within, Window
<1>12. ASSUME NEW f, HsFrag(f) PROVE InputFrame
  BY <1>2, <1>12 DEF HsFrag, Offer, Running, inVars, Within
<1>13. ASSUME NEW bad, HsRead(bad) \/ HsReadCcs(bad) PROVE InputFrame
  BY <1>10, <1>11, <1>13
<1> QED BY <1>3, <1>4, <1>5, <1>6, <1>7, <1>8, <1>9, <1>12, <1>13 DEF HsStep

(* On return, what is unread was unread before.                            *)
LEMMA ReturnUnread ==
  ASSUME IInv, HsReturn
  PROVE  /\ h.in0 - h.in > 0 => ix.a # ix.b /\ h.in0 > 0
         /\ ix'.a # ix'.b => ix.a # ix.b
<1>1. /\ h.in \in Nat /\ h.in0 \in Nat /\ ix.a \in Nat /\ ix.b \in Nat
  BY DEF IInv, TypeOK, Window, InRegs
<1>2. h.in0 - h.in > 0 => ix.a # ix.b /\ h.in0 > 0
  BY <1>1 DEF IInv, WindowInv
<1>3. ~(h.in0 - h.in > 0) => ix' = ix
  BY DEF HsReturn
<1> QED BY <1>2, <1>3

(* The coroutine keeps track of what is unread.                            *)
LEMMA HsTake ==
  ASSUME ~Shared, IInv, BothWays, TakingInv, HsStep
  PROVE  TakingInv'
<1>1. /\ rtin' = rtin /\ pc # "idle"
      /\ ix' = ix \/ HsReturn
      /\ pc' = "alerts" => pc = "alerts" \/ rtin = ALERT
      /\ pc' \in {"jump", "resume"} => action' = 0 \/ (HsEnter /\ action' = action)
      /\ pc' \notin {"idle", "jump"} => HsEnter \/ (Within /\ h'.in0 = h.in0)
  BY HsFrame DEF InputFrame
<1>2. AlertInv'
  BY <1>1 DEF TakingInv, AlertInv
<1>3. HsReturn => pc' \in {"idle", "jump"} /\ action' = 0
  BY DEF HsReturn
<1>4. HsEnter => pc = "jump" /\ ix' = ix
  BY DEF HsEnter, inVars
<1>5. TakenInv'
  BY <1>1, <1>3, <1>4 DEF TakingInv, TakenInv
<1>6. CASE HsEnter
  <2>1. h'.in0 = IF rtin = APPDATA THEN 0 ELSE RecvPldLen(iomode, ix)
    BY <1>6 DEF HsEnter
  <2>2. iomode = "INOUT"
    BY <1>4, <1>6 DEF BothWays, IInv, CallInv
  <2>3. ix.a \in Nat /\ ix.b \in Nat
    BY DEF IInv, TypeOK, InRegs
  <2>4. h'.in0 = 0 => ix.a = ix.b \/ rtin = APPDATA
    BY <2>1, <2>2, <2>3 DEF RecvPldLen, Receiving
  <2> QED BY <1>1, <1>2, <1>4, <1>5, <1>6, <2>4 DEF TakingInv, OfferedInv
<1>7. CASE ~HsEnter
  <2>1. OfferedInv'
    BY <1>1, <1>3, <1>7 DEF TakingInv, OfferedInv, Within
  <2> QED BY <1>2, <1>5, <2>1 DEF TakingInv
<1> QED BY <1>6, <1>7

(* The coroutine stops application data only where none is unread.         *)
LEMMA HsUnread ==
  ASSUME NoReneg, IInv, CourseInv, UnheardInv, HsStep
  PROVE  UnreadInv'
<1>1. rtin' = rtin /\ pc # "idle" /\ (ix' = ix \/ HsReturn)
  BY HsFrame DEF InputFrame
<1>2. iomode # "FAILED"
  BY <1>1 DEF IInv, CallInv
<1>3. ix'.a # ix'.b => ix.a # ix.b
  BY <1>1, ReturnUnread
<1>4. ASSUME appdata = 1 => appdata' = 1 PROVE UnreadInv'
  BY <1>1, <1>2, <1>3, <1>4 DEF UnheardInv, UnreadInv
<1>5. CASE HsEnter \/ HsReturn \/ HsAlerts \/ HsGoOn \/ HsDiscard \/ HsYield
  BY <1>4, <1>5 DEF HsEnter, HsReturn, HsAlerts, HsGoOn, HsDiscard, HsYield
<1>6. ASSUME NEW byte, HsAlertByte(byte) PROVE UnreadInv'
  BY <1>4, <1>6 DEF HsAlertByte
<1>7. CASE HsClose
  <2>1. action = 1 /\ pc = "resume" /\ ix' = ix
    BY <1>7 DEF HsClose, inVars
  <2> QED BY <1>1, <2>1 DEF UnheardInv, TakingInv, TakenInv, UnreadInv
<1>8. CASE HsAlertsEnd
  <2>1. rtin = ALERT
    BY <1>8 DEF HsAlertsEnd, UnheardInv, TakingInv, AlertInv
  <2> QED BY <1>1, <2>1 DEF UnreadInv, ALERT, APPDATA
<1>9. CASE HsSet
  <2>1. ix' = ix
    BY <1>9 DEF HsSet, inVars
  <2>2. CASE Running("begin")
    <3>1. todo # <<>> /\ Head(todo).op = "begin"
      BY <2>2 DEF Running, At
    <3>2. appdata # 1
      BY <3>1, RejectSteps DEF CourseInv
    <3> QED BY <1>4, <3>2
  <2>3. CASE Running("noapp")
    <3>1. appdata = 1 => rtin # APPDATA
      BY <2>3 DEF UnheardInv, NoappInv, Running
    <3> QED BY <1>1, <1>2, <2>1, <3>1 DEF UnheardInv, UnreadInv
  <2>4. CASE ~Running("begin") /\ ~Running("noapp")
    BY <1>4, <1>9, <2>4 DEF HsSet
  <2> QED BY <2>2, <2>3, <2>4
<1>10. CASE HsRoom \/ HsWrite \/ HsAlertOut \/ HsFlush \/ HsWriteCcs \/ HsNoMore \/ HsNoFrag
            \/ HsRefuse \/ HsBranch \/ HsEnd
  BY <1>4, <1>10 DEF HsRoom, HsWrite, HsAlertOut, HsFlush, HsWriteCcs, HsNoMore, HsNoFrag,
                     HsRefuse, HsBranch, HsEnd
<1>11. ASSUME NEW bad, HsRead(bad) \/ HsReadCcs(bad) PROVE UnreadInv'
  BY <1>4, <1>11 DEF HsRead, HsReadCcs
<1>12. ASSUME NEW f, HsFrag(f) PROVE UnreadInv'
  BY <1>4, <1>12 DEF HsFrag
<1> QED BY <1>5, <1>6, <1>7, <1>8, <1>9, <1>10, <1>11, <1>12 DEF HsStep

(* The first instruction of what is left of a refusal.                     *)
LEMMA EndHeads ==
  \A t \in RejectEnds : t = <<>> \/ Head(t).op \in {"flush", "room", "alert", "end"}
BY RefusalTails, EndTails DEF RejectEnds, Rejects

(* The program that stops application data starts when what came is not    *)
(* application data.                                                       *)
LEMMA NoappStep ==
  ASSUME NoReneg, IInv, OrderInv, ReadInv, CourseInv, UnheardInv, [Next]_vars
  PROVE  NoappInv'
<1> SUFFICES ASSUME appdata' = 1, todo' # <<>>, Head(todo').op = "noapp"
             PROVE  rtin' # APPDATA
  BY DEF NoappInv, At
<1>1. todo \in Seq(Instr) /\ Ordered(todo)
  BY DEF IInv, TypeOK, OrderInv, ProgramInv
<1>2. HsStep \/ UNCHANGED vars => rtin' = rtin
  BY HsFrame DEF InputFrame, vars, inVars
<1>3. pc # "idle" => rtin' = rtin
  <2>1. RecvBody \/ RecvHead \/ SendRec \/ AppStep => pc = "idle"
    BY DEF RecvBody, RecvHead, RecvCipherPart, RecvClear, RecvCipherEnd, RecvHeaderPart, RecvHeader,
       SendRec, SendRecAck, AppStep, SendAppAck, RecvAppAck, Flush, Close, Renegotiate, Reset,
       IoFail, Open
  <2> QED BY <1>2, <2>1 DEF Next
<1>4. ASSUME todo # <<>>, appdata = 1
      PROVE  /\ Head(todo).op \in {"flush", "room", "alert", "end", "read", "noapp"}
             /\ Head(todo).op # "noapp" => Tail(todo) \in RejectEnds
  BY <1>4, RejectSteps DEF CourseInv
<1>5. ~Forgets /\ ~Hears /\ ~Restarts /\ ~Closes
  BY RefusalTails DEF Forgets, Hears, Restarts, Closes
<1>6. CASE Keeps
  <2>1. appdata = 1 /\ At("noapp")
    BY <1>6 DEF Keeps, At
  <2>2. pc = "run"
    BY <2>1 DEF ReadInv, WaitInv, WaitOps, AtStart, At
  <2>3. rtin # APPDATA
    BY <2>1 DEF UnheardInv, NoappInv
  <2> QED BY <1>3, <2>2, <2>3
<1>7. CASE Starts
  <2>1. appdata = 1
    BY <1>7 DEF Starts
  <2>2. ~Running("branch") /\ ~Running("nomore")
    BY <1>4, <2>1 DEF Running, At
  <2>3. h.in > 0 /\ pc = "resume"
    BY <1>7, <2>2 DEF Starts
  <2> QED BY <1>3, <2>3 DEF ReadInv, NotAppInv
<1>8. ASSUME NEW op, Does(op) PROVE FALSE
  <2>1. /\ todo # <<>> /\ Head(todo).op = op /\ todo' = Tail(todo)
        /\ appdata' = IF op = "end" THEN 1 ELSE IF op \in {"begin", "noapp"} THEN 0 ELSE appdata
    BY <1>8 DEF Does, Running, At
  <2>2. op # "end"
    BY <1>1, <2>1, TailParts DEF LastOps
  <2>3. appdata = 1 /\ op # "noapp"
    BY <2>1, <2>2
  <2>4. todo' \in RejectEnds
    BY <1>4, <2>1, <2>3
  <2> QED BY <2>4, EndHeads
<1>9. ASSUME NEW op, NEW m, DoesPart(op, m) PROVE FALSE
  <2>1. todo # <<>> /\ Head(todo).op \in {"read", "write"} /\ todo' = Shortened(todo, m)
    BY <1>9 DEF DoesPart, Running, At
  <2>2. Head(todo').op = Head(todo).op
    BY <1>1, <2>1, SameParts
  <2> QED BY <2>1, <2>2
<1> QED BY <1>5, <1>6, <1>7, <1>8, <1>9, ProgramStep

(* Taking all the payload there is leaves none.                            *)
LEMMA AllTaken == \A i \in InRegs : AckIn(i, i.b - i.a).a = AckIn(i, i.b - i.a).b
<1> SUFFICES ASSUME NEW i \in InRegs PROVE AckIn(i, i.b - i.a).a = AckIn(i, i.b - i.a).b
  OBVIOUS
<1>1. i.a + (i.b - i.a) = i.b
  BY DEF InRegs
<1>2. AckIn(i, i.b - i.a) = IF i.c = 0 THEN ReadyIn ELSE [i EXCEPT !.a = 5, !.b = 5]
  BY <1>1 DEF AckIn
<1>3. CASE i.c = 0
  <2>1. AckIn(i, i.b - i.a) = ReadyIn
    BY <1>2, <1>3
  <2> QED BY <2>1 DEF ReadyIn
<1>4. CASE i.c # 0
  <2>1. AckIn(i, i.b - i.a) = [a |-> 5, b |-> 5, c |-> i.c]
    BY <1>2, <1>4 DEF InRegs
  <2> QED BY <2>1
<1> QED BY <1>3, <1>4

(* What a call makes readable: clear bytes ...                             *)
LEMMA ClearPart ==
  ASSUME IInv, NEW n \in Portions(RecvRecLen), RecvClear(n)
  PROVE  [a |-> 5, b |-> ix.a + n, c |-> ix.c - n] \in InRegs
<1>1. Open /\ RecvRecLen \in Nat /\ ix \in InRegs
  BY Listening DEF RecvClear, IInv, TypeOK
<1>2. n \in Nat /\ n > 0 /\ n <= RecvRecLen
  BY <1>1 DEF Portions
<1>3. n <= ix.c /\ ix.c \in Nat
  BY <1>1, <1>2, Listening DEF InRegs
<1> QED BY <1>1, <1>2, <1>3 DEF InRegs

(* ... or a decrypted record.                                              *)
LEMMA CipherPart ==
  ASSUME IInv, NEW bad, RecvCipherEnd(bad)
  PROVE  [a |-> 5 + InPre, b |-> 5 + InPre + (ix.a + ix.c - 5 - InPre - InPost), c |-> 0] \in InRegs
<1>1. Open /\ incrypt /\ ix.a >= 5 /\ ix.c \in 1 .. RecvRecLen /\ ix \in InRegs
  BY DEF RecvCipherEnd, IInv, TypeOK
<1>2. ix.a = ix.b
  <2>1. RecvRecLen > 0
    BY <1>1, BufferAssumption DEF RecvRecLen, Least, InRegs
  <2> QED BY <2>1 DEF RecvRecLen
<1>3. ix.a + ix.c >= 5 + InPre + InPost
  BY <1>1, <1>2 DEF IInv, InputInv, InOK, Open, InRegs
<1> QED BY <1>1, <1>3, BufferAssumption DEF InRegs

(* A call keeps track of what is unread: a close drops application data.   *)
LEMMA CallsUnheard ==
  ASSUME ~Shared, NoReneg, IInv, BothWays, UnheardInv, RecvBody \/ RecvHead \/ SendRec \/ AppStep
  PROVE  UnreadInv' /\ TakingInv'
<1>1. /\ ix \in InRegs /\ ix.a \in Nat /\ ix.b \in Nat /\ appdata \in 0 .. 2
      /\ iomode # "FAILED" => ix.a <= ix.b
  <2>1. ix \in InRegs /\ ix.a \in Nat /\ ix.b \in Nat /\ appdata \in 0 .. 2
    BY DEF IInv, TypeOK, InRegs
  <2> QED BY <2>1 DEF IInv, InputInv, InOK
<1>2. ASSUME pc' \in {"idle", "jump"}, pc' = "jump" => action' = 0 PROVE TakingInv'
  BY <1>2 DEF TakingInv, TakenInv, AlertInv, OfferedInv, Within
<1>3. ASSUME NEW e, Fail(e) PROVE UnreadInv' /\ TakingInv'
  BY <1>2, <1>3 DEF Fail, UnreadInv
<1>4. ASSUME pc = "idle", iomode # "FAILED", UNCHANGED hsVars \/ Jump(0), UNCHANGED <<rtin, appdata>>,
             ix' = ix \/ ix'.a = ix'.b \/ rtin # APPDATA \/ appdata = 1
      PROVE  UnreadInv' /\ TakingInv'
  <2>1. UnreadInv'
    BY <1>4 DEF UnheardInv, UnreadInv
  <2>2. pc' \in {"idle", "jump"} /\ (pc' = "jump" => action' = 0)
    BY <1>4 DEF hsVars, Jump
  <2> QED BY <1>2, <2>1, <2>2
<1>5. ASSUME NEW i \in InRegs PROVE AckIn(i, i.b - i.a).a = AckIn(i, i.b - i.a).b
  BY AllTaken
<1>6. ASSUME NEW i \in InRegs, Open, Deliver(i), UNCHANGED <<rtin, appdata>>
      PROVE  UnreadInv' /\ TakingInv'
  <2>1. CASE \E e : Fail(e)
    BY <1>3, <2>1
  <2>2. CASE ~\E e : Fail(e)
    <3>1. UNCHANGED hsVars \/ Jump(0)
      BY <1>6, <2>2 DEF Deliver
    <3>2. rtin # APPDATA \/ appdata = 1 \/ ix' = AckIn(i, i.b - i.a)
      BY <1>6, <2>2 DEF Deliver
    <3> QED BY <1>4, <1>5, <1>6, <3>1, <3>2 DEF Open
  <2> QED BY <2>1, <2>2
<1>7. CASE RecvHead
  <2>1. ASSUME NEW n, RecvHeaderPart(n) PROVE UnreadInv' /\ TakingInv'
    <3>1. ix'.a = ix'.b
      BY <2>1 DEF RecvHeaderPart
    <3> QED BY <1>4, <2>1, <3>1 DEF RecvHeaderPart, Open
  <2>2. ASSUME NEW type, NEW rlen, NEW bad, RecvHeader(type, rlen, bad)
        PROVE  UnreadInv' /\ TakingInv'
    <3>1. ix'.a = ix'.b
      BY <2>2 DEF RecvHeader, ReadyIn
    <3>2. UnreadInv'
      BY <3>1 DEF UnreadInv
    <3>3. pc' = "idle"
      BY <2>2 DEF RecvHeader, Open, Fail, hsVars
    <3> QED BY <1>2, <3>2, <3>3
  <2> QED BY <1>7, <2>1, <2>2 DEF RecvHead
<1>8. CASE RecvBody
  <2>1. ASSUME NEW n, RecvCipherPart(n) PROVE UnreadInv' /\ TakingInv'
    <3>1. ix'.a = ix'.b
      BY <2>1 DEF RecvCipherPart
    <3> QED BY <1>4, <2>1, <3>1 DEF RecvCipherPart, Open
  <2>2. ASSUME NEW n \in Portions(RecvRecLen), RecvClear(n) PROVE UnreadInv' /\ TakingInv'
    <3> DEFINE i == [a |-> 5, b |-> ix.a + n, c |-> ix.c - n]
    <3>2. i \in InRegs
      BY <2>2, ClearPart
    <3>3. Deliver(i) /\ Open /\ UNCHANGED <<rtin, appdata>>
      BY <2>2 DEF RecvClear
    <3> HIDE DEF i
    <3> QED BY <1>6, <3>2, <3>3
  <2>3. ASSUME NEW bad, RecvCipherEnd(bad) PROVE UnreadInv' /\ TakingInv'
    <3> DEFINE len == ix.a + ix.c - 5 - InPre - InPost
               i == [a |-> 5 + InPre, b |-> 5 + InPre + len, c |-> 0]
    <3>1. Open /\ UNCHANGED <<rtin, appdata>> /\ incrypt /\ ix.a >= 5 /\ ix.c \in 1 .. RecvRecLen
      BY <2>3 DEF RecvCipherEnd
    <3>2. i \in InRegs
      BY <2>3, CipherPart
    <3>3. CASE bad
      BY <1>3, <2>3, <3>3 DEF RecvCipherEnd
    <3>4. CASE ~bad /\ len = 0
      <4>1. ix' = ReadyIn /\ UNCHANGED hsVars
        BY <2>3, <3>4 DEF RecvCipherEnd
      <4>2. ix'.a = ix'.b
        BY <4>1 DEF ReadyIn
      <4> QED BY <1>4, <3>1, <4>1, <4>2 DEF Open
    <3>5. CASE ~bad /\ len # 0
      <4>1. Deliver(i)
        BY <2>3, <3>5 DEF RecvCipherEnd
      <4> HIDE DEF i
      <4> QED BY <1>6, <3>1, <3>2, <4>1
    <3> QED BY <3>3, <3>4, <3>5
  <2> QED BY <1>8, <2>1, <2>2, <2>3 DEF RecvBody
<1>9. CASE SendRec
  <2>1. PICK n : SendRecAck(n)
    BY <1>9 DEF SendRec
  <2> QED BY <1>4, <2>1 DEF SendRecAck, Open, inVars
<1>10. CASE Reset
  <2>1. ix'.a = ix'.b /\ pc' = "jump" /\ action' = 0
    BY <1>10 DEF Reset, ReadyIn
  <2> QED BY <1>2, <2>1 DEF UnreadInv
<1>11. CASE Close
  <2>1. /\ Open /\ UNCHANGED <<rtin, appdata>> /\ pc' = "jump"
        /\ IF RecvAppLen > 0 THEN ix' = AckIn(ix, RecvAppLen) ELSE ix' = ix
    BY <1>11 DEF Close, Jump
  <2>2. iomode = "INOUT"
    BY <2>1 DEF BothWays, Open
  <2>3. CASE RecvAppLen > 0
    <3>1. RecvAppLen = ix.b - ix.a
      BY <2>2, <2>3 DEF RecvAppLen, RecvPldLen, Receiving
    <3>2. ix'.a = ix'.b
      BY <1>1, <1>5, <2>1, <2>3, <3>1
    <3> QED BY <2>1, <3>2 DEF UnreadInv, TakingInv, TakenInv, AlertInv, OfferedInv, Within
  <2>4. CASE ~(RecvAppLen > 0)
    <3>1. ix' = ix
      BY <2>1, <2>4
    <3>2. ix.a = ix.b \/ rtin # APPDATA
      <4>1. appdata # 1 => ix.a = ix.b \/ rtin # APPDATA
        BY <2>2 DEF UnheardInv, UnreadInv
      <4>2. appdata = 1 /\ rtin = APPDATA => ix.a = ix.b
        BY <1>1, <2>2, <2>4 DEF RecvAppLen, RecvPldLen, Receiving
      <4> QED BY <4>1, <4>2
    <3> QED BY <2>1, <3>1, <3>2 DEF UnreadInv, TakingInv, TakenInv, AlertInv, OfferedInv, Within
  <2> QED BY <2>3, <2>4
<1>12. CASE IoFail
  BY <1>3, <1>12 DEF IoFail
<1>13. CASE AppStep /\ ~Reset /\ ~Close /\ ~IoFail
  <2>1. ~Renegotiate
    BY DEF Renegotiate
  <2>2. ASSUME NEW n, SendAppAck(n) PROVE UnreadInv' /\ TakingInv'
    BY <1>4, <2>2 DEF SendAppAck, Open, inVars
  <2>3. ASSUME NEW n, RecvAppAck(n) PROVE UnreadInv' /\ TakingInv'
    <3>1. appdata = 1
      BY <2>3 DEF RecvAppAck, RecvAppLen
    <3> QED BY <1>4, <2>3, <3>1 DEF RecvAppAck, Open
  <2>4. ASSUME NEW force, Flush(force) PROVE UnreadInv' /\ TakingInv'
    BY <1>4, <2>4 DEF Flush, Open, inVars
  <2> QED BY <1>13, <2>1, <2>2, <2>3, <2>4 DEF AppStep
<1> QED BY <1>7, <1>8, <1>9, <1>10, <1>11, <1>12, <1>13 DEF AppStep

(* Every step keeps track of what is unread.                               *)
LEMMA UnheardStep ==
  ASSUME ~Shared, NoReneg, IInv, BothWays, OrderInv, ReadInv, CourseInv, UnheardInv, [Next]_vars
  PROVE  UnheardInv'
<1>1. NoappInv'
  BY NoappStep
<1>2. CASE HsStep
  BY <1>1, <1>2, HsUnread, HsTake DEF UnheardInv
<1>3. CASE RecvBody \/ RecvHead \/ SendRec \/ AppStep
  BY <1>1, <1>3, CallsUnheard DEF UnheardInv
<1>4. CASE UNCHANGED vars
  <2>1. UnreadInv'
    BY <1>4 DEF vars, inVars, UnheardInv, UnreadInv
  <2>2. TakingInv'
    BY <1>4 DEF vars, inVars, hsVars, UnheardInv, TakingInv, TakenInv, AlertInv, OfferedInv, Within
  <2> QED BY <1>1, <2>1, <2>2 DEF UnheardInv
<1> QED BY <1>2, <1>3, <1>4 DEF Next

(* ... from the start.                                                     *)
LEMMA InitUnheard == ASSUME Init PROVE UnheardInv
BY DEF Init, UnheardInv, UnreadInv, NoappInv, TakingInv, TakenInv, AlertInv, OfferedInv, Within,
   ReadyIn

-----------------------------------------------------------------------------
(* What the coroutine may write.                                           *)

(* Where a program waits for room nothing pending is in its way, unless    *)
(* application data passes.                                                *)
RoomOps == {"write", "room", "writeCcs", "closeRoom", "closeWait"}
HeldInv == iomode # "FAILED" /\ appdata # 1 /\ todo # <<>> /\ Head(todo).op \in RoomOps => ~HasPld(ox)

(* What was offered is left or was written.                                *)
RoomLeft == Within => h.put + h.out = IF HasPld(ox) THEN 0 ELSE ox.b - ox.a

(* The coroutine yields where it can neither read nor write; the close     *)
(* alert is flushed with its record.                                       *)
YieldInv == pc = "yield" =>
  \/ todo = <<>>
  \/ Head(todo).op \in {"read", "readCcs"} /\ h.in = 0
  \/ Head(todo).op \in RoomOps /\ h.out = 0
  \/ At("closeWait") /\ ~cnr /\ h.in = 0
CloseReadInv == At("closeWait") /\ pc = "run" => cnr \/ h.in = 0 \/ h.out = 0
CloseFlushInv == todo = <<I("flush", 0), I("closeWait", 0)>> => h.put > 0

(* A call that is not the coroutine's: nothing is offered after it.        *)
LEMMA CallPc ==
  ASSUME RecvBody \/ RecvHead \/ SendRec \/ AppStep
  PROVE  pc = "idle" /\ pc' \in {"idle", "jump"}
<1>1. ASSUME NEW i, Open, Deliver(i) PROVE pc' \in {"idle", "jump"}
  BY <1>1 DEF Deliver, Open, Jump, Fail, hsVars
<1>2. CASE RecvBody
  <2>1. ASSUME NEW n, RecvCipherPart(n) PROVE pc = "idle" /\ pc' \in {"idle", "jump"}
    BY <2>1 DEF RecvCipherPart, Open, hsVars
  <2>2. ASSUME NEW n, RecvClear(n) PROVE pc = "idle" /\ pc' \in {"idle", "jump"}
    <3>1. Open
      BY <2>2 DEF RecvClear
    <3> QED BY <1>1, <2>2, <3>1 DEF RecvClear, Open
  <2>3. ASSUME NEW bad, RecvCipherEnd(bad) PROVE pc = "idle" /\ pc' \in {"idle", "jump"}
    <3>1. Open
      BY <2>3 DEF RecvCipherEnd
    <3> QED BY <1>1, <2>3, <3>1 DEF RecvCipherEnd, Open, Fail, hsVars
  <2> QED BY <1>2, <2>1, <2>2, <2>3 DEF RecvBody
<1>3. CASE RecvHead
  BY <1>3 DEF RecvHead, RecvHeaderPart, RecvHeader, Open, Fail, hsVars
<1>4. CASE SendRec
  BY <1>4 DEF SendRec, SendRecAck, Jump, Open, hsVars
<1>5. CASE AppStep
  BY <1>5 DEF AppStep, SendAppAck, RecvAppAck, Flush, Close, Renegotiate, Reset, IoFail, Fail,
              Jump, Open, hsVars
<1> QED BY <1>2, <1>3, <1>4, <1>5

(* Where the coroutine flushes, or writes an alert, nothing else happens.  *)
LEMMA RunsNext ==
  ASSUME HsStep
  PROVE  /\ Running("flush") => HsFlush
         /\ Running("alert") => HsAlertOut
<1> SUFFICES ASSUME pc = "run", todo # <<>>, Head(todo).op \in {"flush", "alert"}, ~HsFlush, ~HsAlertOut
             PROVE  FALSE
  <2>1. Running("flush") => HsFlush
    <3>1. SUFFICES ASSUME Running("flush"), ~HsFlush PROVE FALSE
      OBVIOUS
    <3>2. HsAlertOut => FALSE
      BY <3>1 DEF HsAlertOut, Running, At
    <3> QED BY <3>1, <3>2 DEF Running, At
  <2>2. Running("alert") => HsAlertOut
    <3>1. SUFFICES ASSUME Running("alert"), ~HsAlertOut PROVE FALSE
      OBVIOUS
    <3>2. HsFlush => FALSE
      BY <3>1 DEF HsFlush, Running, At
    <3> QED BY <3>1, <3>2 DEF Running, At
  <2> QED BY <2>1, <2>2
<1>1. \A op : Running(op) => op \in {"flush", "alert"}
  BY DEF Running, At
<1>2. ~(HsEnter \/ HsReturn \/ HsClose \/ HsAlerts \/ HsAlertsEnd \/ HsGoOn \/ HsDiscard)
  BY DEF HsEnter, HsReturn, HsClose, HsAlerts, HsAlertsEnd, HsGoOn, HsDiscard
<1>3. \A byte : ~HsAlertByte(byte)
  BY DEF HsAlertByte
<1>4. ~HsYield
  BY DEF HsYield, At
<1>5. ~(HsSet \/ HsRoom \/ HsWrite \/ HsWriteCcs \/ HsNoMore \/ HsNoFrag \/ HsRefuse \/ HsBranch \/ HsEnd)
  BY <1>1 DEF HsSet, HsRoom, HsWrite, HsWriteCcs, HsNoMore, HsNoFrag, HsRefuse, HsBranch, HsEnd
<1>6. \A bad : ~HsRead(bad) /\ ~HsReadCcs(bad)
  BY <1>1 DEF HsRead, HsReadCcs
<1>7. \A f : ~HsFrag(f)
  BY <1>1 DEF HsFrag
<1>8. ~\E byte \in {"warning", "fatal", "close_notify", "no_renegotiation", "other"} : HsAlertByte(byte)
  BY <1>3
<1>9. ~\E bad \in BOOLEAN : HsRead(bad) \/ HsReadCcs(bad)
  BY <1>6
<1>10. ~\E f \in FragSizes : HsFrag(f)
  BY <1>7
<1> QED BY <1>2, <1>4, <1>5, <1>8, <1>9, <1>10 DEF HsStep

(* A record that was filled to its end is sealed.                          *)
LEMMA FullSealed ==
  ASSUME NEW o \in OutRegs, NEW n \in Nat, NEW type, NEW e \in BOOLEAN,
         OpenOK(o, e), n > 0, o.a + n >= o.b
  PROVE  ~Gathering(AckOut(o, n, type, e))
<1> DEFINE x == o.a + n  y == o.a + n + 1  p == Move(o, x, y)
<1>1. o.a \in Nat /\ o.c \in Nat /\ o.c <= o.a
  BY DEF OutRegs, OpenOK
<1>2. AckOut(o, n, type, e) = Seal(p, type, e, FALSE)
  BY DEF AckOut
<1>3. p.a = x /\ p.b = y /\ p.c = o.c
  <2> HIDE DEF x, y
  <2> QED BY DEF Move
<1>4. x # y /\ x # o.c
  BY <1>1
<1> HIDE DEF p, x, y
<1> QED BY <1>2, <1>3, <1>4 DEF Seal, Gathering

(* The coroutine keeps track of the room it has.                           *)
LEMMA RoomStep ==
  ASSUME ~Shared, NoReneg, IInv, BothWays, OrderInv, KindsInv, RoomLeft, [Next]_vars
  PROVE  RoomLeft'
<1>0. h \in Window /\ ox \in OutRegs /\ h.put \in Nat /\ h.out \in Nat /\ h.in \in Nat /\ h.in0 \in Nat
  BY DEF IInv, TypeOK, Window
<1>1. ASSUME pc' \in {"idle", "jump"} PROVE RoomLeft'
  BY <1>1 DEF RoomLeft, Within
<1>2. ASSUME Within, ox' = ox, h'.put = h.put, h'.out = h.out PROVE RoomLeft'
  BY <1>2 DEF RoomLeft
<1>3. ASSUME NEW e, Fail(e) PROVE RoomLeft'
  BY <1>1, <1>3 DEF Fail
<1>4. CASE HsEnter
  <2>1. iomode = "INOUT"
    BY <1>4 DEF HsEnter, BothWays, IInv, CallInv
  <2>2. h'.put = 0 /\ h'.out = (IF HasPld(ox) THEN 0 ELSE ox.b - ox.a) /\ ox' = ox
    BY <1>4, <2>1 DEF HsEnter, SendPldLen, outVars
  <2>3. ox.a \in Nat /\ ox.b \in Nat
    BY <1>0 DEF OutRegs
  <2> QED BY <2>2, <2>3 DEF RoomLeft
<1>5. CASE HsReturn
  BY <1>1, <1>5 DEF HsReturn
<1>6. CASE HsClose \/ HsAlerts \/ HsAlertsEnd \/ HsGoOn
  <2>1. ox' = ox /\ Within
    BY <1>6 DEF HsClose, HsAlerts, HsAlertsEnd, HsGoOn, outVars, Within
  <2>2. h' = h \/ \E e : Fail(e)
    BY <1>6 DEF HsClose, StartClose, HsAlerts, HsAlertsEnd, HsGoOn, Continue
  <2> QED BY <1>2, <1>3, <2>1, <2>2
<1>7. CASE HsDiscard
  <2>1. h' = h \/ h' = [h EXCEPT !.in = 0]
    BY <1>7 DEF HsDiscard
  <2>2. h'.put = h.put /\ h'.out = h.out
    BY <1>0, <2>1 DEF Window
  <2> QED BY <1>2, <1>7, <2>2 DEF HsDiscard, outVars, Within
<1>8. ASSUME NEW byte, HsAlertByte(byte) PROVE RoomLeft'
  <2>1. CASE Fail("ERROR")
    BY <1>3, <2>1
  <2>2. CASE h' = [h EXCEPT !.in = h.in - 1]
    <3>1. h'.put = h.put /\ h'.out = h.out
      BY <1>0, <2>2 DEF Window
    <3> QED BY <1>2, <1>8, <3>1 DEF HsAlertByte, outVars, Within
  <2> QED BY <1>8, <2>1, <2>2 DEF HsAlertByte
<1>9. CASE HsYield \/ HsSet \/ HsRoom \/ HsNoFrag \/ HsRefuse \/ HsBranch
  <2>1. ox' = ox /\ Within /\ h' = h
    BY <1>9 DEF HsYield, HsSet, HsRoom, HsNoFrag, HsRefuse, HsBranch, outVars, Running, Within
  <2> QED BY <1>2, <2>1
<1>10. CASE HsNoMore \/ HsEnd
  <2>1. ox' = ox /\ Within /\ (h' = h \/ \E e : Fail(e))
    BY <1>10 DEF HsNoMore, HsEnd, outVars, Running, Within
  <2> QED BY <1>2, <1>3, <2>1
<1>11. ASSUME NEW bad, HsRead(bad) PROVE RoomLeft'
  <2>1. CASE Fail("ERROR")
    BY <1>3, <2>1
  <2>2. CASE ~Fail("ERROR")
    <3>1. h' = [h EXCEPT !.in = h.in - Least(Head(todo).n, h.in)]
      BY <1>11, <2>2 DEF HsRead
    <3>2. h'.put = h.put /\ h'.out = h.out
      BY <1>0, <3>1 DEF Window
    <3> QED BY <1>2, <1>11, <3>2 DEF HsRead, Running, outVars, Within
  <2> QED BY <2>1, <2>2
<1>12. ASSUME NEW bad, HsReadCcs(bad) PROVE RoomLeft'
  <2>1. CASE Fail("ERROR")
    BY <1>3, <2>1
  <2>2. CASE ~Fail("ERROR")
    <3>1. h' = [h EXCEPT !.in = h.in - 1]
      BY <1>12, <2>2 DEF HsReadCcs
    <3>2. h'.put = h.put /\ h'.out = h.out
      BY <1>0, <3>1 DEF Window
    <3> QED BY <1>2, <1>12, <3>2 DEF HsReadCcs, Running, outVars, Within
  <2> QED BY <2>1, <2>2
<1>13. ASSUME NEW k, NEW type, Put(k, type), k \in Nat, Within PROVE RoomLeft'
  <2>1. h'.out = h.out - k /\ h'.put = h.put + k /\ ox' = Written(ox, type, outenc)
    BY <1>13 DEF Put, Offer
  <2>2. ox'.a = ox.a /\ ox'.b = ox.b /\ ox'.c = ox.c
    BY <2>1 DEF Written
  <2>3. h'.put + h'.out = h.put + h.out
    BY <1>0, <1>13, <2>1
  <2> QED BY <1>13, <2>2, <2>3 DEF RoomLeft, HasPld
<1>14. CASE HsWrite
  <2>1. Running("write") /\ Put(Least(Head(todo).n, h.out), rtout)
    BY <1>14 DEF HsWrite
  <2>2. Head(todo).n \in Nat
    <3>1. todo \in Seq(Instr) /\ todo # <<>>
      BY <2>1 DEF IInv, TypeOK, Running, At
    <3>2. Head(todo) \in Instr
      BY <3>1, HeadTailProperties
    <3> QED BY <3>2 DEF Instr
  <2> DEFINE k == Least(Head(todo).n, h.out)
  <2>3. k \in Nat
    BY <1>0, <2>2 DEF Least
  <2> HIDE DEF k
  <2> QED BY <1>13, <2>1, <2>3 DEF Running, Within, k
<1>15. CASE HsAlertOut
  <2>1. Running("alert") /\ Put(Least(2, h.out), ALERT)
    BY <1>15 DEF HsAlertOut
  <2> DEFINE k == Least(2, h.out)
  <2>2. k \in Nat
    BY <1>0 DEF Least
  <2> HIDE DEF k
  <2> QED BY <1>13, <2>1, <2>2 DEF Running, Within, k
<1>16. CASE HsFlush \/ HsWriteCcs
  <2>1. pc = "run" /\ \E o, n, type : ox' = FlushRecord(o, n, type) /\ iomode' = FlushMode(n)
    BY <1>16 DEF HsFlush, HsWriteCcs, Running
  <2>2. Offer(SendPldLen(iomode', ox'), 0)
    BY <1>16 DEF HsFlush, HsWriteCcs
  <2>3. iomode' = "INOUT" /\ ~HasPld(ox')
    BY <2>1, FlushClears DEF FlushMode, AckOutMode, BothWays, IInv, CallInv
  <2>4. h'.put = 0 /\ h'.out = ox'.b - ox'.a
    BY <2>2, <2>3 DEF Offer, SendPldLen
  <2>5. ox'.a \in Nat /\ ox'.b \in Nat
    <3>1. IInv'
      BY <1>16, HsFlushInv, HsWriteCcsInv
    <3> QED BY <3>1 DEF IInv, TypeOK, OutRegs
  <2> QED BY <2>3, <2>4, <2>5 DEF RoomLeft
<1>17. ASSUME NEW f \in FragSizes, HsFrag(f) PROVE RoomLeft'
  <2>1. Running("frag")
    BY <1>17 DEF HsFrag
  <2>2. ~HasPld(ox) /\ h.put = 0 /\ iomode # "FAILED" /\ (Gathering(ox) => ox.a = ox.c)
    BY <2>1, NothingPending
  <2>3. /\ ox.a \in Nat /\ ox.b \in Nat /\ ox.c \in Nat /\ f \in Nat /\ f >= 2
        /\ Gathering(ox) => ox.a < ox.b
    BY <1>0, <2>2, OutLegal, BufferAssumption DEF OutRegs, OpenOK
  <2>4. h.out = ox.b - ox.a
    BY <1>0, <2>1, <2>2, <2>3 DEF RoomLeft, Within, Running
  <2>5. CASE f < maxFrag
    <3>1. ox' = ShrinkOut(ox, f) /\ h'.out = Least(h.out, f) /\ h'.put = h.put
      BY <1>17, <2>5 DEF HsFrag, WindowAfterFrag, Offer
    <3>2. CASE ox.a < ox.b /\ ox.b > ox.c + f
      <4>1. ox.a = ox.c /\ ox' = Move(ox, ox.a, ox.c + f)
        BY <2>2, <2>3, <3>1, <3>2 DEF ShrinkOut, Gathering
      <4>2. ox'.a = ox.a /\ ox'.b = ox.c + f /\ ox'.c = ox.c
        BY <4>1 DEF Move
      <4>3. h'.out = f
        BY <2>3, <2>4, <3>1, <3>2, <4>1 DEF Least
      <4> QED BY <2>2, <2>3, <3>1, <4>1, <4>2, <4>3 DEF RoomLeft, HasPld
    <3>3. CASE ~(ox.a < ox.b /\ ox.b > ox.c + f)
      <4>1. ox' = ox
        BY <3>1, <3>3 DEF ShrinkOut
      <4>2. h.out <= f
        BY <2>2, <2>3, <2>4, <3>3 DEF Gathering
      <4>3. h'.out = h.out
        BY <3>1, <4>2 DEF Least
      <4> QED BY <1>2, <2>1, <3>1, <4>1, <4>3 DEF Running, Within
    <3> QED BY <3>2, <3>3
  <2>6. CASE ~(f < maxFrag)
    BY <1>2, <1>17, <2>1, <2>6 DEF HsFrag, Running, Within
  <2> QED BY <2>5, <2>6
<1>18. CASE HsStep
  <2>1. ASSUME NEW bad, HsRead(bad) \/ HsReadCcs(bad) PROVE RoomLeft'
    BY <1>11, <1>12, <2>1
  <2> QED BY <1>4, <1>5, <1>6, <1>7, <1>8, <1>9, <1>10, <1>14, <1>15, <1>16, <1>17, <1>18, <2>1 DEF HsStep
<1>19. CASE RecvBody \/ RecvHead \/ SendRec \/ AppStep
  BY <1>1, <1>19, CallPc
<1>20. CASE UNCHANGED vars
  BY <1>20 DEF vars, hsVars, outVars, RoomLeft, Within
<1> QED BY <1>18, <1>19, <1>20 DEF Next

-----------------------------------------------------------------------------
(* Where the coroutine yields.                                             *)

(* A closure waits for its flush, and its flush for the alert.             *)
LEMMA ClosePath ==
  LET flush == <<I("flush", 0), I("closeWait", 0)>> IN
  /\ flush # <<>> /\ Head(flush).op = "flush" /\ Has("closeWait", flush) /\ Tail(flush) # flush
  /\ flush # DoClose
  /\ \A t \in CloseSteps : /\ Head(t).op # "closeWait" /\ Head(Tail(t)).op = "closeWait" => t = flush
                           /\ Head(t).op # "closeWait" /\ Tail(t) = flush => Head(t).op = "alert"
<1> DEFINE flush == <<I("flush", 0), I("closeWait", 0)>>
           wait == <<I("closeWait", 0)>>
<1>1. /\ flush # <<>> /\ Head(flush).op = "flush" /\ Tail(flush) = wait
      /\ Head(wait).op = "closeWait" /\ Has("closeWait", flush)
  BY DEF I, Has
<1> HIDE DEF flush, wait
<1>2. CloseSteps = {DoClose, CloseRoom, CloseAlert, flush, wait}
  BY DEF CloseSteps, flush, wait
<1>3. /\ Head(DoClose).op = "flush" /\ Tail(DoClose) = CloseRoom
      /\ Head(CloseRoom).op = "closeRoom" /\ Tail(CloseRoom) = CloseAlert
      /\ Head(CloseAlert).op = "alert" /\ Tail(CloseAlert) = flush
  BY RefusalTails DEF flush
<1>4. ASSUME NEW t \in CloseSteps, Head(t).op # "closeWait"
      PROVE  /\ Head(Tail(t)).op = "closeWait" => t = flush
             /\ Tail(t) = flush => Head(t).op = "alert"
  BY <1>1, <1>2, <1>3, <1>4
<1>5. flush # DoClose /\ Tail(flush) # flush
  BY <1>1, <1>3
<1> QED BY <1>1, <1>4, <1>5 DEF flush

(* The coroutine yields in HsYield, or in the main loop.                   *)
LEMMA Yields ==
  ASSUME NoReneg, CourseInv, HsStep, pc' = "yield"
  PROVE  HsYield \/ todo' = <<>>
<1>1. ASSUME NEW e, Fail(e) PROVE FALSE
  BY <1>1 DEF Fail
<1>2. Continue => todo' = <<>>
  BY DEF Continue, WantReneg, CourseInv
<1>3. ~(HsEnter \/ HsReturn \/ HsClose \/ HsAlerts \/ HsDiscard)
  BY DEF HsEnter, HsReturn, HsClose, StartClose, HsAlerts, HsDiscard
<1>4. HsAlertsEnd \/ HsGoOn => todo' = <<>>
  BY <1>1, <1>2 DEF HsAlertsEnd, StartClose, HsGoOn
<1>5. \A byte : ~HsAlertByte(byte)
  BY <1>1 DEF HsAlertByte
<1>6. ~(HsSet \/ HsRoom \/ HsWrite \/ HsAlertOut \/ HsFlush \/ HsWriteCcs)
  BY DEF HsSet, HsRoom, HsWrite, HsAlertOut, HsFlush, HsWriteCcs, Running
<1>7. \A bad : ~HsRead(bad) /\ ~HsReadCcs(bad)
  BY <1>1 DEF HsRead, HsReadCcs, Running
<1>8. ~(HsNoMore \/ HsNoFrag \/ HsRefuse \/ HsBranch \/ HsEnd)
  BY <1>1 DEF HsNoMore, HsNoFrag, HsRefuse, HsBranch, HsEnd, Running
<1>9. \A f : ~HsFrag(f)
  BY DEF HsFrag, Running
<1>10. ~\E byte \in {"warning", "fatal", "close_notify", "no_renegotiation", "other"} : HsAlertByte(byte)
  BY <1>5
<1>11. ~\E bad \in BOOLEAN : HsRead(bad) \/ HsReadCcs(bad)
  BY <1>7
<1>12. ~\E f \in FragSizes : HsFrag(f)
  BY <1>9
<1> QED BY <1>3, <1>4, <1>6, <1>8, <1>10, <1>11, <1>12 DEF HsStep

(* Where it yields it can neither read nor write.                          *)
LEMMA YieldStep ==
  ASSUME NoReneg, IInv, CourseInv, YieldInv, CloseReadInv, [Next]_vars
  PROVE  YieldInv'
<1> SUFFICES ASSUME pc' = "yield" PROVE YieldInv'
  BY DEF YieldInv
<1>1. CASE HsYield
  <2>1. UNCHANGED <<h, todo, cnr>> /\ pc = "run" /\ h.out \in Nat
    BY <1>1 DEF HsYield, IInv, TypeOK, Window
  <2>2. CASE todo = <<>>
    BY <2>1, <2>2 DEF YieldInv
  <2>3. CASE todo # <<>> /\ Head(todo).op \in {"read", "readCcs"}
    <3>1. h.in = 0
      BY <1>1, <2>3 DEF HsYield, At
    <3> QED BY <2>1, <2>3, <3>1 DEF YieldInv
  <2>4. CASE todo # <<>> /\ Head(todo).op \notin {"read", "readCcs"}
    <3>1. Head(todo).op \in RoomOps /\ (h.out = 0 \/ (At("closeWait") /\ ~CloseDone))
      BY <1>1, <2>4 DEF HsYield, At, RoomOps
    <3>2. CASE h.out = 0
      BY <2>1, <2>4, <3>1, <3>2 DEF YieldInv
    <3>3. CASE h.out # 0
      <4>1. At("closeWait") /\ ~cnr
        BY <2>1, <3>1, <3>3 DEF CloseDone
      <4>2. h.in = 0
        BY <2>1, <3>3, <4>1 DEF CloseReadInv
      <4> QED BY <2>1, <4>1, <4>2 DEF YieldInv, At
    <3> QED BY <3>2, <3>3
  <2> QED BY <2>2, <2>3, <2>4
<1>2. CASE HsStep /\ ~HsYield
  BY <1>2, Yields DEF YieldInv
<1>3. CASE RecvBody \/ RecvHead \/ SendRec \/ AppStep
  BY <1>3, CallPc
<1>4. CASE UNCHANGED vars
  BY <1>4 DEF vars, hsVars, YieldInv, At
<1> QED BY <1>1, <1>2, <1>3, <1>4 DEF Next

(* Where a closure waits for the peer, its input is looked at first.       *)
LEMMA CloseRuns ==
  ASSUME HsStep, At("closeWait"), pc' = "run"
  PROVE  HsDiscard \/ (h' = h /\ h.in = 0)
<1>1. \A op : Running(op) => op = "closeWait"
  BY DEF Running, At
<1>2. ASSUME NEW e, Fail(e) PROVE FALSE
  BY <1>2 DEF Fail
<1>3. ~(HsEnter \/ HsReturn \/ HsClose \/ HsAlerts \/ HsGoOn)
  BY DEF HsEnter, HsReturn, HsClose, HsAlerts, HsGoOn, Closing
<1>4. HsAlertsEnd => h' = h /\ h.in = 0
  BY DEF HsAlertsEnd, Closing
<1>5. \A byte : ~HsAlertByte(byte)
  BY <1>2 DEF HsAlertByte
<1>6. ~(HsYield \/ HsEnd)
  BY <1>2 DEF HsYield, Yield, HsEnd
<1>7. ~(HsSet \/ HsRoom \/ HsWrite \/ HsAlertOut \/ HsFlush \/ HsWriteCcs \/ HsNoMore \/ HsNoFrag
        \/ HsRefuse \/ HsBranch)
  BY <1>1 DEF HsSet, HsRoom, HsWrite, HsAlertOut, HsFlush, HsWriteCcs, HsNoMore, HsNoFrag, HsRefuse,
              HsBranch
<1>8. \A bad : ~HsRead(bad) /\ ~HsReadCcs(bad)
  BY <1>1 DEF HsRead, HsReadCcs
<1>9. \A f : ~HsFrag(f)
  BY <1>1 DEF HsFrag
<1>10. ~\E byte \in {"warning", "fatal", "close_notify", "no_renegotiation", "other"} : HsAlertByte(byte)
  BY <1>5
<1>11. ~\E bad \in BOOLEAN : HsRead(bad) \/ HsReadCcs(bad)
  BY <1>8
<1>12. ~\E f \in FragSizes : HsFrag(f)
  BY <1>9
<1> QED BY <1>3, <1>4, <1>6, <1>7, <1>10, <1>11, <1>12 DEF HsStep

(* A flush of what was written seals the record: there is no room.         *)
LEMMA FlushFills ==
  ASSUME ~Shared, IInv, OrderInv, KindsInv, HsFlush, h.put > 0
  PROVE  h'.out = 0
<1>1. /\ Running("flush") /\ ox' = FlushRecord(ox, h.put, rtout) /\ h'.out = SendPldLen(iomode', ox')
  BY DEF HsFlush, Offer
<1>2. iomode # "FAILED" /\ h \in Window
  BY <1>1, RunningOpen DEF Running
<1>3. /\ ox \in OutRegs /\ outenc \in BOOLEAN /\ OutOK(ox, outenc)
      /\ rtout \in RecTypes \union {0}
  BY <1>2, OutLegal
<1>4. h.put \in Nat /\ h.out \in Nat /\ ox.a \in Nat /\ ox.b \in Nat
  BY <1>2, <1>3 DEF Window, OutRegs
<1>5. OpenOK(ox, outenc) /\ ox.a + h.put <= ox.b
  BY <1>4, PutFits
<1>6. Pure(ox) /\ (Gathering(ox) => ox.kinds \subseteq {<<rtout, outenc>>})
  BY <1>2 DEF KindsInv, OpenInv
<1> DEFINE p == FlushRecord(ox, h.put, rtout)
<1>7. Gathering(p) => h.put = 0
  BY <1>3, <1>4, <1>5, <1>6, FlushRecordPure
<1>8. p \in OutRegs
  BY <1>3, <1>4, <1>5, FlushRecordOK
<1> HIDE DEF p
<1>9. p.a = p.b /\ p.a \in Nat
  BY <1>4, <1>7, <1>8 DEF Gathering, OutRegs
<1>10. SendPldLen(iomode', p) = 0
  BY <1>9 DEF SendPldLen
<1> QED BY <1>1, <1>10 DEF p

(* ... so that a closure waits for the peer without room, or with its      *)
(* input discarded.                                                        *)
LEMMA CloseReadStep ==
  ASSUME ~Shared, NoReneg, IInv, OrderInv, CourseInv, KindsInv, WayInv, CloseReadInv, CloseFlushInv,
         [Next]_vars
  PROVE  CloseReadInv'
<1> SUFFICES ASSUME todo' # <<>>, Head(todo').op = "closeWait", pc' = "run"
             PROVE  cnr' \/ h'.in = 0 \/ h'.out = 0
  BY DEF CloseReadInv, At
<1>0. todo \in Seq(Instr) /\ todo' \in Seq(Instr)
  <2>1. IInv'
    BY NextInv
  <2> QED BY <2>1 DEF IInv, TypeOK
<1>1. Closure(todo')
  BY <1>0, TailParts DEF Closure
<1>2. HsStep \/ UNCHANGED vars
  BY CallPc DEF Next
<1>3. CASE At("closeWait")
  <2>1. CASE HsDiscard
    <3>1. cnr' = cnr /\ h' = IF cnr THEN h ELSE [h EXCEPT !.in = 0]
      BY <2>1 DEF HsDiscard
    <3>2. ~cnr => h'.in = 0
      BY <3>1 DEF IInv, TypeOK, Window
    <3> QED BY <3>1, <3>2
  <2>2. CASE HsStep /\ ~HsDiscard
    BY <1>3, <2>2, CloseRuns
  <2>3. CASE UNCHANGED vars
    BY <1>3, <2>3 DEF vars, hsVars, CloseReadInv
  <2> QED BY <1>2, <2>1, <2>2, <2>3
<1>4. CASE ~At("closeWait")
  <2>1. ~Forgets /\ ~Keeps /\ ~Hears
    BY <1>4 DEF Forgets, Keeps, Hears, At
  <2>2. ~Starts
    BY <1>1, ProgramsRead DEF Starts
  <2>3. ~Restarts
    BY <1>1, ProgramsRead DEF Restarts
  <2>4. ~Closes
    BY RefusalTails DEF Closes
  <2>5. ASSUME NEW op, NEW m, DoesPart(op, m) PROVE FALSE
    <3>1. todo # <<>> /\ Head(todo).op \in {"read", "write"} /\ todo' = Shortened(todo, m)
      BY <2>5 DEF DoesPart, Running, At
    <3>2. Head(Shortened(todo, m)).op = Head(todo).op
      BY <1>0, <3>1, SameParts
    <3> QED BY <3>1, <3>2
  <2>6. ASSUME NEW op, Does(op) PROVE h'.out = 0
    <3>1. Running(op) /\ todo # <<>> /\ Head(todo).op = op /\ op # "closeWait" /\ todo' = Tail(todo)
      BY <2>6 DEF Does, Running, At
    <3>2. Closure(todo)
      <4>1. \A o : Has(o, Tail(todo)) => Has(o, todo)
        BY <1>0, <3>1, TailParts
      <4> QED BY <1>1, <3>1, <4>1 DEF Closure
    <3>3. todo \in CloseSteps
      BY <3>2 DEF WayInv, ClosingInv
    <3>4. Head(Tail(todo)).op = "closeWait"
      BY <3>1
    <3>5. todo = <<I("flush", 0), I("closeWait", 0)>>
      BY <3>1, <3>3, <3>4, ClosePath
    <3>6. op = "flush"
      BY <3>1, <3>5, ClosePath
    <3>7. HsStep
      <4>1. todo' # todo
        BY <3>1, <3>4
      <4> QED BY <1>2, <4>1 DEF vars, hsVars
    <3>8. HsFlush /\ h.put > 0
      BY <3>1, <3>5, <3>6, <3>7, RunsNext DEF CloseFlushInv
    <3> QED BY <3>8, FlushFills
  <2> QED BY <2>1, <2>2, <2>3, <2>4, <2>5, <2>6, ProgramStep
<1> QED BY <1>3, <1>4

(* The flush of a closure finds its alert.                                 *)
LEMMA CloseFlushStep ==
  ASSUME ~Shared, NoReneg, IInv, ReadInv, CourseInv, WayInv, CloseFlushInv, [Next]_vars
  PROVE  CloseFlushInv'
<1> DEFINE flush == <<I("flush", 0), I("closeWait", 0)>>
<1> SUFFICES ASSUME todo' = flush PROVE h'.put > 0
  BY DEF CloseFlushInv
<1>0. todo \in Seq(Instr) /\ h \in Window
  BY DEF IInv, TypeOK
<1>1. /\ flush # <<>> /\ Head(flush).op = "flush" /\ Closure(flush) /\ Tail(flush) # flush
      /\ flush # DoClose
  BY ClosePath DEF Closure
<1>2. /\ \A t \in CloseSteps : Head(t).op # "closeWait" /\ Tail(t) = flush => Head(t).op = "alert"
  BY ClosePath
<1>3. todo = flush => h.put > 0
  BY DEF CloseFlushInv
<1> HIDE DEF flush
<1>4. CASE todo = flush
  <2>1. pc = "run" /\ Running("flush")
    BY <1>1, <1>4 DEF ReadInv, WaitInv, WaitOps, AtStart, At, Running
  <2>2. ~HsFlush
    BY <1>1, <1>4 DEF HsFlush, Next1
  <2>3. ~HsStep
    BY <2>1, <2>2, RunsNext
  <2>4. ~(RecvBody \/ RecvHead \/ SendRec \/ AppStep)
    BY <2>1, CallPc
  <2>5. h' = h
    BY <2>3, <2>4 DEF Next, vars, hsVars
  <2> QED BY <1>3, <1>4, <2>5
<1>5. CASE todo # flush
  <2>1. ~Forgets /\ ~Keeps /\ ~Hears
    BY <1>1, <1>5 DEF Forgets, Keeps, Hears
  <2>2. ~Starts /\ ~Restarts
    BY <1>1, ProgramsRead DEF Starts, Restarts
  <2>3. ~Closes
    BY <1>1 DEF Closes
  <2>4. ASSUME NEW op, NEW m, DoesPart(op, m) PROVE FALSE
    <3>1. todo # <<>> /\ Head(todo).op \in {"read", "write"} /\ todo' = Shortened(todo, m)
      BY <2>4 DEF DoesPart, Running, At
    <3>2. Head(Shortened(todo, m)).op = Head(todo).op
      BY <1>0, <3>1, SameParts
    <3> QED BY <1>1, <3>1, <3>2
  <2>5. ASSUME NEW op, Does(op) PROVE h'.put > 0
    <3>1. Running(op) /\ todo # <<>> /\ Head(todo).op = op /\ op # "closeWait" /\ todo' = Tail(todo)
      BY <2>5 DEF Does, Running, At
    <3>2. Closure(todo)
      <4>1. \A o : Has(o, Tail(todo)) => Has(o, todo)
        BY <1>0, <3>1, TailParts
      <4> QED BY <1>1, <3>1, <4>1 DEF Closure
    <3>3. todo \in CloseSteps
      BY <3>2 DEF WayInv, ClosingInv
    <3>4. op = "alert"
      BY <1>2, <3>1, <3>3
    <3>5. HsStep
      <4>1. pc = "run"
        BY <3>1 DEF Running
      <4>2. ~(RecvBody \/ RecvHead \/ SendRec \/ AppStep)
        BY <4>1, CallPc
      <4> QED BY <1>5, <4>2 DEF Next, vars, hsVars
    <3>6. HsAlertOut /\ h.out > 0
      BY <3>1, <3>4, <3>5, RunsNext DEF CourseInv, Running
    <3>7. h'.put = h.put + Least(2, h.out)
      BY <3>6 DEF HsAlertOut, Put, Offer
    <3> QED BY <1>0, <3>6, <3>7 DEF Window, Least
  <2> QED BY <2>1, <2>2, <2>3, <2>4, <2>5, ProgramStep
<1> QED BY <1>4, <1>5

-----------------------------------------------------------------------------
(* What is pending where a program waits for room.                         *)

(* A write that fills the record seals it on return.                       *)
LEMMA ReturnFills ==
  ASSUME IInv, RoomLeft, HsReturn, h.out = 0, ~HasPld(ox)
  PROVE  ~Gathering(ox')
<1>1. /\ h.put \in Nat /\ ox \in OutRegs /\ ox.a \in Nat /\ ox.b \in Nat /\ pc = "yield"
      /\ iomode # "FAILED" /\ rtout \in RecTypes \union {0}
  BY DEF IInv, TypeOK, Window, OutRegs, HsReturn, CallInv
<1>2. h.put = ox.b - ox.a
  BY <1>1 DEF RoomLeft, Within
<1>3. CASE h.put > 0
  <2>1. OpenOK(ox, outenc) /\ outenc \in BOOLEAN
    BY <1>1, <1>3, PutFits, OutLegal
  <2>2. ox.a + h.put >= ox.b
    BY <1>1, <1>2
  <2>3. ~Gathering(AckOut(ox, h.put, rtout, outenc))
    BY <1>1, <1>3, <2>1, <2>2, FullSealed
  <2> QED BY <1>3, <2>3 DEF HsReturn
<1>4. CASE ~(h.put > 0)
  <2>1. ox' = ox
    BY <1>4 DEF HsReturn
  <2>2. ox.a = ox.b
    BY <1>1, <1>2, <1>4
  <2> QED BY <2>1, <2>2 DEF Gathering
<1> QED BY <1>3, <1>4

(* The calls leave nothing in the way of a program.                        *)
LEMMA CallsHeld ==
  ASSUME IInv, HeldInv, RecvBody \/ RecvHead \/ SendRec \/ AppStep
  PROVE  HeldInv'
<1>1. CASE RecvBody \/ RecvHead
  <2>1. UNCHANGED <<ox, appdata>> /\ iomode # "FAILED"
    BY <1>1 DEF RecvBody, RecvHead, RecvCipherPart, RecvClear, RecvCipherEnd, RecvHeaderPart,
       RecvHeader, outVars, Open
  <2>2. iomode' = "FAILED" \/ todo' = todo
    BY <1>1 DEF RecvBody, RecvHead, RecvCipherPart, RecvClear, RecvCipherEnd, RecvHeaderPart,
       RecvHeader, Deliver, Jump, Fail, hsVars
  <2> QED BY <2>1, <2>2 DEF HeldInv
<1>2. CASE SendRec
  <2>1. ~HasPld(ox')
    BY <1>2, SentClears DEF SendRec
  <2> QED BY <2>1 DEF HeldInv
<1>3. CASE Reset
  <2>1. maxFrag \in Nat /\ maxFrag >= 2 /\ ox' = ReadyOut(FALSE, maxFrag)
    BY <1>3 DEF Reset, IInv, TypeOK, CallInv
  <2>2. ~HasPld(ox')
    BY <2>1, ReadyOutKinds
  <2> QED BY <2>2 DEF HeldInv
<1>4. CASE AppStep /\ ~Reset
  <2>1. ASSUME NEW n, SendAppAck(n) PROVE HeldInv'
    <3>1. appdata' = 1
      BY <2>1, SendAppOpen DEF SendAppAck
    <3> QED BY <3>1 DEF HeldInv
  <2>2. ASSUME NEW force, Flush(force) PROVE HeldInv'
    BY <2>2 DEF Flush, HeldInv
  <2>3. ASSUME NEW n, RecvAppAck(n) PROVE HeldInv'
    BY <2>3 DEF RecvAppAck, outVars, hsVars, Open, HeldInv
  <2>4. CASE Close \/ Renegotiate
    BY <2>4 DEF Close, Renegotiate, Jump, outVars, Open, HeldInv
  <2>5. CASE IoFail
    BY <2>5 DEF IoFail, Fail, HeldInv
  <2> QED BY <1>4, <2>1, <2>2, <2>3, <2>4, <2>5 DEF AppStep
<1> QED BY <1>1, <1>2, <1>3, <1>4

(* What follows the return of co does not either.                          *)
LEMMA ReturnHeld ==
  ASSUME NoReneg, IInv, OrderInv, CourseInv, KindsInv, RoomLeft, YieldInv, HeldInv,
         \/ HsEnter \/ HsReturn \/ HsClose \/ HsAlerts \/ HsAlertsEnd \/ HsGoOn \/ HsDiscard
         \/ HsYield \/ \E byte : HsAlertByte(byte)
  PROVE  HeldInv'
<1>0. pc # "idle" /\ iomode # "FAILED" /\ (HsReturn \/ ox' = ox)
  <2>1. pc # "idle" /\ (HsReturn \/ ox' = ox)
    BY DEF HsEnter, HsReturn, HsClose, HsAlerts, HsAlertsEnd, HsGoOn, HsDiscard, HsYield, HsAlertByte,
           outVars
  <2> QED BY <2>1 DEF IInv, CallInv
<1>1. ASSUME ox' = ox, todo' = todo, appdata' = appdata PROVE HeldInv'
  BY <1>0, <1>1 DEF HeldInv
<1>2. ASSUME NEW e, Fail(e) PROVE HeldInv'
  BY <1>2 DEF Fail, HeldInv
<1>3. ASSUME todo' = DoClose PROVE HeldInv'
  BY <1>3, RefusalTails DEF HeldInv, RoomOps
<1>4. ASSUME todo' = OnHandshakeData PROVE HeldInv'
  <2>1. Head(OnHandshakeData).op \in {"read", "noapp"}
    BY RefusedReneg, BufferAssumption DEF Rejecting
  <2> QED BY <1>4, <2>1 DEF HeldInv, RoomOps
<1>5. Continue => todo' = todo
  BY DEF Continue, WantReneg, CourseInv
<1>6. CASE HsEnter \/ HsAlerts \/ HsDiscard \/ HsYield
  BY <1>1, <1>6 DEF HsEnter, HsAlerts, HsDiscard, HsYield, outVars
<1>7. CASE HsClose
  BY <1>3, <1>7 DEF HsClose, StartClose
<1>8. ASSUME NEW byte, HsAlertByte(byte) PROVE HeldInv'
  BY <1>1, <1>2, <1>8 DEF HsAlertByte, outVars
<1>9. CASE HsGoOn
  BY <1>1, <1>2, <1>4, <1>5, <1>9 DEF HsGoOn, outVars
<1>10. CASE HsAlertsEnd
  <2>1. CASE Closing
    <3>1. todo # <<>> /\ Head(todo).op \in {"closeRoom", "closeWait"}
      BY <2>1 DEF Closing, At
    <3>2. Role = "client" => Head(OnHandshakeData).op = "noapp"
      BY RefusedReneg
    <3>3. Role = "server" => Head(OnHandshakeData).op = "read"
      BY RefusedReneg DEF Rejecting
    <3>4. ~Pending(todo)
      BY <3>1, <3>2, <3>3, BufferAssumption DEF Pending, Rejecting
    <3>5. ~HasPld(ox') /\ ox' = ox
      BY <1>10, <3>4 DEF KindsInv, PendingInv, HsAlertsEnd, outVars
    <3> QED BY <3>5 DEF HeldInv
  <2>2. CASE ~Closing
    BY <1>1, <1>3, <1>5, <1>10, <2>2 DEF HsAlertsEnd, StartClose, outVars
  <2> QED BY <2>1, <2>2
<1>11. CASE HsReturn
  <2>1. UNCHANGED <<todo, appdata>> /\ pc = "yield" /\ h.put \in Nat
    BY <1>11 DEF HsReturn, IInv, TypeOK, Window
  <2>2. CASE ~(h.put > 0)
    <3>1. ox' = ox
      BY <1>11, <2>2 DEF HsReturn
    <3> QED BY <1>1, <2>1, <3>1
  <2>3. CASE h.put > 0
    <3> SUFFICES ASSUME appdata # 1, todo # <<>>, Head(todo).op \in RoomOps PROVE ~HasPld(ox')
      BY <2>1 DEF HeldInv
    <3>1. Head(todo).op = "write"
      BY <2>3 DEF OrderInv, PutInv, At, RoomOps
    <3>2. h.out = 0
      BY <2>1, <3>1 DEF YieldInv, At
    <3>3. ~HasPld(ox)
      BY <1>0 DEF HeldInv
    <3>4. ~Gathering(ox')
      BY <1>11, <3>2, <3>3, ReturnFills
    <3> QED BY <3>4 DEF HasPld, Gathering
  <2> QED BY <2>2, <2>3
<1> QED BY <1>6, <1>7, <1>8, <1>9, <1>10, <1>11

(* An instruction leaves nothing in the way of the next one.               *)
LEMMA RunHeld ==
  ASSUME NoReneg, IInv, OrderInv, CourseInv, KindsInv, HeldInv,
         \/ HsSet \/ HsRoom \/ HsWrite \/ HsAlertOut \/ HsFlush \/ HsWriteCcs \/ HsNoMore \/ HsNoFrag
         \/ HsRefuse \/ HsBranch \/ HsEnd
         \/ (\E bad : HsRead(bad) \/ HsReadCcs(bad)) \/ (\E f : HsFrag(f))
  PROVE  HeldInv'
<1>0. todo \in Seq(Instr) /\ h \in Window /\ ox \in OutRegs
  BY DEF IInv, TypeOK
<1>1. ASSUME ~HasPld(ox') PROVE HeldInv'
  BY <1>1 DEF HeldInv
<1>2. ASSUME NEW e, Fail(e) PROVE HeldInv'
  BY <1>2 DEF Fail, HeldInv
<1>3. ASSUME Head(todo').op \in {"flush", "read"} PROVE HeldInv'
  BY <1>3 DEF HeldInv, RoomOps
<1>4. ASSUME NEW op, Running(op), op \notin {"write", "flush", "room", "read", "noapp"}, ox' = ox
      PROVE  HeldInv'
  <2>1. ~HasPld(ox)
    BY <1>4, NothingPending
  <2> QED BY <1>1, <1>4, <2>1
<1>5. CASE HsSet
  <2>1. ox' = ox /\ todo' = Tail(todo)
    BY <1>5 DEF HsSet, Next1
  <2>2. CASE ~Running("noapp")
    <3>1. Running("begin") \/ Running("type") \/ Running("end")
      BY <1>5, <2>2 DEF HsSet
    <3> QED BY <1>4, <2>1, <3>1
  <2>3. CASE Running("noapp")
    <3>1. todo # <<>> /\ Head(todo).op = "noapp"
      BY <2>3 DEF Running, At
    <3>2. CASE HasPld(ox)
      <4>1. todo = OnHandshakeData
        BY <3>1, <3>2 DEF KindsInv, PendingInv, Pending, Rejecting
      <4>2. Role = "client" => Rejecting(Tail(OnHandshakeData))
        BY RefusedReneg
      <4>3. Role = "server" => Head(OnHandshakeData).op = "read"
        BY RefusedReneg DEF Rejecting
      <4>4. Rejecting(todo')
        BY <2>1, <3>1, <4>1, <4>2, <4>3, BufferAssumption
      <4> QED BY <1>3, <4>4 DEF Rejecting
    <3>3. CASE ~HasPld(ox)
      BY <1>1, <2>1, <3>3
    <3> QED BY <3>2, <3>3
  <2> QED BY <2>2, <2>3
<1>6. CASE HsRoom
  <2>1. ox' = ox /\ h.out > 0 /\ (Running("room") \/ Running("closeRoom"))
    BY <1>6 DEF HsRoom, outVars
  <2>2. h.put = 0
    BY <1>0, <2>1 DEF OrderInv, PutInv, Running, At, Window
  <2>3. ~HasPld(ox)
    BY <2>1, <2>2 DEF KindsInv, RoomInv, HasPld
  <2> QED BY <1>1, <2>1, <2>3
<1>7. CASE HsWrite
  <2> DEFINE n == Head(todo).n
             k == Least(n, h.out)
  <2>1. /\ Running("write") /\ UNCHANGED <<iomode, appdata>>
        /\ ox' = Written(ox, rtout, outenc)
        /\ todo' = IF k = n THEN Tail(todo) ELSE <<I("write", n - k)>> \o Tail(todo)
    BY <1>7 DEF HsWrite, Put
  <2>2. todo # <<>> /\ Head(todo).op = "write"
    BY <2>1 DEF Running, At
  <2>3. CASE k = n
    <3>1. Head(Tail(todo)).op = "flush"
      BY <1>0, <2>2, TailParts DEF OrderInv, ProgramInv, OutOps
    <3>2. todo' = Tail(todo)
      BY <2>1, <2>3
    <3> QED BY <1>3, <3>1, <3>2
  <2>4. CASE k # n
    <3>1. HasPld(ox') => HasPld(ox)
      BY <2>1 DEF Written, HasPld
    <3> QED BY <2>1, <2>2, <3>1 DEF HeldInv, RoomOps
  <2> QED BY <2>3, <2>4
<1>8. CASE HsAlertOut
  <2>1. todo # <<>> /\ Head(todo).op = "alert" /\ todo' = Tail(todo)
    BY <1>8 DEF HsAlertOut, Running, At, Next1
  <2>2. Head(Tail(todo)).op = "flush"
    BY <1>0, <2>1, TailParts DEF OrderInv, ProgramInv, OutOps
  <2> QED BY <1>3, <2>1, <2>2
<1>9. CASE HsFlush \/ HsWriteCcs
  <2>1. ~HasPld(ox')
    BY <1>9, FlushClears DEF HsFlush, HsWriteCcs
  <2> QED BY <1>1, <2>1
<1>10. ASSUME NEW bad, HsRead(bad) PROVE HeldInv'
  <2>1. ox' = ox /\ todo # <<>> /\ Head(todo).op = "read"
    BY <1>10 DEF HsRead, outVars, Running, At
  <2>2. CASE Fail("ERROR")
    BY <1>2, <2>2
  <2>3. CASE ~HasPld(ox)
    BY <1>1, <2>1, <2>3
  <2>4. CASE HasPld(ox) /\ ~Fail("ERROR")
    <3>1. Tail(todo) = RejectReneg
      BY <2>1, <2>4, ReadPending DEF Rejecting
    <3>2. todo' = Tail(todo) \/ \E m : todo' = Shortened(todo, m)
      BY <1>10, <2>1, <2>4 DEF HsRead, Shortened
    <3>3. CASE todo' = Tail(todo)
      BY <1>3, <3>1, <3>3, RefusalTails
    <3>4. CASE \E m : todo' = Shortened(todo, m)
      <4>1. PICK m : todo' = Shortened(todo, m)
        BY <3>4
      <4>2. Head(Shortened(todo, m)).op = "read"
        BY <1>0, <2>1, SameParts
      <4> QED BY <1>3, <4>1, <4>2
    <3> QED BY <3>2, <3>3, <3>4
  <2> QED BY <2>2, <2>3, <2>4
<1>11. ASSUME NEW bad, HsReadCcs(bad) PROVE HeldInv'
  <2>1. Running("readCcs") /\ ox' = ox
    BY <1>11 DEF HsReadCcs, outVars
  <2> QED BY <1>4, <2>1
<1>12. CASE HsNoMore \/ HsNoFrag \/ HsRefuse \/ HsBranch
  <2>1. (Running("nomore") \/ Running("frag") \/ Running("branch")) /\ ox' = ox
    BY <1>12 DEF HsNoMore, HsNoFrag, HsRefuse, HsBranch, outVars
  <2> QED BY <1>4, <2>1
<1>13. CASE HsEnd
  BY <1>2, <1>13 DEF HsEnd
<1>14. ASSUME NEW f, HsFrag(f) PROVE HeldInv'
  <2>1. Running("frag") /\ (ox' = ShrinkOut(ox, f) \/ ox' = ox)
    BY <1>14 DEF HsFrag
  <2>2. ~HasPld(ox)
    BY <2>1, NothingPending
  <2>3. ~HasPld(ox')
    BY <1>0, <2>1, <2>2, ShrinkKeeps
  <2> QED BY <1>1, <2>3
<1>15. ASSUME NEW bad, HsRead(bad) \/ HsReadCcs(bad) PROVE HeldInv'
  BY <1>10, <1>11, <1>15
<1> QED BY <1>5, <1>6, <1>7, <1>8, <1>9, <1>12, <1>13, <1>14, <1>15

(* Every step leaves nothing in the way of a program that waits for room.  *)
LEMMA HeldStep ==
  ASSUME NoReneg, IInv, OrderInv, CourseInv, KindsInv, RoomLeft, YieldInv, HeldInv, [Next]_vars
  PROVE  HeldInv'
<1>1. CASE HsStep
  <2>1. CASE \/ HsEnter \/ HsReturn \/ HsClose \/ HsAlerts \/ HsAlertsEnd \/ HsGoOn \/ HsDiscard
             \/ HsYield \/ \E byte : HsAlertByte(byte)
    BY <2>1, ReturnHeld
  <2>2. CASE \/ HsSet \/ HsRoom \/ HsWrite \/ HsAlertOut \/ HsFlush \/ HsWriteCcs \/ HsNoMore \/ HsNoFrag
             \/ HsRefuse \/ HsBranch \/ HsEnd
             \/ (\E bad : HsRead(bad) \/ HsReadCcs(bad)) \/ (\E f : HsFrag(f))
    BY <2>2, RunHeld
  <2> QED BY <1>1, <2>1, <2>2 DEF HsStep
<1>2. CASE RecvBody \/ RecvHead \/ SendRec \/ AppStep
  BY <1>2, CallsHeld
<1>3. CASE UNCHANGED vars
  BY <1>3 DEF vars, outVars, hsVars, HeldInv
<1> QED BY <1>1, <1>2, <1>3 DEF Next

-----------------------------------------------------------------------------
(* What an engine waits for between calls.                                 *)

(* An engine that neither sends nor lets the application write receives.   *)
IdleInv == Open /\ appdata # 1 /\ Gathering(ox) => ~shutdownRecv /\ ix.a = ix.b

(* A call that returned at once keeps receiving.                           *)
LEMMA CallsIdle ==
  ASSUME IInv, IdleInv, RecvBody \/ RecvHead \/ SendRec \/ AppStep
  PROVE  IdleInv'
<1> SUFFICES ASSUME pc' = "idle", iomode' # "FAILED", appdata' # 1, Gathering(ox')
             PROVE  ~shutdownRecv' /\ ix'.a = ix'.b
  BY DEF IdleInv, Open
<1>1. ix \in InRegs /\ ox \in OutRegs /\ appdata \in 0 .. 2
  BY DEF IInv, TypeOK
<1>2. ASSUME NEW e, Fail(e) PROVE FALSE
  BY <1>2 DEF Fail
<1>3. ~Jump(0) /\ ~Jump(1)
  BY DEF Jump
<1>4. ASSUME NEW i, Deliver(i), appdata' = appdata PROVE ix' = AckIn(i, i.b - i.a)
  BY <1>2, <1>3, <1>4 DEF Deliver
<1>5. ASSUME NEW i \in InRegs PROVE AckIn(i, i.b - i.a).a = AckIn(i, i.b - i.a).b
  BY <1>5, AllTaken
<1>6. CASE RecvBody \/ RecvHead
  <2>1. Open /\ UNCHANGED <<ox, appdata, shutdownRecv>>
    BY <1>6 DEF RecvBody, RecvHead, RecvCipherPart, RecvClear, RecvCipherEnd, RecvHeaderPart,
       RecvHeader, outVars
  <2>2. ~shutdownRecv'
    BY <2>1 DEF IdleInv
  <2>3. CASE RecvHead
    <3>1. ASSUME NEW n, RecvHeaderPart(n) PROVE ix'.a = ix'.b
      BY <3>1 DEF RecvHeaderPart
    <3>2. ASSUME NEW type, NEW rlen, NEW bad, RecvHeader(type, rlen, bad) PROVE ix'.a = ix'.b
      BY <3>2 DEF RecvHeader, ReadyIn
    <3> QED BY <2>2, <2>3, <3>1, <3>2 DEF RecvHead
  <2>4. CASE RecvBody
    <3>1. ASSUME NEW n, RecvCipherPart(n) PROVE ix'.a = ix'.b
      BY <3>1 DEF RecvCipherPart
    <3>2. ASSUME NEW n \in Portions(RecvRecLen), RecvClear(n) PROVE ix'.a = ix'.b
      <4> DEFINE i == [a |-> 5, b |-> ix.a + n, c |-> ix.c - n]
      <4>1. i \in InRegs
        BY <2>1, <3>2, ClearPart
      <4>2. Deliver(i)
        BY <3>2 DEF RecvClear
      <4> HIDE DEF i
      <4> QED BY <1>4, <1>5, <2>1, <4>1, <4>2
    <3>3. ASSUME NEW bad, RecvCipherEnd(bad) PROVE ix'.a = ix'.b
      <4> DEFINE len == ix.a + ix.c - 5 - InPre - InPost
                 i == [a |-> 5 + InPre, b |-> 5 + InPre + len, c |-> 0]
      <4>1. i \in InRegs
        BY <3>3, CipherPart
      <4>2. ix' = ReadyIn \/ Deliver(i)
        BY <1>2, <3>3 DEF RecvCipherEnd
      <4> HIDE DEF i
      <4>3. CASE Deliver(i)
        BY <1>4, <1>5, <2>1, <4>1, <4>3
      <4> QED BY <4>2, <4>3 DEF ReadyIn
    <3> QED BY <2>2, <2>4, <3>1, <3>2, <3>3 DEF RecvBody
  <2> QED BY <1>6, <2>3, <2>4
<1>7. CASE SendRec
  <2>1. PICK n : SendRecAck(n)
    BY <1>7 DEF SendRec
  <2>2. ox.a + n # ox.c
    BY <1>3, <2>1 DEF SendRecAck
  <2>3. ox' = Move(ox, ox.a + n, ox.a + n)
    BY <2>1, <2>2 DEF SendRecAck
  <2> QED BY <2>3 DEF Gathering, Move
<1>8. CASE AppStep
  <2>1. ASSUME NEW n, SendAppAck(n) PROVE FALSE
    BY <2>1, SendAppOpen DEF SendAppAck
  <2>2. ASSUME NEW force, Flush(force) PROVE FALSE
    BY <2>2 DEF Flush
  <2>3. ASSUME NEW n \in 1 .. RecvAppLen, RecvAppAck(n) PROVE FALSE
    <3>1. appdata # 1
      BY <2>3 DEF RecvAppAck
    <3>2. RecvAppLen = 0
      BY <3>1 DEF RecvAppLen
    <3> QED BY <2>3, <3>2
  <2>4. ~(Close \/ Renegotiate \/ Reset \/ IoFail)
    BY <1>2 DEF Close, Renegotiate, Reset, IoFail, Jump
  <2> QED BY <1>8, <2>1, <2>2, <2>3, <2>4 DEF AppStep
<1> QED BY <1>6, <1>7, <1>8

(* The coroutine returns where it waits for input, all of it read, or has  *)
(* filled a record.                                                        *)
LEMMA ReturnIdle ==
  ASSUME IInv, OrderInv, WayInv, UnheardInv, RoomLeft, YieldInv, HeldInv, HsReturn,
         pc' = "idle", appdata # 1, Gathering(ox')
  PROVE  ~shutdownRecv /\ ix'.a = ix'.b
<1>1. /\ pc = "yield" /\ iomode # "FAILED" /\ h.in \in Nat /\ h.in0 \in Nat
      /\ todo \in Seq(Instr) /\ h.in <= h.in0
  BY DEF HsReturn, IInv, TypeOK, Window, CallInv, WindowInv
<1>2. todo # <<>>
  BY <1>1 DEF WayInv, EndInv
<1>3. ~(Head(todo).op \in RoomOps /\ h.out = 0)
  <2>1. SUFFICES ASSUME Head(todo).op \in RoomOps, h.out = 0 PROVE FALSE
    OBVIOUS
  <2>2. ~HasPld(ox)
    BY <1>1, <1>2, <2>1 DEF HeldInv
  <2> QED BY <2>1, <2>2, ReturnFills
<1>4. h.in = 0 /\ (Head(todo).op \in {"read", "readCcs"} \/ (At("closeWait") /\ ~cnr))
  BY <1>1, <1>2, <1>3 DEF YieldInv
<1>5. ~shutdownRecv
  <2>1. SUFFICES ASSUME shutdownRecv PROVE FALSE
    OBVIOUS
  <2>2. cnr /\ Closure(todo)
    BY <1>1, <2>1 DEF WayInv, ShutInv, Closure
  <2>3. todo \in CloseSteps
    BY <2>2 DEF WayInv, ClosingInv
  <2> QED BY <1>4, <2>2, <2>3, CloseTails
<1>6. h.in0 = 0
  <2>1. ~JumpAgain(h.in0 - h.in)
    BY DEF HsReturn
  <2> QED BY <1>1, <1>4, <2>1 DEF JumpAgain
<1>7. ix.a = ix.b
  <2>1. ix.a = ix.b \/ rtin = APPDATA
    BY <1>1, <1>6 DEF UnheardInv, TakingInv, OfferedInv, Within
  <2>2. ix.a # ix.b /\ rtin = APPDATA => appdata = 1
    BY <1>1 DEF UnheardInv, UnreadInv
  <2> QED BY <2>1, <2>2
<1>8. ix' = ix
  BY <1>4, <1>6 DEF HsReturn
<1> QED BY <1>5, <1>7, <1>8

(* Only a return, or a failure, ends a call that had jumped.               *)
LEMMA CallEnds ==
  ASSUME HsStep, pc' = "idle"
  PROVE  HsReturn \/ iomode' = "FAILED"
<1>1. ASSUME NEW e, Fail(e) PROVE iomode' = "FAILED"
  BY <1>1 DEF Fail
<1>2. ~Continue
  BY DEF Continue
<1>3. ~(HsEnter \/ HsClose \/ HsAlerts \/ HsDiscard \/ HsYield)
  BY DEF HsEnter, HsClose, StartClose, HsAlerts, HsDiscard, HsYield, Yield
<1>4. HsAlertsEnd \/ HsGoOn => iomode' = "FAILED"
  BY <1>1, <1>2 DEF HsAlertsEnd, StartClose, HsGoOn
<1>5. \A byte : HsAlertByte(byte) => iomode' = "FAILED"
  BY <1>1 DEF HsAlertByte
<1>6. ~(HsSet \/ HsRoom \/ HsWrite \/ HsAlertOut \/ HsFlush \/ HsWriteCcs)
  BY DEF HsSet, HsRoom, HsWrite, HsAlertOut, HsFlush, HsWriteCcs, Running
<1>7. \A bad : HsRead(bad) \/ HsReadCcs(bad) => iomode' = "FAILED"
  BY <1>1 DEF HsRead, HsReadCcs, Running
<1>8. HsNoMore \/ HsNoFrag \/ HsRefuse \/ HsBranch \/ HsEnd => iomode' = "FAILED"
  BY <1>1 DEF HsNoMore, HsNoFrag, HsRefuse, HsBranch, HsEnd, Running
<1>9. \A f : ~HsFrag(f)
  BY DEF HsFrag, Running
<1>10. (\E byte \in {"warning", "fatal", "close_notify", "no_renegotiation", "other"} : HsAlertByte(byte))
         => iomode' = "FAILED"
  BY <1>5
<1>11. (\E bad \in BOOLEAN : HsRead(bad) \/ HsReadCcs(bad)) => iomode' = "FAILED"
  BY <1>7
<1>12. ~\E f \in FragSizes : HsFrag(f)
  BY <1>9
<1> QED BY <1>3, <1>4, <1>6, <1>8, <1>10, <1>11, <1>12 DEF HsStep

(* Every step keeps an idle engine receiving.                              *)
LEMMA IdleStep ==
  ASSUME IInv, OrderInv, WayInv, UnheardInv, RoomLeft, YieldInv, HeldInv, IdleInv, [Next]_vars
  PROVE  IdleInv'
<1>1. CASE HsStep
  <2> SUFFICES ASSUME pc' = "idle", iomode' # "FAILED", appdata' # 1, Gathering(ox')
               PROVE  ~shutdownRecv' /\ ix'.a = ix'.b
    BY DEF IdleInv, Open
  <2>1. HsReturn
    BY <1>1, CallEnds
  <2>2. appdata' = appdata /\ shutdownRecv' = shutdownRecv
    BY <2>1 DEF HsReturn
  <2> QED BY <2>1, <2>2, ReturnIdle
<1>2. CASE RecvBody \/ RecvHead \/ SendRec \/ AppStep
  BY <1>2, CallsIdle
<1>3. CASE UNCHANGED vars
  BY <1>3 DEF vars, inVars, outVars, hsVars, IdleInv, Open
<1> QED BY <1>1, <1>2, <1>3 DEF Next

(* An idle engine can do something.                                        *)
LEMMA InvNotZero ==
  ASSUME ~Shared, IInv, BothWays, IdleInv
  PROVE  StateNotZero
<1> SUFFICES ASSUME Open PROVE SendRecLen > 0 \/ RecvRecLen > 0 \/ SendAppLen > 0
  BY DEF StateNotZero
<1>1. iomode = "INOUT"
  BY DEF Open, BothWays
<1>2. ox.a \in Nat /\ ox.b \in Nat /\ ox.c \in Nat /\ OutOK(ox, outenc)
  BY <1>1, OutLegal DEF OutRegs
<1>3. CASE ~Gathering(ox)
  <2>1. ox.c > ox.a
    BY <1>2, <1>3 DEF OutOK, OpenOK, SealedOK, Gathering
  <2> QED BY <1>1, <1>2, <2>1 DEF SendRecLen
<1>4. CASE Gathering(ox) /\ appdata = 1
  <2>1. ox.a < ox.b
    BY <1>2, <1>4 DEF OutOK, OpenOK, SealedOK, Gathering
  <2> QED BY <1>1, <1>2, <1>4, <2>1 DEF SendAppLen, SendPldLen
<1>5. CASE Gathering(ox) /\ appdata # 1
  <2>1. ~shutdownRecv /\ ix.a = ix.b
    BY <1>5 DEF IdleInv
  <2> QED BY <1>1, <2>1, InvReceiving DEF ReceivingHasRoom, Receiving
<1> QED BY <1>3, <1>4, <1>5

(* What the engine waits for, from the start.                              *)
WaitsInv == UnheardInv /\ RoomLeft /\ YieldInv /\ CloseReadInv /\ CloseFlushInv /\ HeldInv /\ IdleInv

(* It holds in the initial states ...                                      *)
LEMMA InitWaits == ASSUME NoReneg, Init PROVE BothWays /\ WayInv /\ WaitsInv
<1>1. pc = "jump" /\ todo = DoHandshake /\ iomode = "INOUT" /\ ox = ReadyOut(FALSE, MaxFrag0)
  BY DEF Init
<1>2. ~HasPld(ox)
  BY <1>1, ReadyOutKinds, BufferAssumption
<1>3. todo # <<I("flush", 0), I("closeWait", 0)>>
  BY <1>1, ProgramsRead, ClosePath DEF Closure
<1>4. RoomLeft /\ YieldInv /\ CloseReadInv /\ CloseFlushInv /\ HeldInv /\ IdleInv
  BY <1>1, <1>2, <1>3 DEF RoomLeft, Within, YieldInv, CloseReadInv, CloseFlushInv, HeldInv, IdleInv, Open
<1> QED BY <1>1, <1>4, InitWay, InitUnheard DEF BothWays, WaitsInv

(* ... and in every step.                                                  *)
LEMMA WaitsStep ==
  ASSUME ~Shared, NoReneg, IInv, BothWays, OrderInv, ReadInv, CourseInv, KindsInv, WayInv, WaitsInv,
         [Next]_vars
  PROVE  WaitsInv'
<1>1. UnheardInv /\ RoomLeft /\ YieldInv /\ CloseReadInv /\ CloseFlushInv /\ HeldInv /\ IdleInv
  BY DEF WaitsInv
<1>2. UnheardInv'
  BY <1>1, UnheardStep
<1>3. RoomLeft'
  BY <1>1, RoomStep
<1>4. YieldInv'
  BY <1>1, YieldStep
<1>5. CloseReadInv' /\ CloseFlushInv'
  BY <1>1, CloseReadStep, CloseFlushStep
<1>6. HeldInv'
  BY <1>1, HeldStep
<1>7. IdleInv'
  BY <1>1, IdleStep
<1> QED BY <1>2, <1>3, <1>4, <1>5, <1>6, <1>7 DEF WaitsInv

(* Between calls an open engine can do something: it sends, receives, or   *)
(* the application may read or write (br_ssl_engine_current_state is not   *)
(* 0).  With a shared buffer it is not so: see README.                     *)
THEOREM NeverAtZero ==
  ASSUME ~Shared, NoReneg
  PROVE  Spec => []StateNotZero
<1>1. Init => ReadInv /\ CourseInv /\ KindsInv
  BY InitRead, InitCourse, InitKinds
<1>2. Init => BothWays /\ WayInv /\ WaitsInv
  BY InitWaits
<1>3. IInv /\ ReadInv /\ [Next]_vars => ReadInv'
  BY InvOneWindow, NextRead
<1>4. IInv /\ OrderInv /\ CourseInv /\ [Next]_vars => CourseInv'
  BY NextCourse
<1>5. IInv /\ OrderInv /\ ReadInv /\ CourseInv /\ KindsInv /\ [Next]_vars => KindsInv'
  BY NextKinds
<1>6. BothWays /\ [Next]_vars => BothWays'
  BY BothWaysStep
<1>7. IInv /\ OrderInv /\ ReadInv /\ CourseInv /\ WayInv /\ [Next]_vars => WayInv'
  BY WayStep
<1>8. IInv /\ BothWays /\ OrderInv /\ ReadInv /\ CourseInv /\ KindsInv /\ WayInv /\ WaitsInv
      /\ [Next]_vars => WaitsInv'
  BY WaitsStep
<1>9. IInv /\ BothWays /\ WaitsInv => StateNotZero
  BY InvNotZero DEF WaitsInv
<1> QED BY <1>1, <1>2, <1>3, <1>4, <1>5, <1>6, <1>7, <1>8, <1>9, Invariance, OrderKept, PTL DEF Spec
=============================================================================
