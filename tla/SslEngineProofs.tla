--------------------------- MODULE SslEngineProofs ---------------------------
(***************************************************************************)
(* Proofs about SslEngine, for every choice of the constants.  Part one:   *)
(* types, buffer bounds and the exclusive use of a shared buffer; part     *)
(* two: the order of what the handshake code does.  Forced flushes are     *)
(* excluded when the buffer is shared: with them the exclusive use fails   *)
(* (SslEngineForcedFlush.cfg shows how).                                   *)
(***************************************************************************)
EXTENDS SslEngine, TLAPS, SequenceTheorems

-----------------------------------------------------------------------------
(* The inductive invariant.                                                *)

(* A header in progress, a record in progress, or payload to read.         *)
InOK(i, enc) ==
  \/ i.a = i.b /\ i.a < 5 /\ i.c = 5 - i.a
  \/ /\ i.a = i.b /\ i.a >= 5 /\ i.c > 0
     /\ IF enc THEN i.a + i.c <= IBufLen /\ i.a + i.c >= 5 + InPre + InPost
               ELSE i.a = 5
  \/ i.a >= 5 /\ i.a < i.b /\ i.b <= IBufLen /\ (enc => i.c = 0)

(* An open record, or a sealed one on its way out.                         *)
OpenOK(o, e) ==
  o.c = PlainStart(e) /\ o.c <= o.a /\ o.a < o.b /\ o.b + Post(e) <= OBufLen
SealedOK(o) == o.a = o.b /\ o.a < o.c /\ o.c <= OBufLen
OutOK(o, e) == OpenOK(o, e) \/ SealedOK(o)

CallInv ==
  /\ iomode = "FAILED" => pc = "idle"
  /\ pc \in {"idle", "jump"} => h = Idle
  /\ maxFrag >= 2
InputInv == iomode # "FAILED" => InOK(ix, incrypt)
OutputInv == iomode # "FAILED" => OutOK(ox, outenc)
WindowInv ==
  /\ h.in <= h.in0
  /\ h.in0 > 0 => Receiving(iomode) /\ ix.a + h.in0 = ix.b
  /\ h.put + h.out > 0 => /\ iomode \in {"OUT", "INOUT"}
                          /\ ox.a < ox.b /\ ox.a + h.put + h.out <= ox.b

(* The fragment length is set while the window, if there is one, starts at *)
(* the beginning of an empty record: the programs that contain "frag" only *)
(* read before it.                                                         *)
ReadInstr  == {i \in Instr : i.op \in {"begin", "read", "frag", "nomore", "branch"}}
OtherInstr == {i \in Instr : i.op # "frag"}
Untouched == h.put = 0 /\ (h.out > 0 => ox.a = ox.c)
FragInv ==
  /\ pc \in {"resume", "alerts"} => Untouched
  /\ todo \in Seq(OtherInstr) \/ (todo \in Seq(ReadInstr) /\ Untouched)

IInv == /\ TypeOK /\ CallInv /\ InputInv /\ OutputInv /\ WindowInv
        /\ SharedBufferExclusive /\ FragInv

-----------------------------------------------------------------------------
(* The input registers.                                                    *)

(* Reading payload keeps the input registers legal.                        *)
LEMMA AckInOK ==
  ASSUME NEW i \in InRegs, NEW enc \in BOOLEAN, NEW n \in Nat,
         InOK(i, enc), n > 0, i.a + n <= i.b
  PROVE  /\ AckIn(i, n) \in InRegs
         /\ InOK(AckIn(i, n), enc)
         /\ i.a + n # i.b => AckIn(i, n).a + (i.b - i.a - n) = AckIn(i, n).b
<1> USE DEF InRegs
<1>1. i.a >= 5 /\ i.a < i.b /\ i.b <= IBufLen /\ (enc => i.c = 0)
  BY DEF InOK
<1>2. CASE i.a + n # i.b
  <2>1. AckIn(i, n) = [a |-> i.a + n, b |-> i.b, c |-> i.c]
    BY <1>2 DEF AckIn
  <2> QED BY <2>1, <1>1, <1>2, BufferAssumption DEF InOK
<1>3. CASE i.a + n = i.b /\ i.c = 0
  <2>1. AckIn(i, n) = [a |-> 0, b |-> 0, c |-> 5]
    BY <1>3 DEF AckIn, ReadyIn
  <2> QED BY <2>1, <1>3 DEF InOK
<1>4. CASE i.a + n = i.b /\ i.c # 0
  <2>1. AckIn(i, n) = [a |-> 5, b |-> 5, c |-> i.c]
    BY <1>4 DEF AckIn
  <2> QED BY <2>1, <1>1, <1>4 DEF InOK
<1> QED BY <1>2, <1>3, <1>4

(* The output registers.                                                   *)

(* The registers of a fresh outgoing record are legal and open.            *)
LEMMA ReadyOutOK ==
  ASSUME NEW e \in BOOLEAN, NEW f \in Nat, f >= 2
  PROVE  /\ ReadyOut(e, f) \in OutRegs
         /\ OpenOK(ReadyOut(e, f), e)
         /\ ReadyOut(e, f).a = ReadyOut(e, f).c
BY BufferAssumption, SMT
   DEF ReadyOut, OutRegs, Header, NoHdr, OpenOK, PlainStart, PlainEnd, Pre, Post, Least

(* Moving both cursors forward inside the buffer keeps them legal.         *)
LEMMA MoveOK ==
  ASSUME NEW o \in OutRegs, NEW x \in Nat, NEW y \in Nat
  PROVE  /\ Move(o, x, y) \in OutRegs
         /\ Move(o, x, y).a = x /\ Move(o, x, y).b = y /\ Move(o, x, y).c = o.c
BY DEF Move, OutRegs

(* Noting what was written does not move a register.                       *)
LEMMA WrittenOK ==
  ASSUME NEW o \in OutRegs, NEW type \in RecTypes \union {0}, NEW e \in BOOLEAN
  PROVE  /\ Written(o, type, e) \in OutRegs
         /\ Written(o, type, e).a = o.a /\ Written(o, type, e).b = o.b
         /\ Written(o, type, e).c = o.c
<1>1. o.kinds \union {<<type, e>>} \in SUBSET ((RecTypes \union {0}) \X BOOLEAN)
  BY DEF OutRegs
<1> QED BY <1>1 DEF Written, OutRegs

(* Sealing an open record yields one that starts at the beginning of the   *)
(* buffer and ends after the protection of its plaintext.                  *)
LEMMA SealOpen ==
  ASSUME NEW e \in BOOLEAN, NEW o \in OutRegs, NEW type \in RecTypes \union {0},
         NEW force \in BOOLEAN,
         o.a # o.b, o.a # o.c \/ force,
         o.c = PlainStart(e), o.c <= o.a, o.a + Post(e) <= OBufLen
  PROVE  /\ Seal(o, type, e, force) \in OutRegs
         /\ SealedOK(Seal(o, type, e, force))
<1> DEFINE s == Seal(o, type, e, force)
<1>1. s = [a |-> o.c - Pre(e) - 5, b |-> o.c - Pre(e) - 5,
           c |-> o.a + Post(e), kinds |-> o.kinds,
           hdr |-> [type |-> type, enc |-> e, len |-> o.a - o.c]]
  BY DEF Seal
<1>2. /\ o.a \in Nat /\ o.b \in Nat /\ o.c \in Nat
      /\ o.kinds \in SUBSET ((RecTypes \union {0}) \X BOOLEAN)
  BY DEF OutRegs
<1>3. Pre(e) \in Nat /\ Post(e) \in Nat
  BY BufferAssumption DEF Pre, Post
<1>4. o.c - Pre(e) - 5 = 0 /\ o.a - o.c \in Nat /\ o.a + Post(e) \in Nat /\ o.a + Post(e) > 0
  BY <1>2, <1>3 DEF PlainStart
<1>5. s \in OutRegs
  BY <1>1, <1>2, <1>4 DEF OutRegs, Header
<1>6. SealedOK(s)
  BY <1>1, <1>4 DEF SealedOK
<1> QED BY <1>5, <1>6

(* Sealing keeps the output registers legal, open or sealed.               *)
LEMMA SealOK ==
  ASSUME NEW e \in BOOLEAN, NEW o \in OutRegs, NEW type \in RecTypes \union {0},
         NEW force \in BOOLEAN, OutOK(o, e)
  PROVE  /\ Seal(o, type, e, force) \in OutRegs
         /\ OutOK(Seal(o, type, e, force), e)
         /\ HasPld(o) => SealedOK(Seal(o, type, e, force))
         /\ o.a = o.c /\ ~force => Seal(o, type, e, force) = o
<1>0. o.a \in Nat /\ o.b \in Nat /\ o.c \in Nat /\ Post(e) \in Nat
  BY BufferAssumption DEF OutRegs, Post
<1>1. CASE o.a = o.b \/ (o.a = o.c /\ ~force)
  <2>1. Seal(o, type, e, force) = o
    BY <1>1 DEF Seal
  <2>2. ~HasPld(o)
    BY <1>1 DEF HasPld
  <2> QED BY <2>1, <2>2
<1>2. CASE ~(o.a = o.b \/ (o.a = o.c /\ ~force))
  <2>1. OpenOK(o, e)
    BY <1>2 DEF OutOK, SealedOK
  <2>2. o.c = PlainStart(e) /\ o.c <= o.a /\ o.a + Post(e) <= OBufLen
    BY <2>1, <1>0, BufferAssumption DEF OpenOK
  <2>3. Seal(o, type, e, force) \in OutRegs /\ SealedOK(Seal(o, type, e, force))
    BY <2>2, <1>2, SealOpen
  <2> QED BY <2>3, <1>2 DEF OutOK
<1> QED BY <1>1, <1>2

(* Adding payload that fits keeps the output registers legal.              *)
LEMMA AckOutOK ==
  ASSUME NEW e \in BOOLEAN, NEW o \in OutRegs, NEW type \in RecTypes \union {0},
         NEW n \in Nat, OpenOK(o, e), n > 0, o.a + n <= o.b
  PROVE  /\ AckOut(o, n, type, e) \in OutRegs
         /\ OutOK(AckOut(o, n, type, e), e)
         /\ HasPld(AckOut(o, n, type, e)) \/ SealedOK(AckOut(o, n, type, e))
<1>0. /\ o.a \in Nat /\ o.b \in Nat /\ o.c \in Nat /\ Post(e) \in Nat
      /\ o.c = PlainStart(e) /\ o.c <= o.a /\ o.b + Post(e) <= OBufLen
  BY BufferAssumption DEF OutRegs, Post, OpenOK
<1> DEFINE x == o.a + n  y == o.a + n + 1  b == o.b
<1>1. CASE o.a + n >= o.b
  <2> DEFINE p == Move(o, x, y)
  <2>1. AckOut(o, n, type, e) = Seal(p, type, e, FALSE)
    BY <1>1 DEF AckOut
  <2>2. x \in Nat /\ y \in Nat
    BY <1>0
  <2>3. p \in OutRegs /\ p.a = x /\ p.b = y /\ p.c = o.c
    <3> HIDE DEF x, y
    <3> QED BY <2>2, MoveOK
  <2> HIDE DEF p
  <2>4. /\ p.a # p.b /\ p.a # p.c /\ p.c = PlainStart(e) /\ p.c <= p.a
        /\ p.a + Post(e) <= OBufLen
    BY <2>3, <1>0, <1>1, BufferAssumption
  <2>5. Seal(p, type, e, FALSE) \in OutRegs /\ SealedOK(Seal(p, type, e, FALSE))
    BY <2>3, <2>4, SealOpen
  <2> QED BY <2>1, <2>5 DEF OutOK
<1>2. CASE ~(o.a + n >= o.b)
  <2> DEFINE p == Move(o, x, b)
  <2>1. AckOut(o, n, type, e) = p
    BY <1>2 DEF AckOut
  <2>2. x \in Nat /\ b \in Nat
    BY <1>0
  <2>3. p \in OutRegs /\ p.a = x /\ p.b = b /\ p.c = o.c
    <3> HIDE DEF x, b
    <3> QED BY <2>2, MoveOK
  <2> HIDE DEF p
  <2>4. OpenOK(p, e) /\ HasPld(p)
    BY <2>3, <1>2, <1>0 DEF OpenOK, HasPld
  <2> QED BY <2>1, <2>3, <2>4 DEF OutOK
<1> QED BY <1>1, <1>2

-----------------------------------------------------------------------------
(* The coroutine's programs.                                               *)

(* What a program is made of is an instruction.                            *)
LEMMA InstrOK ==
  ASSUME NEW op \in Ops \ {"frag"}, NEW n \in Nat, op = "type" => n \in RecTypes
  PROVE  I(op, n) \in OtherInstr
BY DEF I, Ops, OtherInstr, Instr

(* ... and a shortened read still is one.                                  *)
LEMMA ReadInstrOK ==
  ASSUME NEW op \in {"begin", "read", "frag", "nomore", "branch"}, NEW n \in Nat
  PROVE  I(op, n) \in ReadInstr
BY DEF I, Ops, ReadInstr, Instr

(* Programs concatenate.                                                   *)
LEMMA CatOther ==
  ASSUME NEW s \in Seq(OtherInstr), NEW t \in Seq(OtherInstr)
  PROVE  s \o t \in Seq(OtherInstr)
BY ConcatProperties

(* The instructions that never change the fragment length are among all.   *)
LEMMA SubSeqs ==
  Seq(OtherInstr) \subseteq Seq(Instr) /\ Seq(ReadInstr) \subseteq Seq(Instr)
<1>1. OtherInstr \subseteq Instr /\ ReadInstr \subseteq Instr
  BY DEF OtherInstr, ReadInstr
<1> QED BY <1>1, SMT

(* The programs that never look for a fragment length.                     *)
LEMMA ProgramsOther ==
  /\ WriteCcsFinished \in Seq(OtherInstr) /\ ReadCcsFinished \in Seq(OtherInstr)
  /\ FullHandshake \in Seq(OtherInstr) /\ Resumption \in Seq(OtherInstr)
  /\ RejectReneg \in Seq(OtherInstr) /\ DoClose \in Seq(OtherInstr)
  /\ FailAlert \in Seq(OtherInstr)
<1>1. \A op \in Ops \ {"type", "frag"}, n \in Nat : I(op, n) \in OtherInstr
  BY InstrOK
<1>2. HANDSHAKE \in Nat /\ APPDATA \in Nat /\ HANDSHAKE \in RecTypes /\ APPDATA \in RecTypes
  BY DEF HANDSHAKE, APPDATA, RecTypes
<1>3. MsgLen \in Nat
  BY BufferAssumption
<1>4. I("type", HANDSHAKE) \in OtherInstr /\ I("type", APPDATA) \in OtherInstr
  BY <1>2, InstrOK DEF Ops
<1>5. /\ I("flush", 0) \in OtherInstr /\ I("writeCcs", 1) \in OtherInstr
      /\ I("room", 0) \in OtherInstr /\ I("write", MsgLen) \in OtherInstr
      /\ I("readCcs", 1) \in OtherInstr /\ I("read", MsgLen) \in OtherInstr
      /\ I("nomore", 0) \in OtherInstr /\ I("end", 0) \in OtherInstr
      /\ I("alert", 2) \in OtherInstr /\ I("closeRoom", 0) \in OtherInstr
      /\ I("closeWait", 0) \in OtherInstr /\ I("fail", 0) \in OtherInstr
  BY <1>1, <1>3 DEF Ops
<1>6. WriteCcsFinished \in Seq(OtherInstr) /\ ReadCcsFinished \in Seq(OtherInstr)
  BY <1>4, <1>5 DEF WriteCcsFinished, ReadCcsFinished
<1>7. RejectReneg \in Seq(OtherInstr) /\ DoClose \in Seq(OtherInstr) /\ FailAlert \in Seq(OtherInstr)
  BY <1>5 DEF RejectReneg, DoClose, FailAlert
<1>8. /\ <<I("read", MsgLen), I("nomore", 0), I("write", MsgLen)>> \in Seq(OtherInstr)
      /\ <<I("write", MsgLen), I("flush", 0), I("read", MsgLen)>> \in Seq(OtherInstr)
      /\ <<I("write", MsgLen)>> \in Seq(OtherInstr) /\ <<I("end", 0)>> \in Seq(OtherInstr)
  BY <1>5
<1>9. FullHandshake \in Seq(OtherInstr)
  BY <1>6, <1>8, CatOther DEF FullHandshake
<1>10. Resumption \in Seq(OtherInstr)
  BY <1>6, <1>8, CatOther DEF Resumption
<1> QED BY <1>6, <1>7, <1>9, <1>10

(* The programs that run after the ClientHello was read.                   *)
LEMMA ProgramsShaken ==
  /\ DoHandshake \in Seq(OtherInstr) \union Seq(ReadInstr)
  /\ OnHandshakeData \in Seq(OtherInstr) \union Seq(ReadInstr)
  /\ OnRenegotiate \in Seq(OtherInstr) \union Seq(ReadInstr)
<1>1. MsgLen \in Nat /\ Role \in {"client", "server"}
  BY BufferAssumption
<1>2. CASE Role = "client"
  <2>1. DoHandshake \in Seq(OtherInstr)
    <3>1. <<I("begin", 0)>> \in Seq(OtherInstr) /\ <<I("branch", 0)>> \in Seq(OtherInstr)
          /\ <<I("write", MsgLen), I("flush", 0), I("read", MsgLen)>> \in Seq(OtherInstr)
      BY <1>1, InstrOK DEF Ops
    <3> QED BY <3>1, <1>2, CatOther DEF DoHandshake
  <2>2. <<I("noapp", 0), I("read", MsgLen)>> \in Seq(OtherInstr)
    BY <1>1, InstrOK DEF Ops
  <2> QED BY <1>2, <2>1, <2>2, CatOther, ProgramsOther DEF OnHandshakeData, OnRenegotiate
<1>3. CASE Role = "server"
  <2>1. DoHandshake \in Seq(ReadInstr)
    <3>1. <<I("begin", 0)>> \in Seq(ReadInstr) /\ <<I("branch", 0)>> \in Seq(ReadInstr)
          /\ <<I("read", MsgLen), I("frag", 0), I("nomore", 0)>> \in Seq(ReadInstr)
      BY <1>1, ReadInstrOK
    <3> QED BY <3>1, <1>3, ConcatProperties DEF DoHandshake
  <2>2. <<I("read", MsgLen)>> \in Seq(OtherInstr)
    BY <1>1, InstrOK DEF Ops
  <2>3. OnHandshakeData \in Seq(OtherInstr) \union Seq(ReadInstr)
    BY <1>3, <2>1, <2>2, CatOther, ProgramsOther DEF OnHandshakeData
  <2>4. OnRenegotiate \in Seq(OtherInstr)
    <3>1. HANDSHAKE \in Nat /\ APPDATA \in Nat /\ HANDSHAKE \in RecTypes /\ APPDATA \in RecTypes
      BY DEF HANDSHAKE, APPDATA, RecTypes
    <3>2. /\ I("noapp", 0) \in OtherInstr /\ I("flush", 0) \in OtherInstr
          /\ I("room", 0) \in OtherInstr /\ I("type", HANDSHAKE) \in OtherInstr
          /\ I("write", MsgLen) \in OtherInstr /\ I("type", APPDATA) \in OtherInstr
      BY <1>1, <3>1, InstrOK DEF Ops
    <3> QED BY <3>2, <1>3 DEF OnRenegotiate
  <2> QED BY <2>1, <2>3, <2>4
<1> QED BY <1>1, <1>2, <1>3

(* The program after its first instruction.                                *)
Left(t) == t \in Seq(OtherInstr) \/ (t \in Seq(ReadInstr) /\ Untouched)

(* What is left of an initial handshake is a program.                      *)
LEMMA LeftIsProgram ==
  ASSUME NEW t, Left(t)
  PROVE  t \in Seq(Instr)
BY SubSeqs DEF Left

(* One instruction less leaves what an initial handshake may have left.    *)
LEMMA TailLeft ==
  ASSUME Left(todo), todo # <<>>
  PROVE  Left(Tail(todo)) /\ Head(todo) \in Instr
<1>1. CASE todo \in Seq(OtherInstr)
  <2>1. Tail(todo) \in Seq(OtherInstr) /\ Head(todo) \in OtherInstr
    BY <1>1, HeadTailProperties
  <2> QED BY <2>1 DEF Left, OtherInstr
<1>2. CASE todo \in Seq(ReadInstr) /\ Untouched
  <2>1. Tail(todo) \in Seq(ReadInstr) /\ Head(todo) \in ReadInstr
    BY <1>2, HeadTailProperties
  <2> QED BY <1>2, <2>1 DEF Left, ReadInstr
<1> QED BY <1>1, <1>2 DEF Left

(* One instruction less is still a program.                                *)
LEMMA TailOther ==
  ASSUME Left(todo), NEW op, At(op), op \notin {"begin", "read", "frag", "nomore", "branch"}
  PROVE  Tail(todo) \in Seq(OtherInstr) /\ Head(todo) \in Instr /\ Head(todo).op = op
<1>1. todo # <<>> /\ Head(todo).op = op
  BY DEF At
<1>2. CASE todo \in Seq(ReadInstr)
  <2>1. Head(todo) \in ReadInstr
    BY <1>1, <1>2, HeadTailProperties
  <2> QED BY <2>1, <1>1 DEF ReadInstr
<1>3. CASE todo \in Seq(OtherInstr)
  <2>1. Tail(todo) \in Seq(OtherInstr) /\ Head(todo) \in OtherInstr
    BY <1>1, <1>3, HeadTailProperties
  <2> QED BY <2>1, <1>1 DEF OtherInstr
<1> QED BY <1>2, <1>3 DEF Left

-----------------------------------------------------------------------------
(* The initial states.                                                     *)

(* The empty window respects any registers.                                *)
LEMMA IdleOK ==
  /\ Idle \in Window /\ Idle.in0 = 0 /\ Idle.in = 0 /\ Idle.out = 0 /\ Idle.put = 0
  /\ ReadyIn \in InRegs
  /\ \A e \in BOOLEAN : InOK(ReadyIn, e)
BY DEF Idle, Window, ReadyIn, InRegs, InOK

(* A fresh outgoing record holds nothing.                                  *)
LEMMA ReadyOutEmpty ==
  ASSUME NEW e \in BOOLEAN, NEW f \in Nat, f >= 2
  PROVE  /\ ReadyOut(e, f) \in OutRegs /\ OutOK(ReadyOut(e, f), e)
         /\ ReadyOut(e, f).a = ReadyOut(e, f).c
         /\ ReadyOut(e, f).a # ReadyOut(e, f).b
<1>1. /\ ReadyOut(e, f) \in OutRegs /\ OpenOK(ReadyOut(e, f), e)
      /\ ReadyOut(e, f).a = ReadyOut(e, f).c
  BY ReadyOutOK
<1>2. ReadyOut(e, f).a < ReadyOut(e, f).b /\ ReadyOut(e, f).a \in Nat
      /\ ReadyOut(e, f).b \in Nat
  BY <1>1 DEF OpenOK, OutRegs
<1>3. ReadyOut(e, f).a # ReadyOut(e, f).b
  BY <1>2
<1> QED BY <1>1, <1>3 DEF OutOK

(* The invariant holds after br_ssl_client_reset or br_ssl_server_reset.   *)
LEMMA InitInv == Init => IInv
<1> SUFFICES ASSUME Init PROVE IInv
  OBVIOUS
<1>1. /\ maxFrag \in Nat /\ maxFrag >= 2 /\ iomode = "INOUT" /\ pc = "jump"
      /\ ix = ReadyIn /\ h = Idle /\ todo = DoHandshake /\ cnr \in BOOLEAN
      /\ incrypt \in BOOLEAN /\ outenc \in BOOLEAN /\ shutdownRecv \in BOOLEAN
      /\ action = 0 /\ appdata = 0 /\ alert = 0 /\ rtin = 0 /\ rtout = 0 /\ err = "OK"
  BY BufferAssumption DEF Init
<1>2. ox = ReadyOut(outenc, maxFrag)
  BY Zenon DEF Init
<1>3. ox \in OutRegs /\ OutOK(ox, outenc) /\ ox.a = ox.c /\ ox.a # ox.b
  BY <1>1, <1>2, ReadyOutEmpty
<1>4. ix \in InRegs /\ InOK(ix, incrypt)
  BY <1>1, IdleOK
<1>5. todo \in Seq(OtherInstr) \union Seq(ReadInstr) /\ todo \in Seq(Instr)
  BY <1>1, ProgramsShaken, SubSeqs
<1>6. h \in Window /\ h.in0 = 0 /\ h.in = 0 /\ h.out = 0 /\ h.put = 0
  BY <1>1, IdleOK
<1>7. FragInv
  BY <1>1, <1>5, <1>6 DEF FragInv, Untouched
<1>8. TypeOK
  BY <1>1, <1>3, <1>4, <1>5, <1>6 DEF TypeOK
<1>9. CallInv /\ InputInv /\ OutputInv /\ WindowInv
  BY <1>1, <1>3, <1>4, <1>6 DEF CallInv, InputInv, OutputInv, WindowInv
<1>10. SharedBufferExclusive
  BY <1>1, <1>3 DEF SharedBufferExclusive, InEmpty, OutEmpty, Gathering
<1> QED BY <1>7, <1>8, <1>9, <1>10 DEF IInv

-----------------------------------------------------------------------------
(* The calls of the application and of the transport.                      *)

(* ... and after any later reset.                                          *)
LEMMA ResetInv == ASSUME IInv, Reset PROVE IInv'
<1>1. /\ maxFrag' \in Nat /\ maxFrag' >= 2
  BY DEF Reset, IInv, CallInv, TypeOK
<1>2. /\ iomode' = "INOUT" /\ pc' = "jump"
      /\ ix' = ReadyIn /\ h' = Idle /\ todo' = DoHandshake /\ cnr' \in BOOLEAN
      /\ incrypt' \in BOOLEAN /\ outenc' \in BOOLEAN /\ shutdownRecv' \in BOOLEAN
      /\ action' = 0 /\ appdata' = 0 /\ alert' = 0 /\ rtin' = 0 /\ rtout' = 0 /\ err' = "OK"
  BY DEF Reset
<1>3. ox' = ReadyOut(outenc', maxFrag')
  BY Zenon DEF Reset
<1>4. ox' \in OutRegs /\ OutOK(ox', outenc') /\ ox'.a = ox'.c /\ ox'.a # ox'.b
  BY <1>1, <1>2, <1>3, ReadyOutEmpty
<1>5. ix' \in InRegs /\ InOK(ix', incrypt')
  BY <1>2, IdleOK
<1>6. todo' \in Seq(OtherInstr) \union Seq(ReadInstr) /\ todo' \in Seq(Instr)
  BY <1>2, ProgramsShaken, SubSeqs
<1>7. h' \in Window /\ h'.in0 = 0 /\ h'.in = 0 /\ h'.out = 0 /\ h'.put = 0
  BY <1>2, IdleOK
<1>8. FragInv'
  BY <1>2, <1>6, <1>7 DEF FragInv, Untouched
<1>9. TypeOK'
  BY <1>1, <1>2, <1>4, <1>5, <1>6, <1>7 DEF TypeOK
<1>10. CallInv' /\ InputInv' /\ OutputInv' /\ WindowInv'
  BY <1>1, <1>2, <1>4, <1>5, <1>7 DEF CallInv, InputInv, OutputInv, WindowInv
<1>11. SharedBufferExclusive'
  BY <1>2, <1>4 DEF SharedBufferExclusive, InEmpty, OutEmpty, Gathering
<1> QED BY <1>8, <1>9, <1>10, <1>11 DEF IInv

(* A failed engine keeps the types of its fields, and nothing else.        *)
LEMMA FailInv ==
  ASSUME IInv, NEW e \in {"OK", "ERROR"}, Fail(e),
         ix' \in InRegs, rtin' \in RecTypes \union {0}, incrypt' \in BOOLEAN,
         shutdownRecv' \in BOOLEAN, appdata' \in 0 .. 2, alert' \in 0 .. 2,
         UNCHANGED <<outVars, maxFrag>>
  PROVE  IInv'
<1>1. h' \in Window /\ h'.in0 = 0 /\ h'.in = 0 /\ h'.out = 0 /\ h'.put = 0
  BY IdleOK DEF Fail
<1>2. todo' \in Seq(OtherInstr) /\ todo' \in Seq(Instr)
  BY EmptySeq DEF Fail
<1> iomode' = "FAILED" /\ err' \in {"OK", "ERROR"} /\ pc' = "idle" /\ action' = 0
    /\ cnr' \in BOOLEAN
  BY DEF Fail
<1>3. TypeOK'
  BY <1>1, <1>2 DEF IInv, TypeOK, outVars
<1>4. CallInv' /\ InputInv' /\ OutputInv' /\ WindowInv'
  BY <1>1 DEF IInv, CallInv, InputInv, OutputInv, WindowInv, Fail
<1>5. SharedBufferExclusive' /\ FragInv'
  BY <1>2 DEF SharedBufferExclusive, FragInv, Fail
<1> QED BY <1>3, <1>4, <1>5 DEF IInv

(* An engine that can receive bytes has empty, or separate, output.        *)
LEMMA Listening ==
  ASSUME IInv, Open
  PROVE  /\ h = Idle
         /\ RecvRecLen \in Nat
         /\ RecvRecLen > 0 => /\ Receiving(iomode) /\ ix.a = ix.b /\ ix.a < IBufLen
                              /\ RecvRecLen <= ix.c /\ ix.a + RecvRecLen <= IBufLen
<1>1. h = Idle
  BY DEF IInv, CallInv, Open
<1>2. ix.a \in Nat /\ ix.b \in Nat /\ ix.c \in Nat /\ ix.a <= IBufLen /\ IBufLen \in Nat
  BY BufferAssumption DEF IInv, TypeOK, InRegs, InputInv, InOK, Open
<1> QED BY <1>1, <1>2 DEF RecvRecLen, Least

(* Bytes arrived, with no record complete: a shared buffer is now for input*)
LEMMA RecvInv ==
  ASSUME IInv, Open, Receiving(iomode), NEW i \in InRegs, InOK(i, incrypt),
         ix' = i, iomode' = ModeRecv, rtin' \in RecTypes \union {0},
         pc' \in {"idle", "jump"}, action' \in 0 .. 2,
         UNCHANGED <<err, incrypt, shutdownRecv, outVars, maxFrag, appdata,
                     alert, h, todo, cnr>>
  PROVE  IInv'
<1>1. h = Idle /\ h' = h /\ pc = "idle"
  BY DEF IInv, CallInv, Open
<1>2. iomode' \in {"INOUT", "IN"} /\ (Shared => iomode' = "IN")
  BY DEF ModeRecv, Receiving
<1>3. TypeOK'
  BY <1>1, <1>2 DEF IInv, TypeOK, outVars
<1>4. CallInv' /\ InputInv' /\ OutputInv' /\ WindowInv'
  BY <1>1, <1>2, IdleOK DEF IInv, CallInv, InputInv, OutputInv, WindowInv, Open, outVars
<1>5. SharedBufferExclusive'
  BY <1>2 DEF IInv, SharedBufferExclusive, InEmpty, OutEmpty, Gathering, Receiving, outVars
<1>6. FragInv'
  BY <1>1, IdleOK DEF IInv, FragInv, Untouched, outVars
<1> QED BY <1>3, <1>4, <1>5, <1>6 DEF IInv

(* The incoming record, if any, was used up.                               *)
LEMMA RecvNothingInv ==
  ASSUME IInv, Open, Receiving(iomode),
         ix' = ReadyIn, iomode' = ModeReadyIn(ModeRecv), rtin' \in RecTypes \union {0},
         UNCHANGED <<err, incrypt, shutdownRecv, outVars, maxFrag, appdata,
                     alert, hsVars>>
  PROVE  IInv'
<1>1. h = Idle /\ h' = h /\ pc' = pc /\ pc = "idle"
  BY DEF IInv, CallInv, Open, hsVars
<1>2. iomode' = "INOUT"
  BY DEF ModeRecv, ModeReadyIn, Receiving
<1>3. ix' \in InRegs /\ InOK(ix', incrypt)
  BY IdleOK DEF IInv, TypeOK
<1>4. TypeOK'
  BY <1>2, <1>3 DEF IInv, TypeOK, outVars, hsVars
<1>5. CallInv' /\ InputInv' /\ OutputInv' /\ WindowInv'
  BY <1>1, <1>2, <1>3, IdleOK DEF IInv, CallInv, InputInv, OutputInv, WindowInv, Open, outVars, hsVars
<1>6. SharedBufferExclusive'
  BY <1>2 DEF IInv, SharedBufferExclusive, InEmpty, OutEmpty, Gathering, Receiving, outVars
<1>7. FragInv'
  BY <1>1, IdleOK DEF IInv, FragInv, Untouched, outVars, hsVars
<1> QED BY <1>4, <1>5, <1>6, <1>7 DEF IInv

(* Part of a header was received.                                          *)
LEMMA RecvHeaderPartInv ==
  ASSUME IInv, NEW n \in Nat, n \in Portions(RecvRecLen), RecvHeaderPart(n)
  PROVE  IInv'
<1>1. Open /\ ix.a \in Nat /\ ix.b \in Nat /\ ix.c \in Nat /\ ix.a + n < 5
  BY DEF RecvHeaderPart, IInv, TypeOK, InRegs
<1>2. n > 0 /\ n <= RecvRecLen /\ Receiving(iomode) /\ ix.a = ix.b
  BY <1>1, Listening DEF Portions
<1> DEFINE i == [a |-> ix.a + n, b |-> ix.a + n, c |-> ix.c - n]
<1>3. InOK(ix, incrypt) /\ iomode # "FAILED"
  BY <1>1 DEF IInv, InputInv, Open
<1>4. ix.c = 5 - ix.a
  BY <1>1, <1>2, <1>3 DEF InOK
<1>5. i \in InRegs /\ InOK(i, incrypt)
  BY <1>1, <1>2, <1>4 DEF InRegs, InOK
<1> HIDE DEF i
<1>6. ix' = i /\ iomode' = ModeRecv /\ pc' = pc /\ action' = action /\ rtin' = rtin
  BY DEF RecvHeaderPart, hsVars, i
<1>7. pc = "idle" /\ action \in 0 .. 2 /\ rtin \in RecTypes \union {0}
  BY <1>1 DEF Open, IInv, TypeOK
<1>8. UNCHANGED <<err, incrypt, shutdownRecv, outVars, maxFrag, appdata,
                  alert, h, todo, cnr>>
  BY DEF RecvHeaderPart, hsVars
<1> QED BY <1>1, <1>2, <1>5, <1>6, <1>7, <1>8, RecvInv

(* A header was completed: it fits, or the engine fails.                   *)
LEMMA RecvHeaderInv ==
  ASSUME IInv, NEW type \in RecTypes \union {0}, NEW rlen \in RecLens,
         NEW bad \in BOOLEAN, RecvHeader(type, rlen, bad)
  PROVE  IInv'
<1>1. Open /\ rlen \in Nat /\ ix.a \in Nat
  BY BufferAssumption DEF RecvHeader, IInv, TypeOK, InRegs
<1>2. Receiving(iomode)
  BY <1>1, Listening DEF RecvHeader
<1>3. rtin' \in RecTypes \union {0}
  BY DEF RecvHeader
<1>4. UNCHANGED <<incrypt, shutdownRecv, outVars, maxFrag, appdata, alert>>
  BY DEF RecvHeader
<1>5. /\ incrypt \in BOOLEAN /\ shutdownRecv \in BOOLEAN /\ appdata \in 0 .. 2
      /\ alert \in 0 .. 2 /\ action \in 0 .. 2 /\ pc = "idle"
  BY <1>1 DEF IInv, TypeOK, Open
<1>6. CASE HeaderRefused(rlen, bad)
  <2>1. Fail("ERROR") /\ ix' = [a |-> 5, b |-> 5, c |-> 0]
    BY <1>6 DEF RecvHeader
  <2>2. ix' \in InRegs
    BY <2>1 DEF InRegs
  <2> QED BY <2>1, <2>2, <1>3, <1>4, <1>5, FailInv
<1>7. CASE ~HeaderRefused(rlen, bad) /\ rlen = 0
  <2>1. ix' = ReadyIn /\ iomode' = ModeReadyIn(ModeRecv) /\ UNCHANGED <<err, hsVars>>
    BY <1>7 DEF RecvHeader
  <2> QED BY <2>1, <1>1, <1>2, <1>3, <1>4, RecvNothingInv
<1>8. CASE ~HeaderRefused(rlen, bad) /\ rlen # 0
  <2> DEFINE i == [a |-> 5, b |-> 5, c |-> rlen]
  <2>1. ix' = i /\ iomode' = ModeRecv /\ UNCHANGED <<err, hsVars>>
    BY <1>8 DEF RecvHeader
  <2>2. i \in InRegs /\ InOK(i, incrypt)
    BY <1>1, <1>5, <1>8, BufferAssumption DEF InRegs, InOK, HeaderRefused, CheckLength
  <2> HIDE DEF i
  <2>3. pc' = pc /\ action' = action /\ UNCHANGED <<h, todo, cnr>>
    BY <2>1 DEF hsVars
  <2> QED BY <2>1, <2>2, <2>3, <1>1, <1>2, <1>3, <1>4, <1>5, RecvInv
<1> QED BY <1>6, <1>7, <1>8

(* Part of a protected record was received.                                *)
LEMMA RecvCipherPartInv ==
  ASSUME IInv, NEW n \in Nat, n \in Portions(RecvRecLen), RecvCipherPart(n)
  PROVE  IInv'
<1>1. /\ Open /\ ix.a \in Nat /\ ix.b \in Nat /\ ix.c \in Nat
      /\ ix.a >= 5 /\ incrypt = TRUE /\ n < ix.c
  BY DEF RecvCipherPart, IInv, TypeOK, InRegs
<1>2. n > 0 /\ n <= RecvRecLen /\ Receiving(iomode) /\ ix.a = ix.b
  BY <1>1, Listening DEF Portions
<1> DEFINE i == [a |-> ix.a + n, b |-> ix.a + n, c |-> ix.c - n]
<1>3. InOK(ix, incrypt)
  BY <1>1 DEF IInv, InputInv, Open
<1>4. ix.a + ix.c <= IBufLen /\ ix.a + ix.c >= 5 + InPre + InPost
  BY <1>1, <1>2, <1>3 DEF InOK
<1>5. i \in InRegs /\ InOK(i, incrypt)
  BY <1>1, <1>2, <1>4, BufferAssumption DEF InRegs, InOK
<1> HIDE DEF i
<1>6. ix' = i /\ iomode' = ModeRecv /\ pc' = pc /\ action' = action /\ rtin' = rtin
  BY DEF RecvCipherPart, hsVars, i
<1>7. pc = "idle" /\ action \in 0 .. 2 /\ rtin \in RecTypes \union {0}
  BY <1>1 DEF Open, IInv, TypeOK
<1>8. UNCHANGED <<err, incrypt, shutdownRecv, outVars, maxFrag, appdata,
                  alert, h, todo, cnr>>
  BY DEF RecvCipherPart, hsVars
<1> QED BY <1>1, <1>2, <1>5, <1>6, <1>7, <1>8, RecvInv

(* Payload that is to be read: by the coroutine, by the application, or by *)
(* nobody.                                                                 *)
LEMMA DeliverInv ==
  ASSUME IInv, Open, Receiving(iomode), NEW i \in InRegs, InOK(i, incrypt),
         i.a < i.b, Deliver(i),
         UNCHANGED <<rtin, incrypt, shutdownRecv, outVars, maxFrag, appdata, alert>>
  PROVE  IInv'
<1>1. /\ incrypt \in BOOLEAN /\ shutdownRecv \in BOOLEAN /\ appdata \in 0 .. 2
      /\ alert \in 0 .. 2 /\ action \in 0 .. 2 /\ pc = "idle" /\ rtin \in RecTypes \union {0}
  BY DEF IInv, TypeOK, Open
<1>2. CASE Fail("ERROR") /\ ix' = i
  BY <1>1, <1>2, FailInv
<1>3. CASE ix' = ReadyIn /\ iomode' = ModeReadyIn(ModeRecv) /\ UNCHANGED <<err, hsVars>>
  BY <1>1, <1>3, RecvNothingInv
<1>4. CASE ix' = i /\ iomode' = ModeRecv /\ (UNCHANGED <<err, hsVars>> \/ (Jump(0) /\ UNCHANGED err))
  <2>1. /\ pc' \in {"idle", "jump"} /\ action' \in 0 .. 2 /\ UNCHANGED <<err, h, todo, cnr>>
    BY <1>1, <1>4 DEF hsVars, Jump
  <2> QED BY <1>1, <1>4, <2>1, RecvInv
<1>5. CASE ix' = AckIn(i, i.b - i.a) /\ iomode' = AckInMode(i, i.b - i.a, ModeRecv)
           /\ UNCHANGED <<err, hsVars>>
  <2>1. i.a \in Nat /\ i.b \in Nat /\ i.c \in Nat /\ i.a + (i.b - i.a) = i.b
    BY DEF InRegs
  <2>2. CASE i.c = 0
    BY <1>3, <1>5, <2>1, <2>2 DEF AckIn, AckInMode
  <2>3. CASE i.c # 0
    <3> DEFINE j == [a |-> 5, b |-> 5, c |-> i.c]
    <3>1. AckIn(i, i.b - i.a) = j
      BY <2>1, <2>3 DEF AckIn, InRegs
    <3>4. iomode' = ModeRecv
      BY <1>5, <2>3 DEF AckInMode
    <3>2. j \in InRegs /\ InOK(j, incrypt)
      <4>1. incrypt = FALSE
        BY <1>1, <2>1, <2>3 DEF InOK
      <4> QED BY <4>1, <2>1, <2>3 DEF InRegs, InOK
    <3> HIDE DEF j
    <3>3. pc' \in {"idle", "jump"} /\ action' \in 0 .. 2 /\ UNCHANGED <<err, h, todo, cnr>>
      BY <1>1, <1>5 DEF hsVars
    <3> QED BY <1>1, <1>5, <3>1, <3>2, <3>3, <3>4, RecvInv
  <2> QED BY <2>2, <2>3
<1> QED BY <1>2, <1>3, <1>4, <1>5 DEF Deliver

(* Clear bytes are delivered at once.                                      *)
LEMMA RecvClearInv ==
  ASSUME IInv, NEW n \in Nat, n \in Portions(RecvRecLen), RecvClear(n)
  PROVE  IInv'
<1>1. /\ Open /\ ix.a \in Nat /\ ix.b \in Nat /\ ix.c \in Nat
      /\ ix.a >= 5 /\ incrypt = FALSE
  BY DEF RecvClear, IInv, TypeOK, InRegs
<1>2. /\ n > 0 /\ n <= RecvRecLen /\ Receiving(iomode) /\ ix.a = ix.b
      /\ n <= ix.c /\ ix.a + n <= IBufLen
  BY <1>1, Listening, BufferAssumption DEF Portions
<1> DEFINE i == [a |-> 5, b |-> ix.a + n, c |-> ix.c - n]
<1>3. i \in InRegs /\ InOK(i, incrypt) /\ i.a < i.b
  BY <1>1, <1>2, BufferAssumption DEF InRegs, InOK
<1> HIDE DEF i
<1>4. Deliver(i)
  BY DEF RecvClear, i
<1>5. UNCHANGED <<rtin, incrypt, shutdownRecv, outVars, maxFrag, appdata, alert>>
  BY DEF RecvClear
<1> QED BY <1>1, <1>2, <1>3, <1>4, <1>5, DeliverInv

(* A protected record was completed and decrypted in place.                *)
LEMMA RecvCipherEndInv ==
  ASSUME IInv, NEW bad \in BOOLEAN, RecvCipherEnd(bad)
  PROVE  IInv'
<1>1. /\ Open /\ ix.a \in Nat /\ ix.b \in Nat /\ ix.c \in Nat
      /\ ix.a >= 5 /\ incrypt = TRUE /\ ix.c > 0 /\ ix.c \in 1 .. RecvRecLen
  BY DEF RecvCipherEnd, IInv, TypeOK, InRegs
<1>2. Receiving(iomode) /\ ix.a = ix.b
  BY <1>1, Listening
<1>3. InOK(ix, incrypt)
  BY <1>1 DEF IInv, InputInv, Open
<1>4. ix.a + ix.c <= IBufLen /\ ix.a + ix.c >= 5 + InPre + InPost
  BY <1>1, <1>2, <1>3 DEF InOK
<1> DEFINE len == ix.a + ix.c - 5 - InPre - InPost
           i == [a |-> 5 + InPre, b |-> 5 + InPre + len, c |-> 0]
<1>5. len \in Nat /\ i \in InRegs
  BY <1>1, <1>4, BufferAssumption DEF InRegs
<1>6. len # 0 => InOK(i, incrypt) /\ i.a < i.b
  BY <1>1, <1>4, <1>5, BufferAssumption DEF InOK
<1>7. UNCHANGED <<rtin, incrypt, shutdownRecv, outVars, maxFrag, appdata, alert>>
  BY DEF RecvCipherEnd
<1>8. \/ Fail("ERROR") /\ ix' = i
      \/ ix' = ReadyIn /\ iomode' = ModeReadyIn(ModeRecv) /\ UNCHANGED <<err, hsVars>>
      \/ len # 0 /\ Deliver(i)
  BY DEF RecvCipherEnd
<1> HIDE DEF len, i
<1>9. /\ incrypt \in BOOLEAN /\ shutdownRecv \in BOOLEAN /\ appdata \in 0 .. 2
      /\ alert \in 0 .. 2 /\ rtin \in RecTypes \union {0}
  BY DEF IInv, TypeOK
<1>10. CASE Fail("ERROR") /\ ix' = i
  BY <1>5, <1>7, <1>9, <1>10, FailInv
<1>11. CASE ix' = ReadyIn /\ iomode' = ModeReadyIn(ModeRecv) /\ UNCHANGED <<err, hsVars>>
  BY <1>1, <1>2, <1>7, <1>9, <1>11, RecvNothingInv
<1>12. CASE len # 0 /\ Deliver(i)
  BY <1>1, <1>2, <1>5, <1>6, <1>7, <1>12, DeliverInv
<1> QED BY <1>8, <1>10, <1>11, <1>12

(* The output registers move, and the mode with them, between two calls.   *)
LEMMA SendInv ==
  ASSUME IInv, Open, NEW o \in OutRegs, OutOK(o, outenc), ox' = o,
         iomode' \in {"INOUT", "IN", "OUT"},
         Shared => /\ iomode' \in {"INOUT", "OUT"} => InEmpty
                   /\ iomode' \in {"INOUT", "IN"} => o.a # o.b /\ o.a = o.c,
         pc' \in {"idle", "jump"}, action' \in 0 .. 2,
         UNCHANGED <<err, inVars, rtout, outenc, maxFrag, appdata, alert, h, todo, cnr>>
  PROVE  IInv'
<1>1. h = Idle /\ h' = h /\ pc = "idle"
  BY DEF IInv, CallInv, Open
<1>2. TypeOK'
  BY <1>1 DEF IInv, TypeOK, inVars
<1>3. CallInv' /\ InputInv' /\ OutputInv' /\ WindowInv'
  BY <1>1, IdleOK DEF IInv, CallInv, InputInv, OutputInv, WindowInv, Open, inVars
<1>4. SharedBufferExclusive'
  BY DEF IInv, SharedBufferExclusive, InEmpty, OutEmpty, Gathering, inVars
<1>5. FragInv'
  BY <1>1, IdleOK DEF IInv, FragInv, Untouched
<1> QED BY <1>2, <1>3, <1>4, <1>5 DEF IInv

(* Bytes of the sealed record were sent.                                   *)
LEMMA SendRecAckInv ==
  ASSUME IInv, NEW n \in Nat, n \in Portions(SendRecLen), SendRecAck(n)
  PROVE  IInv'
<1>1. /\ Open /\ ox \in OutRegs /\ ox.a \in Nat /\ ox.b \in Nat /\ ox.c \in Nat
      /\ outenc \in BOOLEAN /\ maxFrag \in Nat /\ maxFrag >= 2 /\ action \in 0 .. 2
  BY DEF SendRecAck, IInv, TypeOK, CallInv, OutRegs
<1>2. SendRecLen \in Nat /\ n > 0 /\ n <= SendRecLen
  BY <1>1 DEF Portions, SendRecLen
<1>3. iomode \in {"OUT", "INOUT"} /\ ox.c > ox.a /\ ox.a + n <= ox.c
  BY <1>1, <1>2 DEF SendRecLen
<1>4. SealedOK(ox)
  BY <1>1, <1>3, BufferAssumption DEF IInv, OutputInv, OutOK, OpenOK, Open
<1>5. Shared => iomode = "OUT" /\ InEmpty
  BY <1>1, <1>3 DEF IInv, SharedBufferExclusive, OutEmpty
<1>6. /\ UNCHANGED <<err, inVars, rtout, outenc, maxFrag, appdata, alert, h, todo, cnr>>
      /\ pc' \in {"idle", "jump"} /\ action' \in 0 .. 2
  BY <1>1 DEF SendRecAck, Jump, hsVars, Open
<1>7. CASE ox.a + n = ox.c
  <2> DEFINE o == ReadyOut(outenc, maxFrag)
  <2>1. ox' = o /\ iomode' = ModeReadyOut(iomode)
    BY <1>7 DEF SendRecAck
  <2>2. iomode' = "INOUT"
    BY <1>3, <2>1 DEF ModeReadyOut
  <2>3. o \in OutRegs /\ OutOK(o, outenc) /\ o.a = o.c /\ o.a # o.b
    BY <1>1, ReadyOutEmpty
  <2> HIDE DEF o
  <2> QED BY <1>1, <1>5, <1>6, <2>1, <2>2, <2>3, SendInv
<1>8. CASE ox.a + n # ox.c
  <2> DEFINE x == ox.a + n
             o == Move(ox, x, x)
  <2>1. ox' = o /\ iomode' = iomode
    BY <1>8 DEF SendRecAck
  <2>2. x \in Nat /\ x < ox.c
    BY <1>1, <1>3, <1>8
  <2>3. o \in OutRegs /\ o.a = x /\ o.b = x /\ o.c = ox.c
    <3> HIDE DEF x
    <3> QED BY <1>1, <2>2, MoveOK
  <2> HIDE DEF x, o
  <2>4. OutOK(o, outenc)
    BY <1>1, <1>4, <2>2, <2>3 DEF OutOK, SealedOK
  <2> QED BY <1>1, <1>3, <1>5, <1>6, <2>1, <2>3, <2>4, SendInv
<1> QED BY <1>7, <1>8

(* The application added data to the open record.                          *)
LEMMA SendAppAckInv ==
  ASSUME IInv, NEW n \in Nat, SendAppAck(n)
  PROVE  IInv'
<1>1. /\ Open /\ ox \in OutRegs /\ ox.a \in Nat /\ ox.b \in Nat /\ ox.c \in Nat
      /\ outenc \in BOOLEAN /\ rtout \in RecTypes \union {0} /\ action \in 0 .. 2
  BY DEF SendAppAck, IInv, TypeOK, OutRegs
<1>2. n > 0 /\ n <= ox.b - ox.a /\ iomode \in {"OUT", "INOUT"}
  BY <1>1 DEF SendAppAck, SendAppLen, SendPldLen
<1>3. OpenOK(ox, outenc)
  BY <1>1, <1>2 DEF IInv, OutputInv, OutOK, SealedOK, Open
<1> DEFINE w == Written(ox, APPDATA, outenc)
           o == AckOut(w, n, rtout, outenc)
<1>4. w \in OutRegs /\ w.a = ox.a /\ w.b = ox.b /\ w.c = ox.c
  BY <1>1, WrittenOK DEF RecTypes
<1>5. OpenOK(w, outenc) /\ w.a + n <= w.b
  <2> HIDE DEF w
  <2> QED BY <1>1, <1>2, <1>3, <1>4 DEF OpenOK
<1>6. o \in OutRegs /\ OutOK(o, outenc)
  <2> HIDE DEF w
  <2> QED BY <1>1, <1>2, <1>4, <1>5, AckOutOK
<1>7. ox' = o /\ iomode' = AckOutMode(iomode)
  BY DEF SendAppAck
<1>8. /\ UNCHANGED <<err, inVars, rtout, outenc, maxFrag, appdata, alert, h, todo, cnr>>
      /\ pc' \in {"idle", "jump"} /\ action' \in 0 .. 2
  BY <1>1 DEF SendAppAck, hsVars, Open
<1> HIDE DEF w, o
<1>9. /\ iomode' \in {"INOUT", "OUT"}
      /\ Shared => iomode' = "OUT" /\ InEmpty
  BY <1>2, <1>7 DEF AckOutMode, IInv, SharedBufferExclusive
<1> QED BY <1>1, <1>6, <1>7, <1>8, <1>9, SendInv

(* A flush that forces nothing in a shared buffer.                         *)
LEMMA FlushInv ==
  ASSUME Shared => Forces \subseteq {FALSE},
         IInv, NEW force \in Forces, Flush(force)
  PROVE  IInv'
<1>1. /\ Open /\ ox \in OutRegs /\ outenc \in BOOLEAN /\ rtout \in RecTypes \union {0}
      /\ force \in BOOLEAN /\ action \in 0 .. 2 /\ OutOK(ox, outenc)
      /\ iomode \in {"INOUT", "IN", "OUT"}
  BY BufferAssumption DEF Flush, IInv, TypeOK, OutputInv, Open
<1> DEFINE o == Seal(ox, rtout, outenc, force)
<1>2. o \in OutRegs /\ OutOK(o, outenc) /\ (ox.a = ox.c /\ ~force => o = ox)
  BY <1>1, SealOK
<1>3. ox' = o /\ iomode' = iomode
  BY DEF Flush
<1>4. /\ UNCHANGED <<err, inVars, rtout, outenc, maxFrag, appdata, alert, h, todo, cnr>>
      /\ pc' \in {"idle", "jump"} /\ action' \in 0 .. 2
  BY <1>1 DEF Flush, hsVars, Open
<1>5. Shared => /\ iomode \in {"INOUT", "OUT"} => InEmpty
                /\ iomode \in {"INOUT", "IN"} => o.a # o.b /\ o.a = o.c
  <2> HIDE DEF o
  <2> QED BY <1>2 DEF IInv, SharedBufferExclusive, OutEmpty, Gathering
<1> HIDE DEF o
<1> QED BY <1>1, <1>2, <1>3, <1>4, <1>5, SendInv

(* Payload was consumed from a record: where the registers and the mode    *)
(* end up, used between calls and when the coroutine has yielded.          *)
LEMMA TakeOK ==
  ASSUME TypeOK, InputInv, SharedBufferExclusive, iomode # "FAILED",
         NEW n \in Nat, n > 0, Receiving(iomode), ix.a + n <= ix.b
  PROVE  /\ AckIn(ix, n) \in InRegs /\ InOK(AckIn(ix, n), incrypt)
         /\ AckInMode(ix, n, iomode) \in {"INOUT", "IN"}
         /\ Shared => /\ iomode = "IN" /\ OutEmpty
                      /\ AckInMode(ix, n, iomode) = "INOUT" => AckIn(ix, n) = ReadyIn
<1>1. /\ ix \in InRegs /\ incrypt \in BOOLEAN /\ InOK(ix, incrypt)
      /\ ix.a \in Nat /\ ix.b \in Nat /\ ix.c \in Nat
  BY DEF TypeOK, InputInv, InRegs
<1>2. AckIn(ix, n) \in InRegs /\ InOK(AckIn(ix, n), incrypt)
  BY <1>1, AckInOK
<1>3. ix # ReadyIn
  BY <1>1 DEF ReadyIn
<1>4. Shared => iomode = "IN" /\ OutEmpty
  BY <1>3 DEF SharedBufferExclusive, InEmpty, Receiving
<1>5. AckInMode(ix, n, iomode) \in {"INOUT", "IN"}
  BY DEF AckInMode, ModeReadyIn, Receiving
<1>6. ix.a + n = ix.b /\ ix.c = 0 => AckIn(ix, n) = ReadyIn
  BY DEF AckIn
<1>7. ~(ix.a + n = ix.b /\ ix.c = 0) => AckInMode(ix, n, iomode) = iomode
  BY DEF AckInMode
<1> QED BY <1>2, <1>4, <1>5, <1>6, <1>7

(* Payload was taken between two calls.                                    *)
LEMMA TakeInv ==
  ASSUME IInv, Open, NEW n \in Nat, n > 0, Receiving(iomode), ix.a + n <= ix.b,
         ix' = AckIn(ix, n), iomode' = AckInMode(ix, n, iomode),
         pc' \in {"idle", "jump"}, action' \in 0 .. 2,
         UNCHANGED <<err, rtin, incrypt, shutdownRecv, outVars, maxFrag, appdata,
                     alert, h, todo, cnr>>
  PROVE  IInv'
<1>1. h = Idle /\ h' = h /\ pc = "idle" /\ iomode # "FAILED"
  BY DEF IInv, CallInv, Open
<1>2. /\ ix' \in InRegs /\ InOK(ix', incrypt) /\ iomode' \in {"INOUT", "IN"}
      /\ Shared => iomode = "IN" /\ OutEmpty /\ (iomode' = "INOUT" => ix' = ReadyIn)
  BY <1>1, TakeOK DEF IInv
<1>3. TypeOK'
  BY <1>1, <1>2 DEF IInv, TypeOK, outVars
<1>4. CallInv' /\ InputInv' /\ OutputInv' /\ WindowInv'
  BY <1>1, <1>2, IdleOK DEF IInv, CallInv, InputInv, OutputInv, WindowInv, Open, outVars
<1>5. SharedBufferExclusive'
  BY <1>2 DEF SharedBufferExclusive, InEmpty, OutEmpty, Gathering, outVars
<1>6. FragInv'
  BY <1>1, IdleOK DEF IInv, FragInv, Untouched, outVars
<1> QED BY <1>3, <1>4, <1>5, <1>6 DEF IInv

(* What the application may read lies in the buffer.                       *)
LEMMA ReadableOK ==
  ASSUME TypeOK
  PROVE  /\ RecvPldLen(iomode, ix) \in Int
         /\ RecvPldLen(iomode, ix) > 0 => /\ Receiving(iomode)
                                          /\ ix.a + RecvPldLen(iomode, ix) = ix.b
BY DEF TypeOK, InRegs, RecvPldLen

(* The application read data.                                              *)
LEMMA RecvAppAckInv ==
  ASSUME IInv, NEW n \in Nat, RecvAppAck(n)
  PROVE  IInv'
<1>1. /\ Open /\ n > 0 /\ n <= RecvPldLen(iomode, ix) /\ RecvPldLen(iomode, ix) > 0
      /\ action \in 0 .. 2 /\ ix.a \in Nat
  BY ReadableOK DEF RecvAppAck, RecvAppLen, IInv, TypeOK, InRegs
<1>2. Receiving(iomode) /\ ix.a + n <= ix.b
  BY <1>1, ReadableOK DEF IInv
<1>3. /\ ix' = AckIn(ix, n) /\ iomode' = AckInMode(ix, n, iomode)
      /\ pc' \in {"idle", "jump"} /\ action' \in 0 .. 2
      /\ UNCHANGED <<err, rtin, incrypt, shutdownRecv, outVars, maxFrag, appdata,
                     alert, h, todo, cnr>>
  BY <1>1 DEF RecvAppAck, hsVars, Open
<1> QED BY <1>1, <1>2, <1>3, TakeInv

(* Passing control to the coroutine changes no register.                   *)
LEMMA JumpInv ==
  ASSUME IInv, Open, pc' = "jump", action' \in 0 .. 2,
         UNCHANGED <<iomode, err, inVars, outVars, maxFrag, appdata, alert, h, todo, cnr>>
  PROVE  IInv'
<1>1. TypeOK'
  BY DEF IInv, TypeOK, inVars, outVars
<1>2. CallInv' /\ InputInv' /\ OutputInv' /\ WindowInv'
  BY DEF IInv, CallInv, InputInv, OutputInv, WindowInv, Open, inVars, outVars
<1>3. SharedBufferExclusive' /\ FragInv'
  BY DEF IInv, SharedBufferExclusive, InEmpty, OutEmpty, Gathering, FragInv, Untouched,
         inVars, outVars
<1> QED BY <1>1, <1>2, <1>3 DEF IInv

(* br_ssl_engine_close drops what was unread, and jumps.                   *)
LEMMA CloseInv == ASSUME IInv, Close PROVE IInv'
<1>1. Open /\ ix.a \in Nat
  BY DEF Close, IInv, TypeOK, InRegs
<1>2. /\ pc' = "jump" /\ action' \in 0 .. 2
      /\ UNCHANGED <<err, rtin, incrypt, shutdownRecv, outVars, maxFrag, appdata,
                     alert, h, todo, cnr>>
  BY DEF Close, Jump
<1>3. CASE RecvAppLen > 0
  <2> DEFINE n == RecvAppLen
  <2>1. n = RecvPldLen(iomode, ix)
    BY <1>3 DEF RecvAppLen
  <2>2. n \in Nat /\ n > 0 /\ Receiving(iomode) /\ ix.a + n = ix.b
    BY <1>1, <1>3, <2>1, ReadableOK DEF IInv
  <2>3. ix' = AckIn(ix, n) /\ iomode' = AckInMode(ix, n, iomode)
    BY <1>3 DEF Close
  <2>4. ix.a + n <= ix.b
    BY <1>1, <2>2
  <2> HIDE DEF n
  <2> QED BY <1>1, <1>2, <2>2, <2>3, <2>4, TakeInv
<1>4. CASE ~(RecvAppLen > 0)
  <2>1. UNCHANGED <<iomode, err, inVars, outVars, maxFrag, appdata, alert, h, todo, cnr>>
    BY <1>2, <1>4 DEF Close, inVars
  <2> QED BY <1>1, <1>2, <2>1, JumpInv
<1> QED BY <1>3, <1>4

(* br_ssl_engine_renegotiate only jumps.                                   *)
LEMMA RenegotiateInv == ASSUME IInv, Renegotiate PROVE IInv'
<1>1. /\ Open /\ pc' = "jump" /\ action' \in 0 .. 2
      /\ UNCHANGED <<iomode, err, inVars, outVars, maxFrag, appdata, alert, h, todo, cnr>>
  BY DEF Renegotiate, Jump
<1> QED BY <1>1, JumpInv

-----------------------------------------------------------------------------
(* The coroutine is entered, and has yielded.                              *)

(* The windows given to the coroutine lie in the buffers.                  *)
LEMMA HsEnterInv == ASSUME IInv, HsEnter PROVE IInv'
<1>1. /\ pc = "jump" /\ pc' = "resume"
      /\ UNCHANGED <<iomode, err, inVars, outVars, maxFrag, appdata, alert,
                     action, todo, cnr>>
  BY DEF HsEnter
<1> DEFINE in == IF rtin = APPDATA THEN 0 ELSE RecvPldLen(iomode, ix)
           out == IF HasPld(ox) THEN 0 ELSE SendPldLen(iomode, ox)
<1>2. h' = [in0 |-> in, in |-> in, out |-> out, put |-> 0]
  BY DEF HsEnter
<1>3. iomode # "FAILED" /\ OutOK(ox, outenc) /\ InOK(ix, incrypt)
  BY <1>1 DEF IInv, CallInv, InputInv, OutputInv
<1>4. /\ ix.a \in Nat /\ ix.b \in Nat /\ ox.a \in Nat /\ ox.b \in Nat /\ ox.c \in Nat
      /\ ix.a <= ix.b
  BY <1>3 DEF InOK, IInv, TypeOK, InRegs, OutRegs
<1>5. /\ in \in Nat
      /\ in > 0 => Receiving(iomode) /\ ix.a + in = ix.b
  BY <1>4 DEF RecvPldLen
<1>6. ox.a <= ox.b
  BY <1>3, <1>4, BufferAssumption DEF OutOK, OpenOK, SealedOK
<1>7. /\ out \in Nat
      /\ out > 0 => /\ iomode \in {"OUT", "INOUT"} /\ ox.a < ox.b /\ ox.a + out = ox.b
                    /\ ox.a = ox.c
  BY <1>4, <1>6 DEF SendPldLen, HasPld
<1> HIDE DEF in, out
<1>8. h' \in Window /\ h'.in0 = in /\ h'.in = in /\ h'.out = out /\ h'.put = 0
  BY <1>2, <1>5, <1>7 DEF Window
<1>9. TypeOK'
  BY <1>1, <1>8 DEF IInv, TypeOK, inVars, outVars
<1>10. CallInv' /\ InputInv' /\ OutputInv' /\ SharedBufferExclusive'
  BY <1>1, <1>3 DEF IInv, CallInv, InputInv, OutputInv, SharedBufferExclusive, InEmpty,
                    OutEmpty, Gathering, inVars, outVars
<1>11. WindowInv'
  BY <1>1, <1>4, <1>5, <1>7, <1>8 DEF WindowInv, inVars, outVars
<1>12. Untouched'
  BY <1>1, <1>7, <1>8 DEF Untouched, outVars
<1>13. FragInv'
  BY <1>1, <1>12 DEF IInv, FragInv
<1> QED BY <1>9, <1>10, <1>11, <1>13 DEF IInv

(* What the coroutine wrote and read is accounted for.                     *)
LEMMA HsReturnInv == ASSUME IInv, HsReturn PROVE IInv'
<1> DEFINE n == h.in0 - h.in
           put == h.put
           o == IF put > 0 THEN AckOut(ox, put, rtout, outenc) ELSE ox
           mode == IF put > 0 THEN AckOutMode(iomode) ELSE iomode
<1>1. /\ pc = "yield" /\ pc' \in {"jump", "idle"} /\ action' = 0 /\ h' = Idle
      /\ UNCHANGED <<err, rtin, incrypt, shutdownRecv, rtout, outenc, maxFrag,
                     appdata, alert, todo, cnr>>
      /\ ox' = o
      /\ n > 0 => ix' = AckIn(ix, n) /\ iomode' = AckInMode(ix, n, mode)
      /\ ~(n > 0) => ix' = ix /\ iomode' = mode
  BY DEF HsReturn
<1>2. /\ TypeOK /\ InputInv /\ OutputInv /\ SharedBufferExclusive /\ iomode # "FAILED"
      /\ InOK(ix, incrypt) /\ OutOK(ox, outenc) /\ WindowInv /\ CallInv
  BY <1>1 DEF IInv, CallInv, InputInv, OutputInv
<1>3. /\ h.in0 \in Nat /\ h.in \in Nat /\ h.out \in Nat /\ put \in Nat
      /\ ix \in InRegs /\ ix.a \in Nat /\ ix.b \in Nat /\ ix.c \in Nat
      /\ ox \in OutRegs /\ ox.a \in Nat /\ ox.b \in Nat /\ ox.c \in Nat
      /\ outenc \in BOOLEAN /\ incrypt \in BOOLEAN /\ rtout \in RecTypes \union {0}
  BY <1>2 DEF TypeOK, Window, InRegs, OutRegs
<1>4. put > 0 => /\ iomode \in {"OUT", "INOUT"} /\ ox.a < ox.b /\ ox.a + put <= ox.b
                 /\ OpenOK(ox, outenc)
  BY <1>2, <1>3 DEF WindowInv, OutOK, SealedOK
<1>5. o \in OutRegs /\ OutOK(o, outenc)
  <2>1. CASE put > 0
    <3> HIDE DEF put
    <3> QED BY <1>3, <1>4, <2>1, AckOutOK
  <2>2. CASE ~(put > 0)
    BY <1>2, <1>3, <2>2
  <2> QED BY <2>1, <2>2
<1>6. n \in Nat /\ (n > 0 => Receiving(iomode) /\ ix.a + n <= ix.b)
  BY <1>2, <1>3 DEF WindowInv
<1>7. Shared /\ put > 0 => n = 0 /\ mode = "OUT" /\ InEmpty
  <2> SUFFICES ASSUME Shared, put > 0 PROVE n = 0 /\ mode = "OUT" /\ InEmpty
    OBVIOUS
  <2>1. InEmpty
    BY <1>2, <1>4 DEF SharedBufferExclusive
  <2>2. mode = "OUT"
    BY <1>4 DEF AckOutMode
  <2>3. ix.a = ix.b
    BY <2>1 DEF InEmpty, ReadyIn
  <2> QED BY <1>3, <1>6, <2>1, <2>2, <2>3
<1>8. ~(Shared /\ put > 0) => mode = iomode
  BY DEF AckOutMode
<1>9. ~(put > 0) => o = ox
  OBVIOUS
<1> HIDE DEF n, put, o, mode
<1>10. /\ ix' \in InRegs /\ InOK(ix', incrypt) /\ iomode' \in {"INOUT", "IN", "OUT"}
       /\ Shared => /\ iomode' \in {"INOUT", "OUT"} => ix' = ReadyIn
                    /\ iomode' \in {"INOUT", "IN"} => o.a # o.b /\ o.a = o.c
  <2>1. CASE Shared /\ put > 0
    BY <1>1, <1>2, <1>3, <1>7, <2>1 DEF InEmpty
  <2>2. CASE ~(Shared /\ put > 0) /\ n > 0
    <3>1. /\ AckIn(ix, n) \in InRegs /\ InOK(AckIn(ix, n), incrypt)
          /\ AckInMode(ix, n, iomode) \in {"INOUT", "IN"}
          /\ Shared => /\ iomode = "IN" /\ OutEmpty
                       /\ AckInMode(ix, n, iomode) = "INOUT" => AckIn(ix, n) = ReadyIn
      BY <1>2, <1>6, <2>2, TakeOK
    <3> QED BY <1>1, <1>3, <1>8, <1>9, <2>2, <3>1 DEF OutEmpty, Gathering
  <2>3. CASE ~(Shared /\ put > 0) /\ ~(n > 0)
    BY <1>1, <1>2, <1>3, <1>8, <1>9, <2>3
       DEF SharedBufferExclusive, InEmpty, OutEmpty, Gathering, TypeOK
  <2> QED BY <2>1, <2>2, <2>3
<1>11. TypeOK'
  BY <1>1, <1>2, <1>5, <1>10, IdleOK DEF TypeOK
<1>12. CallInv' /\ InputInv' /\ OutputInv' /\ WindowInv'
  BY <1>1, <1>2, <1>5, <1>10, IdleOK DEF CallInv, InputInv, OutputInv, WindowInv
<1>13. SharedBufferExclusive'
  BY <1>1, <1>10 DEF SharedBufferExclusive, InEmpty, OutEmpty, Gathering
<1>14. FragInv'
  <2>1. h'.put = 0 /\ h'.out = 0
    BY <1>1, IdleOK
  <2> QED BY <1>1, <2>1 DEF IInv, FragInv, Untouched
<1> QED BY <1>11, <1>12, <1>13, <1>14 DEF IInv

-----------------------------------------------------------------------------
(* The coroutine: steps that neither write nor touch the registers.        *)

(* A step that moves no register, and shortens the windows at most.        *)
LEMMA QuietInv ==
  ASSUME IInv, pc # "idle", pc # "jump", pc' \in {"run", "alerts", "yield"},
         pc' = "alerts" => Untouched,
         h' \in Window, h'.in0 = h.in0, h'.in <= h.in, h'.out = h.out, h'.put = h.put,
         Left(todo'),
         shutdownRecv' \in BOOLEAN, rtout' \in RecTypes \union {0},
         appdata' \in 0 .. 2, alert' \in 0 .. 2, cnr' \in BOOLEAN,
         UNCHANGED <<iomode, err, ix, rtin, incrypt, ox, outenc, maxFrag, action>>
  PROVE  IInv'
<1>1. h \in Window /\ h.in0 \in Nat /\ h.in \in Nat /\ h.out \in Nat /\ h.put \in Nat
  BY DEF IInv, TypeOK, Window
<1>2. h'.in \in Nat
  BY DEF Window
<1>3. Untouched' <=> Untouched
  BY DEF Untouched
<1>4. todo' \in Seq(Instr)
  BY LeftIsProgram
<1>5. TypeOK'
  BY <1>4 DEF IInv, TypeOK
<1>6. iomode # "FAILED"
  BY DEF IInv, CallInv
<1>7. CallInv' /\ InputInv' /\ OutputInv' /\ SharedBufferExclusive'
  BY <1>6 DEF IInv, CallInv, InputInv, OutputInv, SharedBufferExclusive, InEmpty,
              OutEmpty, Gathering
<1>8. WindowInv'
  BY <1>1, <1>2 DEF IInv, WindowInv
<1>9. FragInv'
  BY <1>3 DEF FragInv, Left
<1> QED BY <1>5, <1>7, <1>8, <1>9 DEF IInv

(* ... nor read.                                                           *)
LEMMA StillInv ==
  ASSUME IInv, pc # "idle", pc # "jump", pc' \in {"run", "alerts", "yield"},
         pc' = "alerts" => Untouched, h' = h, Left(todo'),
         shutdownRecv' \in BOOLEAN, rtout' \in RecTypes \union {0},
         appdata' \in 0 .. 2, alert' \in 0 .. 2, cnr' \in BOOLEAN,
         UNCHANGED <<iomode, err, ix, rtin, incrypt, ox, outenc, maxFrag, action>>
  PROVE  IInv'
<1>1. h \in Window /\ h.in \in Nat
  BY DEF IInv, TypeOK, Window
<1>2. /\ h' \in Window /\ h'.in0 = h.in0 /\ h'.in <= h.in
      /\ h'.out = h.out /\ h'.put = h.put
  BY <1>1
<1> QED BY <1>2, QuietInv

(* Bytes that can be read were offered at the jump.                        *)
LEMMA InWindow ==
  ASSUME IInv, NEW in \in Nat, in <= h.in, h' = [h EXCEPT !.in = in]
  PROVE  /\ h' \in Window /\ h'.in0 = h.in0 /\ h'.in <= h.in
         /\ h'.out = h.out /\ h'.put = h.put
<1>1. h \in Window
  BY DEF IInv, TypeOK
<1> QED BY <1>1 DEF Window

(* The fields that HsSet, HsAlertByte and their like may write.            *)
LEMMA Flags ==
  ASSUME IInv
  PROVE  /\ shutdownRecv \in BOOLEAN /\ rtout \in RecTypes \union {0}
         /\ appdata \in 0 .. 2 /\ alert \in 0 .. 2 /\ cnr \in BOOLEAN
         /\ action \in 0 .. 2 /\ rtin \in RecTypes \union {0} /\ incrypt \in BOOLEAN
         /\ ix \in InRegs /\ h.in \in Nat /\ Left(todo)
         /\ pc \in {"resume", "alerts"} => Untouched
BY DEF IInv, TypeOK, Window, FragInv, Left

(* A close enters do-close.                                                *)
LEMMA HsCloseInv == ASSUME IInv, HsClose PROVE IInv'
<1>1. /\ pc = "resume" /\ pc' = "run" /\ todo' = DoClose /\ cnr' \in BOOLEAN
      /\ UNCHANGED <<iomode, err, inVars, outVars, maxFrag, alert, action, h>>
  BY DEF HsClose, StartClose
<1>2. appdata' \in 0 .. 2
  BY DEF HsClose, StartClose
<1>3. Left(todo')
  BY <1>1, ProgramsOther DEF Left
<1> QED BY <1>1, <1>2, <1>3, Flags, StillInv DEF inVars, outVars

(* Alert bytes are about to be processed.                                  *)
LEMMA HsAlertsInv == ASSUME IInv, HsAlerts PROVE IInv'
<1>1. /\ pc = "resume" /\ pc' = "alerts"
      /\ UNCHANGED <<iomode, err, inVars, outVars, maxFrag, appdata, alert, action, h, todo, cnr>>
  BY DEF HsAlerts
<1>2. Left(todo') /\ Untouched
  BY <1>1, Flags
<1> QED BY <1>1, <1>2, Flags, StillInv DEF inVars, outVars

(* One alert byte was read.                                                *)
LEMMA HsAlertByteInv ==
  ASSUME IInv, NEW byte, HsAlertByte(byte)
  PROVE  IInv'
<1>1. pc = "alerts" /\ h.in > 0 /\ UNCHANGED <<inVars, outVars, maxFrag>>
  BY DEF HsAlertByte
<1>2. CASE alert = 2 \/ byte = "no_renegotiation"
  <2>1. Fail("ERROR") /\ UNCHANGED <<alert, appdata>>
    BY <1>2 DEF HsAlertByte
  <2> QED BY <1>1, <2>1, Flags, FailInv DEF inVars
<1>3. CASE ~(alert = 2 \/ byte = "no_renegotiation")
  <2> DEFINE in == h.in - 1
  <2>1. /\ h' = [h EXCEPT !.in = in] /\ alert' \in 0 .. 2
        /\ cnr' = (cnr \/ byte = "close_notify")
        /\ UNCHANGED <<iomode, err, appdata, pc, action, todo>>
    BY <1>3 DEF HsAlertByte
  <2>2. in \in Nat /\ in <= h.in
    BY <1>1, Flags
  <2>3. cnr' \in BOOLEAN
    BY <2>1, Flags
  <2> HIDE DEF in
  <2>4. Left(todo') /\ Untouched
    BY <1>1, <2>1, Flags
  <2>5. /\ h' \in Window /\ h'.in0 = h.in0 /\ h'.in <= h.in
        /\ h'.out = h.out /\ h'.put = h.put
    BY <2>1, <2>2, InWindow
  <2> QED BY <1>1, <2>1, <2>3, <2>4, <2>5, Flags, QuietInv DEF inVars, outVars
<1> QED BY <1>2, <1>3

(* The waiting program goes on with a program.                             *)
LEMMA ContinueOK ==
  ASSUME IInv, Untouched, Continue
  PROVE  /\ pc' \in {"run", "yield"} /\ Left(todo')
         /\ UNCHANGED <<iomode, err, action, h, cnr>>
<1>1. pc' \in {"run", "yield"} /\ (todo' = todo \/ todo' = OnRenegotiate)
      /\ UNCHANGED <<iomode, err, action, h, cnr>>
  BY DEF Continue
<1>2. Left(OnRenegotiate)
  BY ProgramsShaken DEF Left
<1>3. Left(todo)
  BY Flags
<1> QED BY <1>1, <1>2, <1>3

(* All alert bytes were read.                                              *)
LEMMA HsAlertsEndInv == ASSUME IInv, HsAlertsEnd PROVE IInv'
<1>1. /\ pc = "alerts" /\ UNCHANGED <<ix, rtin, incrypt, outVars, maxFrag, alert>>
      /\ Untouched
  BY Flags DEF HsAlertsEnd
<1>2. shutdownRecv' \in BOOLEAN
  BY Flags DEF HsAlertsEnd
<1>3. CASE Closing
  <2>1. appdata' = 0 /\ pc' = "run" /\ UNCHANGED <<iomode, err, action, h, todo, cnr>>
    BY <1>3 DEF HsAlertsEnd
  <2>2. Left(todo') /\ appdata' \in 0 .. 2
    BY <2>1, Flags
  <2> QED BY <1>1, <1>2, <2>1, <2>2, Flags, StillInv DEF outVars
<1>4. CASE ~Closing /\ cnr
  <2>1. StartClose(TRUE) /\ UNCHANGED <<iomode, err, action, h>>
    BY <1>4 DEF HsAlertsEnd
  <2>2. appdata' \in 0 .. 2 /\ cnr' \in BOOLEAN /\ pc' = "run" /\ todo' = DoClose
    BY <2>1 DEF StartClose
  <2>3. Left(todo')
    BY <2>2, ProgramsOther DEF Left
  <2> QED BY <1>1, <1>2, <2>1, <2>2, <2>3, Flags, StillInv DEF outVars
<1>5. CASE ~Closing /\ ~cnr
  <2>1. Continue /\ UNCHANGED appdata
    BY <1>5 DEF HsAlertsEnd
  <2>2. /\ pc' \in {"run", "yield"} /\ Left(todo')
        /\ UNCHANGED <<iomode, err, action, h, cnr>>
    BY <1>1, <2>1, ContinueOK
  <2> QED BY <1>1, <1>2, <2>1, <2>2, Flags, StillInv DEF outVars
<1> QED BY <1>3, <1>4, <1>5

(* wait-co returned to its program.                                        *)
LEMMA HsGoOnInv == ASSUME IInv, HsGoOn PROVE IInv'
<1>1. /\ pc = "resume" /\ UNCHANGED <<inVars, outVars, maxFrag, appdata, alert>>
      /\ Untouched
  BY Flags DEF HsGoOn
<1>2. CASE Fail("ERROR")
  BY <1>1, <1>2, Flags, FailInv DEF inVars
<1>3. CASE todo' = OnHandshakeData /\ pc' = "run" /\ UNCHANGED <<iomode, err, action, h, cnr>>
  <2>1. Left(todo')
    BY <1>1, <1>3, ProgramsShaken DEF Left
  <2> QED BY <1>1, <1>3, <2>1, Flags, StillInv DEF inVars, outVars
<1>4. CASE Continue
  <2>1. /\ pc' \in {"run", "yield"} /\ Left(todo')
        /\ UNCHANGED <<iomode, err, action, h, cnr>>
    BY <1>1, <1>4, ContinueOK
  <2> QED BY <1>1, <2>1, Flags, StillInv DEF inVars, outVars
<1> QED BY <1>2, <1>3, <1>4 DEF HsGoOn

(* wait-for-close dropped the input.                                       *)
LEMMA HsDiscardInv == ASSUME IInv, HsDiscard PROVE IInv'
<1>1. /\ pc = "resume" /\ pc' = "run"
      /\ UNCHANGED <<iomode, err, inVars, outVars, maxFrag, appdata, alert, action, todo, cnr>>
  BY DEF HsDiscard
<1>2. Left(todo')
  BY <1>1, Flags
<1>3. CASE cnr
  <2>1. h' = h
    BY <1>3 DEF HsDiscard
  <2> QED BY <1>1, <1>2, <2>1, Flags, StillInv DEF inVars, outVars
<1>4. CASE ~cnr
  <2> DEFINE in == 0
  <2>1. h' = [h EXCEPT !.in = in] /\ in \in Nat /\ in <= h.in
    BY <1>4, Flags DEF HsDiscard
  <2> HIDE DEF in
  <2>2. /\ h' \in Window /\ h'.in0 = h.in0 /\ h'.in <= h.in
        /\ h'.out = h.out /\ h'.put = h.put
    BY <2>1, InWindow
  <2> QED BY <1>1, <1>2, <2>2, Flags, QuietInv DEF inVars, outVars
<1> QED BY <1>3, <1>4

-----------------------------------------------------------------------------
(* The coroutine: instructions that write.                                 *)

(* Bytes written into the window, not yet reported.                        *)
LEMMA WriteInv ==
  ASSUME IInv, pc = "run", pc' = "run", NEW k \in Nat, k <= h.out,
         NEW type \in RecTypes \union {0},
         Offer(h.out - k, h.put + k),
         ox' = Written(ox, type, outenc), todo' \in Seq(OtherInstr),
         rtout' \in RecTypes \union {0},
         UNCHANGED <<iomode, err, inVars, outenc, maxFrag, appdata, alert, action, cnr>>
  PROVE  IInv'
<1>1. /\ h \in Window /\ h.in0 \in Nat /\ h.in \in Nat /\ h.out \in Nat /\ h.put \in Nat
      /\ ox \in OutRegs /\ outenc \in BOOLEAN
  BY DEF IInv, TypeOK, Window
<1>2. /\ h' \in Window /\ h'.in0 = h.in0 /\ h'.in = h.in
      /\ h'.out + h'.put = h.out + h.put
  BY <1>1 DEF Window, Offer
<1>3. ox' \in OutRegs /\ ox'.a = ox.a /\ ox'.b = ox.b /\ ox'.c = ox.c
  BY <1>1, WrittenOK
<1>4. TypeOK'
  BY <1>2, <1>3, SubSeqs DEF IInv, TypeOK, inVars
<1>5. iomode # "FAILED"
  BY DEF IInv, CallInv
<1>6. CallInv' /\ InputInv'
  BY <1>5 DEF IInv, CallInv, InputInv, inVars
<1>7. OutputInv' /\ SharedBufferExclusive'
  BY <1>3, <1>5 DEF IInv, OutputInv, OutOK, OpenOK, SealedOK, SharedBufferExclusive,
                    InEmpty, OutEmpty, Gathering, inVars
<1>8. WindowInv'
  <2>1. h'.in <= h'.in0 /\ (h'.in0 > 0 => Receiving(iomode') /\ ix'.a + h'.in0 = ix'.b)
    BY <1>2 DEF IInv, WindowInv, inVars
  <2>2. h'.put + h'.out = h.put + h.out /\ ox.a \in Nat
    BY <1>1, <1>2 DEF Window, OutRegs
  <2>3. h.put + h.out > 0 => /\ iomode \in {"OUT", "INOUT"} /\ ox.a < ox.b
                             /\ ox.a + (h.put + h.out) <= ox.b
    BY <1>1, <2>2 DEF IInv, WindowInv, OutRegs
  <2>4. h'.put \in Nat /\ h'.out \in Nat
    BY <1>2 DEF Window
  <2> QED BY <1>1, <1>3, <2>1, <2>2, <2>3, <2>4 DEF WindowInv, OutRegs
<1>9. FragInv'
  BY DEF FragInv
<1> QED BY <1>4, <1>6, <1>7, <1>8, <1>9 DEF IInv

(* The smaller of two numbers.                                             *)
LEMMA LeastOK ==
  ASSUME NEW m \in Nat, NEW n \in Nat
  PROVE  Least(m, n) \in Nat /\ Least(m, n) <= m /\ Least(m, n) <= n
BY DEF Least

(* The next instruction, for an instruction that only other programs hold. *)
LEMMA RunOther ==
  ASSUME IInv, NEW op, Running(op),
         op \notin {"begin", "read", "frag", "nomore", "branch"}
  PROVE  /\ Tail(todo) \in Seq(OtherInstr) /\ Head(todo) \in Instr
         /\ Head(todo).op = op /\ pc = "run"
<1>1. Left(todo) /\ At(op) /\ pc = "run"
  BY Flags DEF Running
<1> QED BY <1>1, TailOther

(* A running coroutine has an engine that has not failed.                  *)
LEMMA RunAny ==
  ASSUME IInv, NEW op, Running(op)
  PROVE  Left(Tail(todo)) /\ Head(todo) \in Instr /\ Head(todo).op = op /\ pc = "run"
<1>1. Left(todo) /\ todo # <<>> /\ pc = "run" /\ Head(todo).op = op
  BY Flags DEF Running, At
<1> QED BY <1>1, TailLeft

(* write8 and write-blob.                                                  *)
LEMMA HsWriteInv == ASSUME IInv, HsWrite PROVE IInv'
<1> DEFINE n == Head(todo).n
           k == Least(n, h.out)
<1>1. /\ Running("write") /\ h.out > 0 /\ Put(k, rtout)
      /\ todo' = IF k = n THEN Tail(todo) ELSE <<I("write", n - k)>> \o Tail(todo)
      /\ UNCHANGED <<iomode, err, inVars, rtout, outenc, maxFrag, appdata, alert,
                     pc, action, cnr>>
  BY DEF HsWrite
<1>2. Tail(todo) \in Seq(OtherInstr) /\ Head(todo) \in Instr /\ pc = "run"
  BY <1>1, RunOther
<1>3. n \in Nat /\ h.out \in Nat
  BY <1>2 DEF Instr, IInv, TypeOK, Window
<1>4. k \in Nat /\ k <= n /\ k <= h.out
  <2> HIDE DEF n
  <2> DEFINE m == h.out
  <2>1. m \in Nat
    BY <1>3
  <2> HIDE DEF m
  <2>2. Least(n, m) \in Nat /\ Least(n, m) <= n /\ Least(n, m) <= m
    BY <1>3, <2>1, LeastOK
  <2> QED BY <2>2 DEF m
<1> HIDE DEF n, k
<1>5. todo' \in Seq(OtherInstr)
  <2> DEFINE r == n - k
  <2>1. r \in Nat
    BY <1>3, <1>4
  <2> HIDE DEF r
  <2>2. I("write", r) \in OtherInstr
    BY <2>1, InstrOK DEF Ops
  <2>3. <<I("write", r)>> \in Seq(OtherInstr)
    BY <2>2
  <2>4. <<I("write", r)>> \o Tail(todo) \in Seq(OtherInstr)
    BY <1>2, <2>3, CatOther
  <2> QED BY <1>1, <1>2, <2>4 DEF r
<1>6. /\ Offer(h.out - k, h.put + k)
      /\ ox' = Written(ox, rtout, outenc)
  BY <1>1 DEF Put
<1>7. rtout \in RecTypes \union {0} /\ rtout' = rtout /\ pc' = pc
  BY <1>1, Flags
<1> QED BY <1>1, <1>2, <1>4, <1>5, <1>6, <1>7, WriteInv

(* send-alert.                                                             *)
LEMMA HsAlertOutInv == ASSUME IInv, HsAlertOut PROVE IInv'
<1> DEFINE k == Least(2, h.out)
<1>1. /\ Running("alert") /\ Put(k, ALERT) /\ rtout' = ALERT /\ todo' = Tail(todo)
      /\ UNCHANGED <<iomode, err, inVars, outenc, maxFrag, appdata, alert,
                     pc, action, cnr>>
  BY DEF HsAlertOut, Next1
<1>2. Tail(todo) \in Seq(OtherInstr) /\ pc = "run"
  BY <1>1, RunOther
<1>3. k \in Nat /\ k <= h.out
  BY DEF Least, IInv, TypeOK, Window
<1> HIDE DEF k
<1>4. /\ Offer(h.out - k, h.put + k)
      /\ ox' = Written(ox, ALERT, outenc)
  BY <1>1 DEF Put
<1>5. ALERT \in RecTypes \union {0}
  BY DEF RecTypes
<1> QED BY <1>1, <1>2, <1>3, <1>4, <1>5, WriteInv

(* br_ssl_engine_flush_record leaves legal registers, and a legal mode.    *)
LEMMA FlushRecordOK ==
  ASSUME NEW o \in OutRegs, NEW n \in Nat, NEW type \in RecTypes \union {0},
         outenc \in BOOLEAN, OutOK(o, outenc),
         n > 0 => OpenOK(o, outenc) /\ o.a + n <= o.b
  PROVE  /\ FlushRecord(o, n, type) \in OutRegs
         /\ OutOK(FlushRecord(o, n, type), outenc)
         /\ n > 0 => SealedOK(FlushRecord(o, n, type))
         /\ n = 0 /\ o.a = o.c => FlushRecord(o, n, type) = o
<1> DEFINE p == IF n > 0 THEN AckOut(o, n, type, outenc) ELSE o
           q == Seal(p, type, outenc, FALSE)
<1>1. FlushRecord(o, n, type) = IF HasPld(p) THEN q ELSE p
  BY DEF FlushRecord
<1>2. /\ p \in OutRegs /\ OutOK(p, outenc)
      /\ n > 0 => HasPld(p) \/ SealedOK(p)
  <2>1. CASE n > 0
    BY <2>1, AckOutOK
  <2>2. CASE ~(n > 0)
    BY <2>2
  <2> QED BY <2>1, <2>2
<1>3. n = 0 /\ o.a = o.c => p = o /\ ~HasPld(p)
  BY DEF HasPld
<1> HIDE DEF p
<1>4. q \in OutRegs /\ OutOK(q, outenc) /\ (HasPld(p) => SealedOK(q))
  BY <1>2, SealOK
<1> QED BY <1>1, <1>2, <1>3, <1>4

(* A flush with n bytes written, of the registers o, which may already note*)
(* one byte more than the registers ox; the protection may change with it. *)
LEMMA FlushRecInv ==
  ASSUME IInv, pc = "run", pc' = "run", NEW n \in Nat, NEW type \in RecTypes \union {0},
         NEW o \in OutRegs, o.a = ox.a, o.b = ox.b, o.c = ox.c,
         n > 0 => h.out + h.put >= n /\ h.out + h.put > 0,
         ox' = FlushRecord(o, n, type), iomode' = FlushMode(n),
         Offer(SendPldLen(iomode', ox'), 0), todo' \in Seq(OtherInstr),
         rtout' \in RecTypes \union {0},
         outenc' \in BOOLEAN, outenc' = outenc \/ n > 0,
         UNCHANGED <<err, inVars, maxFrag, appdata, alert, action, cnr>>
  PROVE  IInv'
<1>1. /\ h \in Window /\ h.in0 \in Nat /\ h.in \in Nat /\ h.out \in Nat /\ h.put \in Nat
      /\ ox \in OutRegs /\ outenc \in BOOLEAN /\ ix.a \in Nat /\ ix.b \in Nat
      /\ ox.a \in Nat /\ ox.b \in Nat /\ ox.c \in Nat
  BY DEF IInv, TypeOK, Window, OutRegs, InRegs
<1>2. /\ iomode \in {"INOUT", "IN", "OUT"} /\ OutOK(ox, outenc) /\ InOK(ix, incrypt)
      /\ SharedBufferExclusive /\ WindowInv
  BY DEF IInv, CallInv, OutputInv, InputInv, TypeOK
<1>3. OutOK(o, outenc)
  BY <1>2 DEF OutOK, OpenOK, SealedOK
<1>4. n > 0 => /\ iomode \in {"OUT", "INOUT"} /\ ox.a < ox.b /\ o.a + n <= o.b
               /\ OpenOK(o, outenc)
  <2> SUFFICES ASSUME n > 0
               PROVE  /\ iomode \in {"OUT", "INOUT"} /\ ox.a < ox.b /\ o.a + n <= o.b
                      /\ OpenOK(o, outenc)
    OBVIOUS
  <2>1. /\ iomode \in {"OUT", "INOUT"} /\ ox.a < ox.b
        /\ ox.a + h.put + h.out <= ox.b
    <3>1. h.put + h.out > 0
      BY <1>1
    <3> QED BY <1>2, <3>1 DEF WindowInv
  <2>2. o.a + n <= o.b /\ o.a # o.b
    <3>1. n \in Nat /\ n <= h.out + h.put /\ o.a = ox.a /\ o.b = ox.b
      OBVIOUS
    <3>2. ox.a + n <= ox.b /\ ox.a # ox.b
      BY <1>1, <2>1, <3>1
    <3> QED BY <3>1, <3>2
  <2>3. OpenOK(o, outenc)
    BY <1>3, <2>2 DEF OutOK, SealedOK
  <2> QED BY <2>1, <2>2, <2>3
<1>5. /\ ox' \in OutRegs /\ OutOK(ox', outenc) /\ (n > 0 => SealedOK(ox'))
      /\ n = 0 /\ o.a = o.c => ox' = o
  BY <1>1, <1>3, <1>4, FlushRecordOK
<1>6. OutOK(ox', outenc')
  BY <1>5 DEF OutOK
<1>7. iomode' \in {"INOUT", "IN", "OUT"}
  BY <1>2 DEF FlushMode, AckOutMode
<1>8. /\ ox'.a \in Nat /\ ox'.b \in Nat /\ ox'.a <= ox'.b
  BY <1>1, <1>5, BufferAssumption DEF OutRegs, OutOK, OpenOK, SealedOK
<1> DEFINE out == SendPldLen(iomode', ox')
<1>9. /\ out \in Nat
      /\ out > 0 => iomode' \in {"OUT", "INOUT"} /\ ox'.a < ox'.b /\ ox'.a + out = ox'.b
  BY <1>8 DEF SendPldLen
<1>10. h' = [in0 |-> h.in0, in |-> h.in, out |-> out, put |-> 0]
  BY DEF Offer
<1> HIDE DEF out
<1>11. h' \in Window /\ h'.in0 = h.in0 /\ h'.in = h.in /\ h'.out = out /\ h'.put = 0
  BY <1>1, <1>9, <1>10 DEF Window
<1>12. TypeOK'
  BY <1>5, <1>7, <1>11, SubSeqs DEF IInv, TypeOK, inVars
<1>13. CallInv' /\ InputInv' /\ OutputInv'
  BY <1>2, <1>6, <1>7 DEF IInv, CallInv, InputInv, OutputInv, inVars
<1>14. Shared => (n > 0 => InEmpty /\ iomode' = "OUT" /\ h.in0 = 0)
                 /\ (n = 0 => iomode' = iomode)
  <2>1. ASSUME Shared, n > 0 PROVE InEmpty /\ iomode' = "OUT" /\ h.in0 = 0
    <3>1. InEmpty /\ iomode' = "OUT"
      BY <1>2, <1>4, <2>1 DEF SharedBufferExclusive, FlushMode, AckOutMode
    <3>2. ix.a = ix.b
      BY <3>1 DEF InEmpty, ReadyIn
    <3> QED BY <1>1, <1>2, <3>1, <3>2 DEF WindowInv
  <2>2. n = 0 => iomode' = iomode
    BY DEF FlushMode
  <2> QED BY <2>1, <2>2
<1>15. WindowInv'
  <2>1. h'.in <= h'.in0
    BY <1>2, <1>11 DEF WindowInv
  <2>2. h'.in0 > 0 => Receiving(iomode') /\ ix'.a + h'.in0 = ix'.b
    <3>1. CASE Shared
      BY <1>1, <1>2, <1>11, <1>14, <3>1 DEF WindowInv, inVars
    <3>2. CASE ~Shared
      <4>1. iomode' = iomode
        BY <3>2 DEF FlushMode, AckOutMode
      <4> QED BY <1>2, <1>11, <4>1 DEF WindowInv, inVars
    <3> QED BY <3>1, <3>2
  <2>3. h'.put + h'.out > 0 => /\ iomode' \in {"OUT", "INOUT"}
                               /\ ox'.a < ox'.b /\ ox'.a + h'.put + h'.out <= ox'.b
    BY <1>8, <1>9, <1>11
  <2> QED BY <2>1, <2>2, <2>3 DEF WindowInv
<1>16. SharedBufferExclusive'
  <2>1. CASE Shared /\ n > 0
    BY <1>14, <2>1 DEF SharedBufferExclusive, InEmpty, inVars
  <2>2. CASE Shared /\ ~(n > 0)
    <3>1. n = 0 /\ iomode' = iomode
      BY <1>14, <2>2
    <3>2. iomode \in {"INOUT", "IN"} => ox'.a = ox.a /\ ox'.b = ox.b /\ ox'.c = ox.c
      BY <1>2, <1>5, <2>2, <3>1 DEF SharedBufferExclusive, OutEmpty
    <3> QED BY <1>2, <2>2, <3>1, <3>2
            DEF SharedBufferExclusive, InEmpty, OutEmpty, Gathering, inVars
  <2>3. CASE ~Shared
    BY <2>3 DEF SharedBufferExclusive
  <2> QED BY <2>1, <2>2, <2>3
<1>17. FragInv'
  BY DEF FragInv
<1> QED BY <1>12, <1>13, <1>15, <1>16, <1>17 DEF IInv

(* flush-record.                                                           *)
LEMMA HsFlushInv == ASSUME IInv, HsFlush PROVE IInv'
<1>1. /\ Running("flush") /\ ox' = FlushRecord(ox, h.put, rtout) /\ iomode' = FlushMode(h.put)
      /\ Offer(SendPldLen(iomode', ox'), 0) /\ todo' = Tail(todo)
      /\ UNCHANGED <<err, inVars, rtout, outenc, maxFrag, appdata, alert,
                     pc, action, cnr>>
  BY DEF HsFlush, Next1
<1>2. Tail(todo) \in Seq(OtherInstr) /\ pc = "run"
  BY <1>1, RunOther
<1> DEFINE n == h.put
<1>3. n \in Nat /\ (n > 0 => h.out + h.put >= n /\ h.out + h.put > 0)
  BY DEF IInv, TypeOK, Window
<1>4. ox' = FlushRecord(ox, n, rtout) /\ iomode' = FlushMode(n)
  BY <1>1
<1> HIDE DEF n
<1>5. ox \in OutRegs /\ rtout \in RecTypes \union {0} /\ outenc \in BOOLEAN
  BY DEF IInv, TypeOK
<1> QED BY <1>1, <1>2, <1>3, <1>4, <1>5, FlushRecInv

(* The ChangeCipherSpec is sealed before the protection is switched.       *)
LEMMA HsWriteCcsInv == ASSUME IInv, HsWriteCcs PROVE IInv'
<1> DEFINE n == h.put + 1
           o == Written(ox, CCS, outenc)
<1>1. /\ Running("writeCcs") /\ h.out > 0 /\ rtout' = CCS
      /\ ox' = FlushRecord(o, n, CCS) /\ iomode' = FlushMode(n)
      /\ Offer(SendPldLen(iomode', ox'), 0) /\ outenc' = TRUE /\ todo' = Tail(todo)
      /\ UNCHANGED <<err, inVars, maxFrag, appdata, alert, pc, action, cnr>>
  BY DEF HsWriteCcs, Next1
<1>2. Tail(todo) \in Seq(OtherInstr) /\ pc = "run"
  BY <1>1, RunOther
<1>3. n \in Nat /\ n > 0 /\ h.out + h.put >= n /\ h.out + h.put > 0
  BY <1>1 DEF IInv, TypeOK, Window
<1>4. CCS \in RecTypes \union {0}
  BY DEF RecTypes
<1>5. o \in OutRegs /\ o.a = ox.a /\ o.b = ox.b /\ o.c = ox.c
  <2>1. ox \in OutRegs /\ outenc \in BOOLEAN
    BY DEF IInv, TypeOK
  <2> QED BY <1>4, <2>1, WrittenOK
<1> HIDE DEF n, o
<1>6. outenc' \in BOOLEAN
  BY <1>1
<1> QED BY <1>1, <1>2, <1>3, <1>4, <1>5, <1>6, FlushRecInv

-----------------------------------------------------------------------------
(* The coroutine: the other instructions.                                  *)

(* The coroutine yields.                                                   *)
LEMMA HsYieldInv == ASSUME IInv, HsYield PROVE IInv'
<1>1. /\ pc = "run" /\ pc' = "yield"
      /\ UNCHANGED <<iomode, err, inVars, outVars, maxFrag, appdata, alert,
                     action, h, todo, cnr>>
  BY DEF HsYield, Yield
<1>2. Left(todo')
  BY <1>1, Flags
<1> QED BY <1>1, <1>2, Flags, StillInv DEF inVars, outVars

(* Words that only set a field.                                            *)
LEMMA HsSetInv == ASSUME IInv, HsSet PROVE IInv'
<1>1. /\ \E op \in {"begin", "noapp", "type", "end"} : Running(op)
      /\ todo' = Tail(todo)
      /\ UNCHANGED <<iomode, err, inVars, ox, outenc, maxFrag, alert, pc, action, h, cnr>>
  BY DEF HsSet, Next1
<1>2. Left(todo') /\ Head(todo) \in Instr /\ pc = "run"
  BY <1>1, RunAny
<1>3. appdata' \in 0 .. 2
  BY Flags DEF HsSet
<1>4. rtout' \in RecTypes \union {0}
  <2>1. CASE Running("type") /\ rtout' = Head(todo).n
    <3>1. Head(todo).op = "type"
      BY <2>1, RunAny
    <3> QED BY <1>2, <2>1, <3>1 DEF Instr
  <2>2. CASE rtout' = HANDSHAKE \/ rtout' = APPDATA \/ rtout' = rtout
    BY <2>2, Flags DEF RecTypes
  <2> QED BY <2>1, <2>2 DEF HsSet
<1> QED BY <1>1, <1>2, <1>3, <1>4, Flags, StillInv DEF inVars

(* can-output? holds.                                                      *)
LEMMA HsRoomInv == ASSUME IInv, HsRoom PROVE IInv'
<1>1. /\ \E op \in {"room", "closeRoom"} : Running(op)
      /\ todo' = Tail(todo)
      /\ UNCHANGED <<iomode, err, inVars, outVars, maxFrag, appdata, alert,
                     pc, action, h, cnr>>
  BY DEF HsRoom, Next1
<1>2. Left(todo') /\ pc = "run"
  BY <1>1, RunAny
<1> QED BY <1>1, <1>2, Flags, StillInv DEF inVars, outVars

(* Handshake bytes are read.                                               *)
LEMMA HsReadInv ==
  ASSUME IInv, NEW bad \in BOOLEAN, HsRead(bad)
  PROVE  IInv'
<1> DEFINE n == Head(todo).n
           k == Least(n, h.in)
           in == h.in - k
<1>1. /\ Running("read") /\ h.in > 0 /\ UNCHANGED <<inVars, outVars, maxFrag, appdata, alert>>
  BY DEF HsRead
<1>2. Left(Tail(todo)) /\ Head(todo) \in Instr /\ pc = "run"
  BY <1>1, RunAny
<1>3. n \in Nat /\ h.in \in Nat
  BY <1>2, Flags DEF Instr
<1>4. k \in Nat /\ k <= n /\ k <= h.in
  <2> HIDE DEF n
  <2> DEFINE m == h.in
  <2>1. m \in Nat
    BY <1>3
  <2> HIDE DEF m
  <2>2. Least(n, m) \in Nat /\ Least(n, m) <= n /\ Least(n, m) <= m
    BY <1>3, <2>1, LeastOK
  <2> QED BY <2>2 DEF m
<1>5. CASE bad
  <2>1. Fail("ERROR")
    BY <1>5 DEF HsRead
  <2> QED BY <1>1, <2>1, Flags, FailInv DEF inVars
<1>6. CASE ~bad
  <2>1. /\ h' = [h EXCEPT !.in = in]
        /\ todo' = IF k = n THEN Tail(todo)
                   ELSE <<I("read", n - k)>> \o Tail(todo)
        /\ UNCHANGED <<iomode, err, pc, action, cnr>>
    BY <1>6 DEF HsRead
  <2>2. in \in Nat /\ in <= h.in
    <3> HIDE DEF k
    <3> QED BY <1>3, <1>4
  <2> HIDE DEF in, k, n
  <2>3. /\ h' \in Window /\ h'.in0 = h.in0 /\ h'.in <= h.in
        /\ h'.out = h.out /\ h'.put = h.put
    BY <2>1, <2>2, InWindow
  <2>4. Left(<<I("read", n - k)>> \o Tail(todo))
    <3> DEFINE r == n - k
    <3>1. r \in Nat
      BY <1>3, <1>4
    <3> HIDE DEF r
    <3>2. I("read", r) \in OtherInstr /\ I("read", r) \in ReadInstr
      BY <3>1, InstrOK, ReadInstrOK DEF Ops
    <3>3. <<I("read", r)>> \in Seq(OtherInstr) /\ <<I("read", r)>> \in Seq(ReadInstr)
      BY <3>2
    <3>4. Left(<<I("read", r)>> \o Tail(todo))
      BY <1>2, <3>3, ConcatProperties DEF Left
    <3> QED BY <3>4 DEF r
  <2>5. Left(todo')
    BY <1>2, <2>1, <2>4
  <2> QED BY <1>1, <1>2, <2>1, <2>3, <2>5, Flags, QuietInv DEF inVars, outVars
<1> QED BY <1>5, <1>6

(* A ChangeCipherSpec is read, and the input protection switched.          *)
LEMMA HsReadCcsInv ==
  ASSUME IInv, NEW bad \in BOOLEAN, HsReadCcs(bad)
  PROVE  IInv'
<1>1. /\ Running("readCcs") /\ h.in > 0
      /\ UNCHANGED <<ix, rtin, shutdownRecv, outVars, maxFrag, appdata, alert>>
  BY DEF HsReadCcs
<1>2. CASE rtin # CCS \/ bad \/ MoreIncoming(h.in - 1)
  <2>1. Fail("ERROR") /\ incrypt' = incrypt
    BY <1>2 DEF HsReadCcs
  <2> QED BY <1>1, <2>1, Flags, FailInv
<1>3. CASE ~(rtin # CCS \/ bad \/ MoreIncoming(h.in - 1))
  <2>1. /\ h' = [h EXCEPT !.in = h.in - 1] /\ incrypt' = TRUE /\ todo' = Tail(todo)
        /\ UNCHANGED <<iomode, err, pc, action, cnr>>
    BY <1>3 DEF HsReadCcs, Next1
  <2>2. Tail(todo) \in Seq(OtherInstr) /\ pc = "run"
    BY <1>1, RunOther
  <2>3. /\ h \in Window /\ h.in0 \in Nat /\ h.in \in Nat /\ ix.a \in Nat /\ ix.b \in Nat
        /\ ix.c \in Nat
    BY DEF IInv, TypeOK, Window, InRegs
  <2>4. /\ h' \in Window /\ h'.in0 = h.in0 /\ h'.in = h.in - 1 /\ h'.out = h.out
        /\ h'.put = h.put
    BY <1>1, <2>1, <2>3 DEF Window
  <2>5. iomode # "FAILED" /\ InOK(ix, incrypt) /\ WindowInv
    BY <2>2 DEF IInv, CallInv, InputInv
  <2>6. Receiving(iomode) /\ ix.a < ix.b
    BY <1>1, <2>3, <2>5 DEF WindowInv
  <2>7. ix.a >= 5 /\ ix.b <= IBufLen
    BY <2>3, <2>5, <2>6 DEF InOK
  <2>8. ix.c = 0
    BY <1>3, <2>3, <2>6, <2>7 DEF MoreIncoming, RecvRecFinished
  <2>9. InOK(ix', incrypt')
    BY <1>1, <2>6, <2>7, <2>8 DEF InOK
  <2>10. TypeOK'
    BY <1>1, <2>1, <2>2, <2>4, SubSeqs DEF IInv, TypeOK, outVars
  <2>11. CallInv' /\ InputInv' /\ OutputInv' /\ SharedBufferExclusive'
    BY <1>1, <2>1, <2>2, <2>9 DEF IInv, CallInv, InputInv, OutputInv,
       SharedBufferExclusive, InEmpty, OutEmpty, Gathering, outVars
  <2>12. WindowInv'
    BY <1>1, <2>1, <2>3, <2>4 DEF IInv, WindowInv, outVars
  <2>13. FragInv'
    BY <2>1, <2>2 DEF FragInv
  <2> QED BY <2>10, <2>11, <2>12, <2>13 DEF IInv
<1> QED BY <1>2, <1>3

(* more-incoming-bytes? is checked.                                        *)
LEMMA HsNoMoreInv == ASSUME IInv, HsNoMore PROVE IInv'
<1>1. Running("nomore") /\ UNCHANGED <<inVars, outVars, maxFrag, appdata, alert>>
  BY DEF HsNoMore
<1>2. CASE Fail("ERROR")
  BY <1>1, <1>2, Flags, FailInv DEF inVars
<1>3. CASE todo' = Tail(todo) /\ UNCHANGED <<iomode, err, pc, action, h, cnr>>
  <2>1. Left(todo') /\ pc = "run"
    BY <1>1, <1>3, RunAny
  <2> QED BY <1>1, <1>3, <2>1, Flags, StillInv DEF inVars, outVars
<1> QED BY <1>2, <1>3 DEF HsNoMore, Next1

(* A ClientHello is refused.                                               *)
LEMMA HsRefuseInv == ASSUME IInv, HsRefuse PROVE IInv'
<1>1. /\ Running("nomore") /\ todo' = FailAlert
      /\ UNCHANGED <<iomode, err, inVars, outVars, maxFrag, appdata, alert,
                     pc, action, h, cnr>>
  BY DEF HsRefuse
<1>2. Left(FailAlert) /\ pc = "run"
  BY <1>1, ProgramsOther DEF Left, Running
<1>3. Left(todo')
  BY <1>1, <1>2
<1> QED BY <1>1, <1>2, <1>3, Flags, StillInv DEF inVars, outVars

(* A ClientHello without the extension.                                    *)
LEMMA HsNoFragInv == ASSUME IInv, HsNoFrag PROVE IInv'
<1>1. /\ Running("frag") /\ todo' = Tail(todo)
      /\ UNCHANGED <<iomode, err, inVars, outVars, maxFrag, appdata, alert,
                     pc, action, h, cnr>>
  BY DEF HsNoFrag, Next1
<1>2. Left(todo') /\ pc = "run"
  BY <1>1, RunAny
<1> QED BY <1>1, <1>2, Flags, StillInv DEF inVars, outVars

(* Full handshake or resumption.                                           *)
LEMMA HsBranchInv == ASSUME IInv, HsBranch PROVE IInv'
<1>1. /\ Running("branch") /\ todo' \in {FullHandshake, Resumption}
      /\ UNCHANGED <<iomode, err, inVars, outVars, maxFrag, appdata, alert,
                     pc, action, h, cnr>>
  BY DEF HsBranch
<1>2. Left(todo') /\ pc = "run"
  BY <1>1, ProgramsOther DEF Left, Running
<1> QED BY <1>1, <1>2, Flags, StillInv DEF inVars, outVars

(* The engine ends.                                                        *)
LEMMA HsEndInv == ASSUME IInv, HsEnd PROVE IInv'
<1>1. /\ \E e \in {"OK", "ERROR"} : Fail(e)
      /\ UNCHANGED <<inVars, outVars, maxFrag, appdata, alert>>
  BY DEF HsEnd
<1> QED BY <1>1, Flags, FailInv DEF inVars

(* The fragment length shrinks under an empty record only.                 *)
LEMMA HsFragInv ==
  ASSUME IInv, NEW f \in FragSizes, HsFrag(f)
  PROVE  IInv'
<1>1. /\ Running("frag") /\ todo' = Tail(todo)
      /\ UNCHANGED <<iomode, err, inVars, rtout, outenc, appdata, alert, pc, action, cnr>>
  BY DEF HsFrag, Next1
<1>2. Left(Tail(todo)) /\ pc = "run"
  BY <1>1, RunAny
<1>3. f \in Nat /\ f >= 2
  BY BufferAssumption
<1>4. CASE ~(f < maxFrag)
  <2>1. UNCHANGED <<maxFrag, ox, h>>
    BY <1>4 DEF HsFrag
  <2> QED BY <1>1, <1>2, <2>1, Flags, StillInv DEF inVars
<1>5. CASE f < maxFrag
  <2>1. maxFrag' = f /\ ox' = ShrinkOut(ox, f) /\ Offer(WindowAfterFrag(f), h.put)
    BY <1>5 DEF HsFrag
  <2>2. Untouched
    <3>1. todo # <<>> /\ Head(todo).op = "frag"
      BY <1>1 DEF Running, At
    <3>2. todo \notin Seq(OtherInstr)
      <4>1. ASSUME todo \in Seq(OtherInstr) PROVE FALSE
        <5>1. Head(todo) \in OtherInstr
          BY <3>1, <4>1, HeadTailProperties
        <5> QED BY <3>1, <5>1 DEF OtherInstr
      <4> QED BY <4>1
    <3> QED BY <3>2 DEF IInv, FragInv
  <2>3. /\ h \in Window /\ h.in0 \in Nat /\ h.in \in Nat /\ h.out \in Nat /\ h.put = 0
        /\ ox \in OutRegs /\ ox.a \in Nat /\ ox.b \in Nat /\ ox.c \in Nat
        /\ h.out > 0 => ox.a = ox.c
    BY <2>2 DEF IInv, TypeOK, Window, OutRegs, Untouched
  <2>4. /\ iomode # "FAILED" /\ OutOK(ox, outenc) /\ WindowInv /\ SharedBufferExclusive
        /\ InputInv
    BY <1>2 DEF IInv, CallInv, OutputInv
  <2> DEFINE out == Least(h.out, f)
  <2>5. out \in Nat /\ out <= h.out /\ out <= f
    BY <1>3, <2>3 DEF Least
  <2>6. h' = [in0 |-> h.in0, in |-> h.in, out |-> out, put |-> 0]
    BY <2>1, <2>3 DEF Offer, WindowAfterFrag
  <2> HIDE DEF out
  <2>7. h' \in Window /\ h'.in0 = h.in0 /\ h'.in = h.in /\ h'.out = out /\ h'.put = 0
    BY <2>3, <2>5, <2>6 DEF Window
  <2>8. /\ ox' \in OutRegs /\ ox'.a = ox.a /\ ox'.c = ox.c /\ ox'.b <= ox.b
        /\ ox'.b \in Nat /\ (ox'.a = ox'.b <=> ox.a = ox.b)
        /\ ox.a < ox.b => ox'.a < ox'.b
        /\ ~(ox.a < ox.b) => ox' = ox
        /\ h.out > 0 /\ ox.a < ox.b => ox.a + out <= ox'.b \/ ox'.b = ox.b
    <3>1. CASE ox.a < ox.b /\ ox.b > ox.c + f /\ ox.a < ox.c + f
      <4> DEFINE x == ox.a  y == ox.c + f
      <4>1. ox' = Move(ox, x, y)
        BY <2>1, <3>1 DEF ShrinkOut
      <4>2. x \in Nat /\ y \in Nat
        BY <1>3, <2>3
      <4>3. ox' \in OutRegs /\ ox'.a = x /\ ox'.b = y /\ ox'.c = ox.c
        <5> HIDE DEF x, y
        <5>1. ox \in OutRegs
          BY <2>3
        <5>2. /\ Move(ox, x, y) \in OutRegs
              /\ Move(ox, x, y).a = x /\ Move(ox, x, y).b = y /\ Move(ox, x, y).c = ox.c
          BY <4>2, <5>1, MoveOK
        <5> QED BY <4>1, <5>2
      <4>4. ox.a < ox'.b /\ ox'.b <= ox.b /\ ox'.b \in Nat
        BY <1>3, <2>3, <3>1, <4>3
      <4>5. h.out > 0 => ox.a + out <= ox'.b
        BY <1>3, <2>3, <2>5, <4>3
      <4> QED BY <2>3, <3>1, <4>3, <4>4, <4>5
    <3>2. CASE ~(ox.a < ox.b /\ ox.b > ox.c + f /\ ox.a < ox.c + f)
      <4>1. ox' = ox
        BY <2>1, <3>2 DEF ShrinkOut
      <4> QED BY <2>3, <4>1
    <3> QED BY <3>1, <3>2
  <2>9. OutOK(ox', outenc)
    <3>1. CASE OpenOK(ox, outenc)
      <4>1. Post(outenc) \in Nat
        BY BufferAssumption DEF Post
      <4>2. OpenOK(ox', outenc)
        BY <2>3, <2>8, <3>1, <4>1, BufferAssumption DEF OpenOK
      <4> QED BY <4>2 DEF OutOK
    <3>2. CASE SealedOK(ox)
      <4>1. ox' = ox
        BY <2>3, <2>8, <3>2 DEF SealedOK
      <4> QED BY <2>4, <4>1
    <3> QED BY <2>4, <3>1, <3>2 DEF OutOK
  <2>10. WindowInv'
    <3>1. h'.in <= h'.in0 /\ (h'.in0 > 0 => Receiving(iomode') /\ ix'.a + h'.in0 = ix'.b)
      BY <1>1, <2>4, <2>7 DEF WindowInv, inVars
    <3>2. h.out > 0 => /\ iomode \in {"OUT", "INOUT"} /\ ox.a < ox.b /\ ox.a + h.out <= ox.b
      BY <2>3, <2>4 DEF WindowInv
    <3>3. out > 0 => /\ iomode' \in {"OUT", "INOUT"} /\ ox'.a < ox'.b /\ ox'.a + out <= ox'.b
      BY <1>1, <2>3, <2>5, <2>8, <3>2
    <3> QED BY <2>3, <2>5, <2>7, <2>8, <3>1, <3>3 DEF WindowInv
  <2>11. TypeOK'
    <3>1. todo' \in Seq(Instr)
      BY <1>1, <1>2, LeftIsProgram
    <3> QED BY <1>1, <1>3, <2>1, <2>7, <2>8, <3>1 DEF IInv, TypeOK, inVars
  <2>12. CallInv' /\ InputInv' /\ OutputInv'
    BY <1>1, <1>2, <1>3, <2>1, <2>4, <2>9 DEF CallInv, InputInv, OutputInv, inVars
  <2>13. SharedBufferExclusive'
    BY <1>1, <2>4, <2>8 DEF SharedBufferExclusive, InEmpty, OutEmpty, Gathering, inVars
  <2>14. Untouched'
    BY <2>3, <2>5, <2>7, <2>8 DEF Untouched
  <2>15. FragInv'
    BY <1>1, <1>2, <2>14 DEF FragInv, Left
  <2> QED BY <2>10, <2>11, <2>12, <2>13, <2>15 DEF IInv
<1> QED BY <1>4, <1>5

-----------------------------------------------------------------------------
(* Every step.                                                             *)

(* A portion of what is offered is no longer than it.                      *)
LEMMA PortionOK ==
  ASSUME NEW len \in Int, NEW n \in Portions(len), len >= 0
  PROVE  n \in Nat
BY DEF Portions

(* Every step of the coroutine preserves the invariant.                    *)
LEMMA HsStepInv == ASSUME IInv, HsStep PROVE IInv'
BY HsEnterInv, HsReturnInv, HsCloseInv, HsAlertsInv, HsAlertsEndInv, HsGoOnInv,
   HsDiscardInv, HsAlertByteInv, HsYieldInv, HsSetInv, HsRoomInv, HsWriteInv,
   HsAlertOutInv, HsFlushInv, HsWriteCcsInv, HsReadInv, HsReadCcsInv, HsNoMoreInv,
   HsNoFragInv, HsRefuseInv, HsBranchInv, HsEndInv, HsFragInv DEF HsStep

(* ... so does every step of the transport,                                *)
LEMMA TransportInv == ASSUME IInv, RecvBody \/ RecvHead \/ SendRec PROVE IInv'
<1>1. ASSUME NEW n \in Portions(RecvRecLen), RecvCipherPart(n) \/ RecvClear(n) \/ RecvHeaderPart(n)
      PROVE  IInv'
  <2>1. Open
    BY <1>1 DEF RecvCipherPart, RecvClear, RecvHeaderPart
  <2>2. n \in Nat
    BY <2>1, Listening, PortionOK
  <2> QED BY <1>1, <2>2, RecvCipherPartInv, RecvClearInv, RecvHeaderPartInv
<1>2. ASSUME NEW n \in Portions(SendRecLen), SendRecAck(n)
      PROVE  IInv'
  <2>1. SendRecLen \in Nat
    BY DEF SendRecLen, IInv, TypeOK, OutRegs
  <2>2. n \in Nat
    BY <2>1, PortionOK
  <2> QED BY <1>2, <2>2, SendRecAckInv
<1> QED BY <1>1, <1>2, RecvCipherEndInv, RecvHeaderInv DEF RecvBody, RecvHead, SendRec

(* An engine that its owner declares broken ends.                          *)
LEMMA IoFailInv == ASSUME IInv, IoFail PROVE IInv'
BY Flags, FailInv DEF IoFail, inVars

(* ... every call of the application,                                      *)
LEMMA AppStepInv ==
  ASSUME Shared => Forces \subseteq {FALSE}, IInv, AppStep
  PROVE  IInv'
<1>1. ASSUME NEW n \in 1 .. SendAppLen, SendAppAck(n) PROVE IInv'
  BY <1>1, SendAppAckInv
<1>2. ASSUME NEW n \in 1 .. RecvAppLen, RecvAppAck(n) PROVE IInv'
  BY <1>2, RecvAppAckInv
<1>3. ASSUME NEW force \in Forces, Flush(force) PROVE IInv'
  BY <1>3, FlushInv
<1> QED BY <1>1, <1>2, <1>3, CloseInv, RenegotiateInv, ResetInv, IoFailInv DEF AppStep

(* ... and a step of something else.                                       *)
LEMMA StutterInv == ASSUME IInv, UNCHANGED vars PROVE IInv'
BY DEF vars, inVars, outVars, hsVars, IInv, TypeOK, CallInv, InputInv, OutputInv,
       WindowInv, SharedBufferExclusive, InEmpty, OutEmpty, Gathering, FragInv, Untouched

(* The invariant is inductive.                                             *)
LEMMA NextInv ==
  ASSUME Shared => Forces \subseteq {FALSE}, IInv, [Next]_vars
  PROVE  IInv'
BY HsStepInv, TransportInv, AppStepInv, StutterInv DEF Next

(* What the invariant says of the state.                                   *)
LEMMA InvNoOverrun == ASSUME IInv PROVE NoOverrun
<1> SUFFICES ASSUME iomode # "FAILED" PROVE NoOverrun
  BY DEF NoOverrun
<1>1. /\ InOK(ix, incrypt) /\ OutOK(ox, outenc) /\ WindowInv
      /\ ix.a \in Nat /\ ix.b \in Nat /\ ix.c \in Nat
      /\ ox.a \in Nat /\ ox.b \in Nat /\ ox.c \in Nat /\ incrypt \in BOOLEAN
      /\ h.in0 \in Nat /\ h.in \in Nat /\ h.out \in Nat /\ h.put \in Nat
  BY DEF IInv, InputInv, OutputInv, TypeOK, InRegs, OutRegs, Window
<1>2. ix.a <= ix.b /\ ix.b + (IF incrypt /\ ix.a = ix.b THEN ix.c ELSE 0) <= IBufLen
  BY <1>1, BufferAssumption DEF InOK
<1>3. IF Gathering(ox)
      THEN /\ ox.c >= 5 + Pre(outenc) /\ ox.c <= ox.a
           /\ ox.a <= ox.b /\ ox.b + Post(outenc) <= OBufLen
      ELSE ox.a < ox.c /\ ox.c <= OBufLen
  BY <1>1, BufferAssumption DEF OutOK, OpenOK, SealedOK, Gathering, PlainStart, Pre
<1>4. /\ h.in <= h.in0 /\ (h.in0 > 0 => h.in0 <= ix.b - ix.a)
      /\ h.put + h.out > 0 => Gathering(ox) /\ ox.a + h.put + h.out <= ox.b
  BY <1>1 DEF WindowInv, Gathering
<1> QED BY <1>2, <1>3, <1>4 DEF NoOverrun

(* In a shared buffer, input to read excludes room to write.               *)
LEMMA InvOneWindow == ASSUME IInv PROVE OneWindowWhenShared
<1> SUFFICES ASSUME Shared, h.in > 0, h.out + h.put > 0 PROVE FALSE
  BY DEF OneWindowWhenShared
<1>1. /\ h.in0 > 0 /\ h.put + h.out > 0 /\ ix.a \in Nat /\ ix.b \in Nat
      /\ h.in0 \in Nat
  BY DEF IInv, TypeOK, Window, WindowInv, InRegs
<1>2. Receiving(iomode) /\ iomode \in {"OUT", "INOUT"} /\ ix.a # ix.b
  BY <1>1 DEF IInv, WindowInv
<1>3. ix = ReadyIn
  BY <1>2 DEF IInv, SharedBufferExclusive, InEmpty
<1> QED BY <1>2, <1>3 DEF ReadyIn

(* An engine waiting for bytes has room for one.                           *)
LEMMA InvReceiving == ASSUME IInv PROVE ReceivingHasRoom
<1> SUFFICES ASSUME iomode # "FAILED", Receiving(iomode), ix.a = ix.b, ~shutdownRecv
             PROVE  RecvRecLen > 0
  BY DEF ReceivingHasRoom
<1>1. InOK(ix, incrypt) /\ ix.a \in Nat /\ ix.b \in Nat /\ ix.c \in Nat
  BY DEF IInv, InputInv, TypeOK, InRegs
<1>2. ix.c > 0 /\ IBufLen - ix.a > 0 /\ IBufLen \in Nat
  BY <1>1, BufferAssumption DEF InOK
<1>3. Least(ix.c, IBufLen - ix.a) > 0
  BY <1>1, <1>2 DEF Least
<1> QED BY <1>3 DEF RecvRecLen

-----------------------------------------------------------------------------
(* The theorems.                                                           *)

(* The inductive invariant: in every reachable state the registers, the    *)
(* mode, the windows and the program fit together (ssl_engine.c and the t0 *)
(* words), provided nothing forces a flush of a shared buffer.             *)
THEOREM Invariance ==
  ASSUME Shared => Forces \subseteq {FALSE}
  PROVE  Spec => []IInv
<1>1. Init => IInv
  BY InitInv
<1>2. IInv /\ [Next]_vars => IInv'
  BY NextInv
<1> QED BY <1>1, <1>2, PTL DEF Spec

(* Every register is a natural number and every flag a flag, in every call *)
(* sequence: no register of ssl_engine.c wraps below zero.                 *)
THEOREM TypeCorrect ==
  ASSUME Shared => Forces \subseteq {FALSE}
  PROVE  Spec => []TypeOK
<1>1. IInv => TypeOK
  BY DEF IInv
<1> QED BY <1>1, Invariance, PTL

(* No record, sealed or being received, and no window given to the         *)
(* handshake code leaves its buffer (recvrec_ack, sendpld_ack,             *)
(* sendpld_flush, make_ready_out, jump_handshake), for every buffer size   *)
(* that set_buffers_bidi accepts.                                          *)
THEOREM BufferBounds ==
  ASSUME Shared => Forces \subseteq {FALSE}
  PROVE  Spec => []NoOverrun
<1>1. IInv => NoOverrun
  BY InvNoOverrun
<1> QED BY <1>1, Invariance, PTL

(* A shared buffer never holds data of both directions                     *)
(* (ssl_engine.c:130-133), provided no flush of it is forced.              *)
THEOREM BufferExclusive ==
  ASSUME Shared => Forces \subseteq {FALSE}
  PROVE  Spec => []SharedBufferExclusive
<1>1. IInv => SharedBufferExclusive
  BY DEF IInv
<1> QED BY <1>1, Invariance, PTL

(* With a shared buffer the handshake code never sees input and room for   *)
(* output at once (ssl_engine.c:1072).                                     *)
THEOREM OneWindow ==
  ASSUME Shared => Forces \subseteq {FALSE}
  PROVE  Spec => []OneWindowWhenShared
<1>1. IInv => OneWindowWhenShared
  BY InvOneWindow
<1> QED BY <1>1, Invariance, PTL

(* An engine that expects record bytes always has room for one             *)
(* (ssl_engine.c:579-587): no accepted header leads to a full buffer.      *)
THEOREM NeverFull ==
  ASSUME Shared => Forces \subseteq {FALSE}
  PROVE  Spec => []ReceivingHasRoom
<1>1. IInv => ReceivingHasRoom
  BY InvReceiving
<1> QED BY <1>1, Invariance, PTL

-----------------------------------------------------------------------------
(* Part two, the order of what the handshake code does.  Application data  *)
(* only passes under both protections, the close_notify is the last        *)
(* record, an engine that ends without an error was closed both ways, and  *)
(* with a shared buffer the handshake code reads bytes of handshake        *)
(* records only.                                                           *)

(* Some instructions end a program; what was written is flushed next.      *)
(* "next" is the operation after the last one, or "none".                  *)
LastOps == {"end", "branch", "fail", "closeWait"}
OutOps  == {"write", "alert"}
Leads(t, next) == \A k \in 1 .. Len(t) :
  /\ t[k].op \in LastOps => k = Len(t) /\ next = "none"
  /\ t[k].op \in OutOps => (IF k < Len(t) THEN t[k + 1].op ELSE next) = "flush"
Ordered(t) == Leads(t, "none")
Has(op, t) == \E k \in 1 .. Len(t) : t[k].op = op

(* No application data passes before the protection is on both ways: a     *)
(* program that may end in "end" still has the ChangeCipherSpecs to do.    *)
Protects(t, in, out) ==
  \/ Has("branch", t) \/ Has("closeWait", t) \/ Has("fail", t)
  \/ (in \/ Has("readCcs", t)) /\ (out \/ Has("writeCcs", t))

ProgramInv ==
  /\ Ordered(todo)
  /\ iomode # "FAILED" => Protects(todo, incrypt, outenc)
  /\ appdata # 0 => incrypt /\ outenc
  /\ appdata = 1 => ~Has("closeWait", todo)
PutInv == h.put > 0 => At("write") \/ At("flush")
HdrInv == iomode # "FAILED" /\ Gathering(ox) => ox.hdr = NoHdr
CnrInv == cnr => shutdownRecv \/ pc = "alerts"
OrderInv == ProgramInv /\ PutInv /\ HdrInv /\ CnrInv

-----------------------------------------------------------------------------
(* Programs and their parts.                                               *)

(* Head and tail of a program, by position.                                *)
LEMMA Positions ==
  ASSUME NEW t \in Seq(Instr), t # <<>>
  PROVE  /\ Len(t) \in Nat /\ Len(t) > 0 /\ Len(Tail(t)) = Len(t) - 1 /\ Head(t) = t[1]
         /\ Tail(t) \in Seq(Instr)
         /\ \A j \in 1 .. Len(t) - 1 : Tail(t)[j] = t[j + 1]
BY EmptySeq, LenProperties, HeadTailProperties, SMT

(* Two parts in order make a program in order.                             *)
LEMMA CatLeads ==
  ASSUME NEW s \in Seq(Instr), NEW t \in Seq(Instr), NEW next, NEW op,
         t # <<>>, t[1].op = op, op # "none", Leads(s, op), Leads(t, next)
  PROVE  Leads(s \o t, next)
<1>1. Len(s \o t) = Len(s) + Len(t) /\ Len(t) > 0 /\ Len(s) \in Nat /\ Len(t) \in Nat
  BY ConcatProperties, EmptySeq, LenProperties
<1> SUFFICES ASSUME NEW k \in 1 .. Len(s) + Len(t)
             PROVE  /\ (s \o t)[k].op \in LastOps => k = Len(s \o t) /\ next = "none"
                    /\ (s \o t)[k].op \in OutOps =>
                         (IF k < Len(s \o t) THEN (s \o t)[k + 1].op ELSE next) = "flush"
  BY <1>1 DEF Leads
<1>2. \A j \in 1 .. Len(s) + Len(t) : (s \o t)[j] = IF j <= Len(s) THEN s[j] ELSE t[j - Len(s)]
  BY ConcatProperties
<1>3. CASE k < Len(s)
  <2>1. k \in 1 .. Len(s) /\ (s \o t)[k] = s[k] /\ (s \o t)[k + 1] = s[k + 1]
    BY <1>1, <1>2, <1>3
  <2>2. /\ s[k].op \in LastOps => k = Len(s) /\ op = "none"
        /\ s[k].op \in OutOps => (IF k < Len(s) THEN s[k + 1].op ELSE op) = "flush"
    BY <2>1 DEF Leads
  <2> QED BY <1>1, <1>3, <2>1, <2>2
<1>4. CASE k = Len(s)
  <2>1. k \in 1 .. Len(s) /\ (s \o t)[k] = s[k] /\ (s \o t)[k + 1] = t[1]
    BY <1>1, <1>2, <1>4
  <2>2. /\ s[k].op \in LastOps => k = Len(s) /\ op = "none"
        /\ s[k].op \in OutOps => (IF k < Len(s) THEN s[k + 1].op ELSE op) = "flush"
    BY <2>1 DEF Leads
  <2> QED BY <1>1, <1>4, <2>1, <2>2
<1>5. CASE k > Len(s)
  <2>1. k - Len(s) \in 1 .. Len(t)
    BY <1>1, <1>5
  <2>2. (s \o t)[k] = t[k - Len(s)]
    BY <1>1, <1>2, <1>5
  <2>3. k < Len(s) + Len(t) => (s \o t)[k + 1] = t[k - Len(s) + 1]
    BY <1>1, <1>2, <1>5
  <2>4. /\ t[k - Len(s)].op \in LastOps => k - Len(s) = Len(t) /\ next = "none"
        /\ t[k - Len(s)].op \in OutOps =>
             (IF k - Len(s) < Len(t) THEN t[k - Len(s) + 1].op ELSE next) = "flush"
    BY <2>1 DEF Leads
  <2>5. /\ k = Len(s \o t) <=> k - Len(s) = Len(t)
        /\ k < Len(s \o t) <=> k - Len(s) < Len(t)
        /\ k < Len(s \o t) <=> k < Len(s) + Len(t)
    BY <1>1
  <2> QED BY <2>2, <2>3, <2>4, <2>5
<1> QED BY <1>1, <1>3, <1>4, <1>5

(* A program has the operations of its parts.                              *)
LEMMA CatHas ==
  ASSUME NEW s \in Seq(Instr), NEW t \in Seq(Instr), NEW op
  PROVE  Has(op, s \o t) <=> Has(op, s) \/ Has(op, t)
<1>1. /\ Len(s \o t) = Len(s) + Len(t) /\ Len(s) \in Nat /\ Len(t) \in Nat
      /\ \A j \in 1 .. Len(s) + Len(t) : (s \o t)[j] = IF j <= Len(s) THEN s[j] ELSE t[j - Len(s)]
  BY ConcatProperties, LenProperties
<1>2. ASSUME Has(op, s \o t) PROVE Has(op, s) \/ Has(op, t)
  <2>1. PICK k \in 1 .. Len(s) + Len(t) : (s \o t)[k].op = op
    BY <1>1, <1>2 DEF Has
  <2>2. CASE k <= Len(s)
    BY <1>1, <2>1, <2>2 DEF Has
  <2>3. CASE k > Len(s)
    <3>1. k - Len(s) \in 1 .. Len(t) /\ t[k - Len(s)].op = op
      BY <1>1, <2>1, <2>3
    <3> QED BY <3>1 DEF Has
  <2> QED BY <1>1, <2>2, <2>3
<1>3. ASSUME Has(op, s) PROVE Has(op, s \o t)
  BY <1>1, <1>3 DEF Has
<1>4. ASSUME Has(op, t) PROVE Has(op, s \o t)
  <2>1. PICK k \in 1 .. Len(t) : t[k].op = op
    BY <1>4 DEF Has
  <2>2. k + Len(s) \in 1 .. Len(s) + Len(t) /\ (s \o t)[k + Len(s)].op = op
    BY <1>1, <2>1
  <2> QED BY <1>1, <2>2 DEF Has
<1> QED BY <1>2, <1>3, <1>4

(* What is left after the first instruction: in order, with the operations *)
(* of the rest; nothing follows a last one, and a flush follows output.    *)
LEMMA TailParts ==
  ASSUME NEW t \in Seq(Instr), t # <<>>
  PROVE  /\ Ordered(t) => Ordered(Tail(t))
         /\ \A op : Has(op, t) <=> Head(t).op = op \/ Has(op, Tail(t))
         /\ Ordered(t) /\ Head(t).op \in LastOps => Tail(t) = <<>>
         /\ Ordered(t) /\ Head(t).op \in OutOps => Tail(t) # <<>> /\ Head(Tail(t)).op = "flush"
<1>1. /\ Len(t) \in Nat /\ Len(t) > 0 /\ Len(Tail(t)) = Len(t) - 1 /\ Head(t) = t[1]
      /\ Tail(t) \in Seq(Instr)
      /\ \A j \in 1 .. Len(t) - 1 : Tail(t)[j] = t[j + 1]
  BY Positions
<1>2. ASSUME Ordered(t) PROVE Ordered(Tail(t))
  <2> SUFFICES ASSUME NEW k \in 1 .. Len(t) - 1
               PROVE  /\ Tail(t)[k].op \in LastOps => k = Len(t) - 1
                      /\ Tail(t)[k].op \in OutOps =>
                           (IF k < Len(t) - 1 THEN Tail(t)[k + 1].op ELSE "none") = "flush"
    BY <1>1 DEF Ordered, Leads
  <2>1. k + 1 \in 1 .. Len(t) /\ Tail(t)[k] = t[k + 1]
    BY <1>1
  <2>2. /\ t[k + 1].op \in LastOps => k + 1 = Len(t)
        /\ t[k + 1].op \in OutOps => (IF k + 1 < Len(t) THEN t[k + 1 + 1].op ELSE "none") = "flush"
    BY <1>2, <2>1 DEF Ordered, Leads
  <2>3. k < Len(t) - 1 => Tail(t)[k + 1] = t[k + 1 + 1]
    BY <1>1
  <2>4. k + 1 = Len(t) <=> k = Len(t) - 1
    BY <1>1
  <2>5. k + 1 < Len(t) <=> k < Len(t) - 1
    BY <1>1
  <2> QED BY <2>1, <2>2, <2>3, <2>4, <2>5
<1>3. ASSUME NEW op PROVE Has(op, t) <=> Head(t).op = op \/ Has(op, Tail(t))
  <2>1. ASSUME Has(op, t) PROVE Head(t).op = op \/ Has(op, Tail(t))
    <3>1. PICK k \in 1 .. Len(t) : t[k].op = op
      BY <2>1 DEF Has
    <3>2. CASE k = 1
      BY <1>1, <3>1, <3>2
    <3>3. CASE k > 1
      <4>1. k - 1 \in 1 .. Len(Tail(t)) /\ Tail(t)[k - 1].op = op
        BY <1>1, <3>1, <3>3
      <4> QED BY <4>1 DEF Has
    <3> QED BY <1>1, <3>2, <3>3
  <2>2. ASSUME Head(t).op = op PROVE Has(op, t)
    BY <1>1, <2>2 DEF Has
  <2>3. ASSUME Has(op, Tail(t)) PROVE Has(op, t)
    <3>1. PICK k \in 1 .. Len(t) - 1 : Tail(t)[k].op = op
      BY <1>1, <2>3 DEF Has
    <3>2. k + 1 \in 1 .. Len(t) /\ t[k + 1].op = op
      BY <1>1, <3>1
    <3> QED BY <3>2 DEF Has
  <2> QED BY <2>1, <2>2, <2>3
<1>4. ASSUME Ordered(t), Head(t).op \in LastOps PROVE Tail(t) = <<>>
  <2>1. 1 \in 1 .. Len(t) /\ t[1].op \in LastOps
    BY <1>1, <1>4
  <2>2. Len(t) = 1
    BY <1>4, <2>1 DEF Ordered, Leads
  <2>3. Len(Tail(t)) = 0
    BY <1>1, <2>2
  <2> QED BY <1>1, <2>3, EmptySeq
<1>5. ASSUME Ordered(t), Head(t).op \in OutOps
      PROVE  Tail(t) # <<>> /\ Head(Tail(t)).op = "flush"
  <2>1. 1 \in 1 .. Len(t) /\ t[1].op \in OutOps
    BY <1>1, <1>5
  <2>2. (IF 1 < Len(t) THEN t[1 + 1].op ELSE "none") = "flush"
    BY <1>5, <2>1 DEF Ordered, Leads
  <2>3. 1 < Len(t) /\ t[1 + 1].op = "flush"
    BY <2>2
  <2>4. Tail(t) # <<>>
    <3>1. Len(Tail(t)) # 0
      BY <1>1, <2>3
    <3> QED BY <1>1, <3>1, EmptySeq
  <2>5. Head(Tail(t)) = Tail(t)[1]
    BY <1>1, <2>4, HeadTailProperties
  <2>6. Tail(t)[1] = t[1 + 1]
    BY <1>1, <2>3
  <2> QED BY <2>3, <2>4, <2>5, <2>6
<1> QED BY <1>2, <1>3, <1>4, <1>5

(* A program whose first instruction is part done.                         *)
Shortened(t, m) == <<I(Head(t).op, m)>> \o Tail(t)

(* ... has the operations it had.                                          *)
LEMMA SameParts ==
  ASSUME NEW t \in Seq(Instr), NEW m, t # <<>>
  PROVE  /\ Ordered(t) => Ordered(Shortened(t, m))
         /\ \A o : Has(o, Shortened(t, m)) <=> Has(o, t)
         /\ Shortened(t, m) # <<>> /\ Head(Shortened(t, m)).op = Head(t).op
         /\ Len(Shortened(t, m)) = Len(t)
         /\ \A j \in 1 .. Len(t) : Shortened(t, m)[j].op = t[j].op
<1> DEFINE op == Head(t).op  s == Shortened(t, m)
<1>0. s = <<I(op, m)>> \o Tail(t)
  BY DEF Shortened
<1> HIDE DEF s
<1>1. /\ Len(t) \in Nat /\ Len(t) > 0 /\ Len(Tail(t)) = Len(t) - 1 /\ Head(t) = t[1]
      /\ Tail(t) \in Seq(Instr)
      /\ \A j \in 1 .. Len(t) - 1 : Tail(t)[j] = t[j + 1]
  BY Positions
<1>2. I(op, m).op = op
  BY DEF I
<1>3. s \in Seq(Instr \union {I(op, m)})
  BY <1>0, <1>1
<1>4. /\ Len(s) = Len(t)
      /\ \A j \in 1 .. Len(t) : s[j] = IF j = 1 THEN I(op, m) ELSE Tail(t)[j - 1]
  BY <1>0, <1>1
<1>5. \A j \in 1 .. Len(t) : s[j].op = t[j].op
  <2> SUFFICES ASSUME NEW j \in 1 .. Len(t) PROVE s[j].op = t[j].op
    OBVIOUS
  <2>1. CASE j = 1
    BY <1>1, <1>2, <1>4, <2>1
  <2>2. CASE j # 1
    <3>1. j - 1 \in 1 .. Len(t) - 1 /\ (j - 1) + 1 = j
      BY <1>1, <2>2
    <3> QED BY <1>1, <1>4, <2>2, <3>1
  <2> QED BY <2>1, <2>2
<1>6. s # <<>> /\ Head(s) = s[1]
  BY <1>1, <1>3, <1>4, EmptySeq
<1>7. ASSUME Ordered(t) PROVE Ordered(s)
  <2> SUFFICES ASSUME NEW k \in 1 .. Len(t)
               PROVE  /\ s[k].op \in LastOps => k = Len(t)
                      /\ s[k].op \in OutOps => (IF k < Len(t) THEN s[k + 1].op ELSE "none") = "flush"
    BY <1>4 DEF Ordered, Leads
  <2>1. /\ t[k].op \in LastOps => k = Len(t)
        /\ t[k].op \in OutOps => (IF k < Len(t) THEN t[k + 1].op ELSE "none") = "flush"
    BY <1>7 DEF Ordered, Leads
  <2>2. k < Len(t) => s[k + 1].op = t[k + 1].op
    BY <1>1, <1>5
  <2> QED BY <1>5, <2>1, <2>2
<1>8. \A o : Has(o, s) <=> Has(o, t)
  BY <1>4, <1>5 DEF Has
<1>9. Head(s).op = op
  BY <1>1, <1>2, <1>4, <1>6
<1> QED BY <1>4, <1>5, <1>6, <1>7, <1>8, <1>9 DEF s

-----------------------------------------------------------------------------
(* The programs are in order.                                              *)

(* Instructions that are not part of a closure.                            *)
PlainInstr == {i \in Instr : i.op \notin {"closeRoom", "closeWait"}}

(* What a program is made of is an instruction.                            *)
LEMMA PlainOK ==
  ASSUME NEW op \in Ops \ {"closeRoom", "closeWait"}, NEW n \in Nat, op = "type" => n \in RecTypes
  PROVE  I(op, n) \in PlainInstr
BY DEF I, Ops, PlainInstr, Instr

(* A program of such instructions has nothing of a closure.                *)
LEMMA PlainHas ==
  ASSUME NEW t \in Seq(PlainInstr)
  PROVE  t \in Seq(Instr) /\ ~Has("closeRoom", t) /\ ~Has("closeWait", t)
<1>1. t \in Seq(Instr)
  <2>1. PlainInstr \subseteq Instr
    BY DEF PlainInstr
  <2> QED BY <2>1, SMT
<1>2. \A k \in 1 .. Len(t) : t[k] \in PlainInstr
  BY LenProperties
<1> QED BY <1>1, <1>2 DEF Has, PlainInstr

(* The pieces of a handshake.                                              *)
LEMMA Pieces ==
  LET a == <<I("write", MsgLen), I("flush", 0), I("read", MsgLen)>>
      b == <<I("read", MsgLen), I("nomore", 0), I("write", MsgLen)>>
      d == <<I("read", MsgLen), I("frag", 0), I("nomore", 0)>>
      e == <<I("write", MsgLen)>>
      f == <<I("noapp", 0), I("read", MsgLen)>>
      g == <<I("read", MsgLen)>>
      begin == <<I("begin", 0)>>
      end == <<I("end", 0)>>
      branch == <<I("branch", 0)>>
      All == {a, b, d, e, f, g, begin, end, branch,
              WriteCcsFinished, ReadCcsFinished, RejectReneg, FailAlert}
  IN  /\ \A t \in All : t \in Seq(PlainInstr) /\ t # <<>>
      /\ \A t \in {a, d, f, g, begin, WriteCcsFinished, ReadCcsFinished},
            op \in {"flush", "read", "write", "readCcs", "end", "branch", "begin"} : Leads(t, op)
      /\ \A t \in {b, e} : Leads(t, "flush")
      /\ \A t \in {end, branch, RejectReneg, FailAlert} : Ordered(t)
<1>1. MsgLen \in Nat
  BY BufferAssumption
<1>2. HANDSHAKE \in Nat /\ HANDSHAKE \in RecTypes
  BY DEF HANDSHAKE, RecTypes
<1>3. \A op \in Ops \ {"type", "closeRoom", "closeWait"}, n \in Nat : I(op, n) \in PlainInstr
  BY PlainOK
<1>4. /\ I("flush", 0) \in PlainInstr /\ I("writeCcs", 1) \in PlainInstr
      /\ I("room", 0) \in PlainInstr /\ I("write", MsgLen) \in PlainInstr
      /\ I("readCcs", 1) \in PlainInstr /\ I("read", MsgLen) \in PlainInstr
      /\ I("nomore", 0) \in PlainInstr /\ I("end", 0) \in PlainInstr
      /\ I("alert", 2) \in PlainInstr /\ I("fail", 0) \in PlainInstr
      /\ I("begin", 0) \in PlainInstr /\ I("branch", 0) \in PlainInstr
      /\ I("frag", 0) \in PlainInstr /\ I("noapp", 0) \in PlainInstr
  BY <1>1, <1>3 DEF Ops
<1>5. I("type", HANDSHAKE) \in PlainInstr
  BY <1>2, PlainOK DEF Ops
<1> HIDE DEF PlainInstr
<1>6. /\ WriteCcsFinished \in Seq(PlainInstr) /\ WriteCcsFinished # <<>>
      /\ ReadCcsFinished \in Seq(PlainInstr) /\ ReadCcsFinished # <<>>
      /\ RejectReneg \in Seq(PlainInstr) /\ RejectReneg # <<>>
      /\ FailAlert \in Seq(PlainInstr) /\ FailAlert # <<>>
  BY <1>4, <1>5 DEF WriteCcsFinished, ReadCcsFinished, RejectReneg, FailAlert
<1>7. \A op \in {"flush", "read", "write", "readCcs", "end", "branch", "begin"} :
        /\ Leads(<<I("write", MsgLen), I("flush", 0), I("read", MsgLen)>>, op)
        /\ Leads(<<I("read", MsgLen), I("frag", 0), I("nomore", 0)>>, op)
        /\ Leads(<<I("noapp", 0), I("read", MsgLen)>>, op)
        /\ Leads(<<I("read", MsgLen)>>, op)
        /\ Leads(<<I("begin", 0)>>, op)
  BY DEF Leads, I, LastOps, OutOps
<1>8. \A op \in {"flush", "read", "write", "readCcs", "end", "branch", "begin"} :
        Leads(WriteCcsFinished, op) /\ Leads(ReadCcsFinished, op)
  BY DEF Leads, I, LastOps, OutOps, WriteCcsFinished, ReadCcsFinished
<1>9. /\ Leads(<<I("read", MsgLen), I("nomore", 0), I("write", MsgLen)>>, "flush")
      /\ Leads(<<I("write", MsgLen)>>, "flush")
  BY DEF Leads, I, LastOps, OutOps
<1>10. Ordered(<<I("end", 0)>>) /\ Ordered(<<I("branch", 0)>>)
  BY DEF Ordered, Leads, I, LastOps, OutOps
<1>11. Ordered(RejectReneg) /\ Ordered(FailAlert)
  BY DEF Ordered, Leads, I, LastOps, OutOps, RejectReneg, FailAlert
<1> QED BY <1>4, <1>6, <1>7, <1>8, <1>9, <1>10, <1>11

(* Such pieces in a row are a program, in order.                           *)
LEMMA CatPlain ==
  ASSUME NEW s \in Seq(PlainInstr), NEW t \in Seq(PlainInstr), NEW op, NEW next,
         s # <<>>, t # <<>>, t[1].op = op, op # "none", Leads(s, op), Leads(t, next)
  PROVE  /\ s \o t \in Seq(PlainInstr) /\ s \o t # <<>> /\ (s \o t)[1] = s[1]
         /\ Leads(s \o t, next)
         /\ \A o : Has(o, s) \/ Has(o, t) => Has(o, s \o t)
<1>1. s \in Seq(Instr) /\ t \in Seq(Instr)
  BY PlainHas
<1>2. s \o t \in Seq(PlainInstr) /\ Len(s \o t) = Len(s) + Len(t)
  BY ConcatProperties
<1>3. Len(s) \in Nat \ {0} /\ Len(t) \in Nat
  BY <1>1, EmptySeq, LenProperties
<1>4. s \o t # <<>>
  BY <1>2, <1>3, EmptySeq
<1>5. (s \o t)[1] = s[1]
  BY <1>1, <1>3, ConcatProperties
<1>6. Leads(s \o t, next)
  BY <1>1, CatLeads
<1> QED BY <1>1, <1>2, <1>4, <1>5, <1>6, CatHas

(* The initial handshake up to the hello messages is in order, and goes on *)
(* with the rest of a handshake.                                           *)
LEMMA DoHandshakeOrdered ==
  /\ DoHandshake \in Seq(PlainInstr) /\ Ordered(DoHandshake)
  /\ DoHandshake # <<>> /\ Has("branch", DoHandshake)
  /\ DoHandshake[1].op = "begin" /\ Head(DoHandshake).op = "begin"
<1> DEFINE begin == <<I("begin", 0)>>
           branch == <<I("branch", 0)>>
           a == <<I("write", MsgLen), I("flush", 0), I("read", MsgLen)>>
           d == <<I("read", MsgLen), I("frag", 0), I("nomore", 0)>>
           hello == IF Role = "client" THEN a ELSE d
<1>1. /\ \A t \in {begin, hello, branch} : t \in Seq(PlainInstr) /\ t # <<>>
      /\ Leads(begin, "write") /\ Leads(begin, "read") /\ Leads(hello, "branch") /\ Ordered(branch)
  BY Pieces
<1>2. /\ hello[1].op \in {"write", "read"} /\ branch[1].op = "branch"
      /\ begin[1].op = "begin" /\ Has("branch", branch)
  BY DEF I, Has
<1>3. DoHandshake = (begin \o hello) \o branch
  BY DEF DoHandshake
<1> HIDE DEF begin, branch, hello
<1>4. /\ begin \o hello \in Seq(PlainInstr) /\ begin \o hello # <<>>
      /\ Leads(begin \o hello, "branch") /\ (begin \o hello)[1] = begin[1]
  BY <1>1, <1>2, CatPlain
<1>5. /\ (begin \o hello) \o branch \in Seq(PlainInstr)
      /\ (begin \o hello) \o branch # <<>>
      /\ Leads((begin \o hello) \o branch, "none")
      /\ Has("branch", (begin \o hello) \o branch)
      /\ ((begin \o hello) \o branch)[1] = begin[1]
  BY <1>1, <1>2, <1>4, CatPlain DEF Ordered
<1>6. Head((begin \o hello) \o branch) = ((begin \o hello) \o branch)[1]
  BY <1>5, HeadTailProperties
<1> QED BY <1>2, <1>3, <1>5, <1>6 DEF Ordered

(* A full handshake is in order, with a ChangeCipherSpec each way.         *)
LEMMA FullHandshakeOrdered ==
  /\ FullHandshake \in Seq(PlainInstr) /\ Ordered(FullHandshake)
  /\ Has("readCcs", FullHandshake) /\ Has("writeCcs", FullHandshake)
<1> DEFINE a == <<I("write", MsgLen), I("flush", 0), I("read", MsgLen)>>
           b == <<I("read", MsgLen), I("nomore", 0), I("write", MsgLen)>>
           end == <<I("end", 0)>>
           w == WriteCcsFinished  r == ReadCcsFinished
<1>1. \A t \in {a, b, end, w, r} : t \in Seq(PlainInstr) /\ t # <<>>
  BY Pieces
<1>2. /\ Leads(a, "readCcs") /\ Leads(b, "flush") /\ Ordered(end)
      /\ \A op \in {"flush", "readCcs", "end"} : Leads(w, op) /\ Leads(r, op)
  BY Pieces
<1>3. end[1].op = "end" /\ w[1].op = "flush" /\ r[1].op = "readCcs"
  BY DEF I, WriteCcsFinished, ReadCcsFinished
<1>4. Has("readCcs", r) /\ Has("writeCcs", w)
  BY DEF I, Has, WriteCcsFinished, ReadCcsFinished
<1>5. CASE Role = "client"
  <2>1. FullHandshake = ((b \o w) \o r) \o end
    BY <1>5 DEF FullHandshake
  <2> HIDE DEF b, w, r, end
  <2>2. /\ b \o w \in Seq(PlainInstr) /\ b \o w # <<>> /\ Leads(b \o w, "readCcs")
        /\ Has("writeCcs", b \o w)
    BY <1>1, <1>2, <1>3, <1>4, CatPlain
  <2>3. /\ (b \o w) \o r \in Seq(PlainInstr) /\ (b \o w) \o r # <<>>
        /\ Leads((b \o w) \o r, "end")
        /\ Has("writeCcs", (b \o w) \o r) /\ Has("readCcs", (b \o w) \o r)
    BY <1>1, <1>2, <1>3, <1>4, <2>2, CatPlain
  <2>4. /\ ((b \o w) \o r) \o end \in Seq(PlainInstr) /\ Leads(((b \o w) \o r) \o end, "none")
        /\ Has("writeCcs", ((b \o w) \o r) \o end) /\ Has("readCcs", ((b \o w) \o r) \o end)
    BY <1>1, <1>2, <1>3, <2>3, CatPlain DEF Ordered
  <2> QED BY <2>1, <2>4 DEF Ordered
<1>6. CASE Role # "client"
  <2>1. FullHandshake = ((a \o r) \o w) \o end
    BY <1>6 DEF FullHandshake
  <2> HIDE DEF a, w, r, end
  <2>2. /\ a \o r \in Seq(PlainInstr) /\ a \o r # <<>> /\ Leads(a \o r, "flush")
        /\ Has("readCcs", a \o r)
    BY <1>1, <1>2, <1>3, <1>4, CatPlain
  <2>3. /\ (a \o r) \o w \in Seq(PlainInstr) /\ (a \o r) \o w # <<>>
        /\ Leads((a \o r) \o w, "end")
        /\ Has("writeCcs", (a \o r) \o w) /\ Has("readCcs", (a \o r) \o w)
    BY <1>1, <1>2, <1>3, <1>4, <2>2, CatPlain
  <2>4. /\ ((a \o r) \o w) \o end \in Seq(PlainInstr) /\ Leads(((a \o r) \o w) \o end, "none")
        /\ Has("writeCcs", ((a \o r) \o w) \o end) /\ Has("readCcs", ((a \o r) \o w) \o end)
    BY <1>1, <1>2, <1>3, <2>3, CatPlain DEF Ordered
  <2> QED BY <2>1, <2>4 DEF Ordered
<1> QED BY <1>5, <1>6

(* ... and so is the resumption of a session.                              *)
LEMMA ResumptionOrdered ==
  /\ Resumption \in Seq(PlainInstr) /\ Ordered(Resumption)
  /\ Has("readCcs", Resumption) /\ Has("writeCcs", Resumption)
<1> DEFINE e == <<I("write", MsgLen)>>
           end == <<I("end", 0)>>
           w == WriteCcsFinished  r == ReadCcsFinished
<1>1. \A t \in {e, end, w, r} : t \in Seq(PlainInstr) /\ t # <<>>
  BY Pieces
<1>2. /\ Leads(e, "flush") /\ Ordered(end)
      /\ \A op \in {"flush", "readCcs", "end"} : Leads(w, op) /\ Leads(r, op)
  BY Pieces
<1>3. end[1].op = "end" /\ w[1].op = "flush" /\ r[1].op = "readCcs"
  BY DEF I, WriteCcsFinished, ReadCcsFinished
<1>4. Has("readCcs", r) /\ Has("writeCcs", w)
  BY DEF I, Has, WriteCcsFinished, ReadCcsFinished
<1>5. CASE Role = "client"
  <2>1. Resumption = (r \o w) \o end
    BY <1>5 DEF Resumption
  <2> HIDE DEF w, r, end
  <2>2. /\ r \o w \in Seq(PlainInstr) /\ r \o w # <<>> /\ Leads(r \o w, "end")
        /\ Has("readCcs", r \o w) /\ Has("writeCcs", r \o w)
    BY <1>1, <1>2, <1>3, <1>4, CatPlain
  <2>3. /\ (r \o w) \o end \in Seq(PlainInstr) /\ Leads((r \o w) \o end, "none")
        /\ Has("readCcs", (r \o w) \o end) /\ Has("writeCcs", (r \o w) \o end)
    BY <1>1, <1>2, <1>3, <2>2, CatPlain DEF Ordered
  <2> QED BY <2>1, <2>3 DEF Ordered
<1>6. CASE Role # "client"
  <2>1. Resumption = ((e \o w) \o r) \o end
    BY <1>6 DEF Resumption
  <2> HIDE DEF e, w, r, end
  <2>2. /\ e \o w \in Seq(PlainInstr) /\ e \o w # <<>> /\ Leads(e \o w, "readCcs")
        /\ Has("writeCcs", e \o w)
    BY <1>1, <1>2, <1>3, <1>4, CatPlain
  <2>3. /\ (e \o w) \o r \in Seq(PlainInstr) /\ (e \o w) \o r # <<>>
        /\ Leads((e \o w) \o r, "end")
        /\ Has("writeCcs", (e \o w) \o r) /\ Has("readCcs", (e \o w) \o r)
    BY <1>1, <1>2, <1>3, <1>4, <2>2, CatPlain
  <2>4. /\ ((e \o w) \o r) \o end \in Seq(PlainInstr) /\ Leads(((e \o w) \o r) \o end, "none")
        /\ Has("writeCcs", ((e \o w) \o r) \o end) /\ Has("readCcs", ((e \o w) \o r) \o end)
    BY <1>1, <1>2, <1>3, <2>3, CatPlain DEF Ordered
  <2> QED BY <2>1, <2>4 DEF Ordered
<1> QED BY <1>5, <1>6

(* The programs of the main loop are in order.                             *)
LEMMA MainOrdered ==
  /\ OnHandshakeData \in Seq(PlainInstr) /\ Ordered(OnHandshakeData)
  /\ OnRenegotiate \in Seq(PlainInstr) /\ Ordered(OnRenegotiate)
<1> DEFINE f == <<I("noapp", 0), I("read", MsgLen)>>
           g == <<I("read", MsgLen)>>
           reject == IF NoReneg THEN RejectReneg ELSE DoHandshake
<1>1. /\ f \in Seq(PlainInstr) /\ g \in Seq(PlainInstr) /\ RejectReneg \in Seq(PlainInstr)
      /\ f # <<>> /\ g # <<>> /\ RejectReneg # <<>> /\ Ordered(RejectReneg)
      /\ \A op \in {"flush", "begin"} : Leads(f, op) /\ Leads(g, op)
  BY Pieces
<1>2. RejectReneg[1].op = "flush"
  BY DEF I, RejectReneg
<1>3. DoHandshake[1].op = "begin"
  BY DoHandshakeOrdered
<1>4. OnHandshakeData \in {f \o RejectReneg, f \o DoHandshake, g \o RejectReneg, DoHandshake}
  BY DEF OnHandshakeData
<1> HIDE DEF f, g
<1>5. /\ \A t \in {f \o RejectReneg, f \o DoHandshake, g \o RejectReneg} :
           t \in Seq(PlainInstr) /\ Ordered(t)
  BY <1>1, <1>2, <1>3, DoHandshakeOrdered, CatPlain DEF Ordered
<1>6. OnHandshakeData \in Seq(PlainInstr) /\ Ordered(OnHandshakeData)
  BY <1>4, <1>5, DoHandshakeOrdered
<1>7. OnRenegotiate \in Seq(PlainInstr) /\ Ordered(OnRenegotiate)
  <2>1. CASE Role = "client"
    BY <2>1, DoHandshakeOrdered DEF OnRenegotiate
  <2>2. CASE Role # "client"
    <3>1. HANDSHAKE \in Nat /\ APPDATA \in Nat /\ HANDSHAKE \in RecTypes /\ APPDATA \in RecTypes
          /\ MsgLen \in Nat
      BY BufferAssumption DEF HANDSHAKE, APPDATA, RecTypes
    <3>2. /\ I("noapp", 0) \in PlainInstr /\ I("flush", 0) \in PlainInstr
          /\ I("room", 0) \in PlainInstr /\ I("type", HANDSHAKE) \in PlainInstr
          /\ I("write", MsgLen) \in PlainInstr /\ I("type", APPDATA) \in PlainInstr
      BY <3>1, PlainOK DEF Ops
    <3>3. OnRenegotiate = <<I("noapp", 0), I("flush", 0), I("room", 0), I("type", HANDSHAKE),
                            I("write", MsgLen), I("flush", 0), I("type", APPDATA)>>
      BY <2>2 DEF OnRenegotiate
    <3>4. OnRenegotiate \in Seq(PlainInstr)
      BY <3>2, <3>3
    <3>5. Ordered(OnRenegotiate)
      BY <3>3 DEF Ordered, Leads, I, LastOps, OutOps
    <3> QED BY <3>4, <3>5
  <2> QED BY <2>1, <2>2
<1> QED BY <1>6, <1>7

(* The programs that close or fail.                                        *)
LEMMA ClosureOrdered ==
  /\ DoClose \in Seq(Instr) /\ Ordered(DoClose) /\ Has("closeWait", DoClose)
  /\ FailAlert \in Seq(PlainInstr) /\ Ordered(FailAlert) /\ Has("fail", FailAlert)
<1>1. Ordered(DoClose) /\ Has("closeWait", DoClose)
  BY DEF Ordered, Leads, Has, LastOps, OutOps, DoClose, I
<1>2. FailAlert \in Seq(PlainInstr) /\ Ordered(FailAlert)
  BY Pieces
<1>3. Has("fail", FailAlert)
  BY DEF Has, FailAlert, I
<1>4. DoClose \in Seq(Instr)
  BY ProgramsOther, SubSeqs
<1> QED BY <1>1, <1>2, <1>3, <1>4

-----------------------------------------------------------------------------
(* What the actions have in common.                                        *)

(* An action that leaves the program alone, and the output registers in    *)
(* order, preserves the invariant.                                         *)
LEMMA QuietOrder ==
  ASSUME OrderInv, UNCHANGED <<todo, appdata, incrypt, outenc, cnr, shutdownRecv>>,
         iomode' # "FAILED" => iomode # "FAILED",
         h'.put > 0 => h.put > 0, pc # "alerts" \/ pc' = pc, HdrInv'
  PROVE  OrderInv'
<1>1. ProgramInv'
  BY DEF OrderInv, ProgramInv
<1>2. PutInv'
  BY DEF OrderInv, PutInv, At
<1>3. CnrInv'
  BY DEF OrderInv, CnrInv
<1> QED BY <1>1, <1>2, <1>3 DEF OrderInv

(* A failed engine has no program left.                                    *)
LEMMA FailOrder ==
  ASSUME OrderInv, NEW e, Fail(e), UNCHANGED <<appdata, incrypt, outenc>>
  PROVE  OrderInv'
<1>1. /\ iomode' = "FAILED" /\ todo' = <<>> /\ h'.put = 0 /\ ~cnr'
  BY DEF Fail, Idle
<1>2. Ordered(<<>>) /\ ~Has("closeWait", <<>>)
  BY DEF Ordered, Leads, Has
<1>3. ProgramInv'
  BY <1>1, <1>2 DEF OrderInv, ProgramInv
<1> QED BY <1>1, <1>3 DEF OrderInv, PutInv, HdrInv, CnrInv

(* The coroutine starts another program.                                   *)
LEMMA StartOrder ==
  ASSUME OrderInv, Ordered(todo'), iomode = "FAILED" \/ Protects(todo', incrypt, outenc),
         UNCHANGED <<iomode, incrypt, outenc, ox>>,
         appdata' = appdata \/ (appdata # 0 /\ appdata' # 1) \/ appdata' = 0,
         appdata' = 1 => ~Has("closeWait", todo'),
         ~(h'.put > 0), CnrInv'
  PROVE  OrderInv'
<1>1. ProgramInv'
  BY DEF OrderInv, ProgramInv
<1>2. PutInv' /\ HdrInv'
  BY DEF OrderInv, PutInv, HdrInv
<1> QED BY <1>1, <1>2 DEF OrderInv

(* The coroutine is done with an instruction that does not end a program.  *)
LEMMA StepOrder ==
  ASSUME OrderInv, todo \in Seq(Instr), NEW op, Running(op), op \notin LastOps,
         todo' = Tail(todo), UNCHANGED <<pc, cnr, shutdownRecv>>,
         iomode' # "FAILED" => iomode # "FAILED",
         appdata' \in {0, appdata},
         incrypt' = (incrypt \/ op = "readCcs"), outenc' = (outenc \/ op = "writeCcs"),
         h'.put > 0 => op \in OutOps \/ (op # "flush" /\ h.put > 0), HdrInv'
  PROVE  OrderInv'
<1>1. todo # <<>> /\ Head(todo).op = op
  BY DEF Running, At
<1>2. /\ Ordered(todo) => Ordered(Tail(todo))
      /\ \A o : Has(o, todo) <=> op = o \/ Has(o, Tail(todo))
      /\ Ordered(todo) /\ op \in OutOps => Tail(todo) # <<>> /\ Head(Tail(todo)).op = "flush"
  BY <1>1, TailParts
<1>3. Ordered(todo') /\ (appdata' = 1 => ~Has("closeWait", todo'))
  BY <1>2 DEF OrderInv, ProgramInv
<1>4. iomode' # "FAILED" => Protects(todo', incrypt', outenc')
  BY <1>2 DEF OrderInv, ProgramInv, Protects, LastOps
<1>5. appdata' # 0 => incrypt' /\ outenc'
  BY DEF OrderInv, ProgramInv
<1>6. PutInv'
  <2>1. SUFFICES ASSUME h'.put > 0 PROVE op \in OutOps
    BY <1>2 DEF OrderInv, ProgramInv, PutInv, At
  <2> QED BY <1>1, <2>1 DEF OrderInv, PutInv, At, OutOps
<1>7. CnrInv'
  BY DEF OrderInv, CnrInv
<1> QED BY <1>3, <1>4, <1>5, <1>6, <1>7 DEF OrderInv, ProgramInv

(* The coroutine is part done with a read or a write.                      *)
LEMMA PartOrder ==
  ASSUME OrderInv, todo \in Seq(Instr), NEW op \in {"read", "write"}, Running(op), NEW m,
         todo' = <<I(op, m)>> \o Tail(todo), UNCHANGED <<pc, cnr, shutdownRecv>>,
         UNCHANGED <<iomode, appdata, incrypt, outenc>>,
         h'.put > 0 => op = "write", HdrInv'
  PROVE  OrderInv'
<1>1. todo # <<>> /\ Head(todo).op = op
  BY DEF Running, At
<1>2. /\ Ordered(todo) => Ordered(todo')
      /\ \A o : Has(o, todo') <=> Has(o, todo)
      /\ todo' # <<>> /\ Head(todo').op = op
  <2>1. todo' = Shortened(todo, m)
    BY <1>1 DEF Shortened
  <2>2. /\ Ordered(todo) => Ordered(Shortened(todo, m))
        /\ \A o : Has(o, Shortened(todo, m)) <=> Has(o, todo)
        /\ Shortened(todo, m) # <<>> /\ Head(Shortened(todo, m)).op = Head(todo).op
    BY <1>1, SameParts
  <2> QED BY <1>1, <2>1, <2>2
<1>3. ProgramInv'
  BY <1>2 DEF OrderInv, ProgramInv, Protects
<1>4. PutInv'
  BY <1>2 DEF PutInv, At
<1>5. CnrInv'
  BY DEF OrderInv, CnrInv
<1> QED BY <1>3, <1>4, <1>5 DEF OrderInv

(* Output registers: an open record has no header yet.                     *)
LEMMA SealHdr ==
  ASSUME NEW o, NEW type, NEW e, NEW force, o.hdr = NoHdr
  PROVE  Gathering(Seal(o, type, e, force)) => Seal(o, type, e, force).hdr = NoHdr
BY DEF Seal, Gathering

(* ... nor when payload is added to it.                                    *)
LEMMA AckOutHdr ==
  ASSUME NEW o, NEW type, NEW e, NEW n, o.hdr = NoHdr
  PROVE  Gathering(AckOut(o, n, type, e)) => AckOut(o, n, type, e).hdr = NoHdr
<1>1. \A x, y : Move(o, x, y).hdr = NoHdr
  BY DEF Move
<1> QED BY <1>1, SealHdr DEF AckOut

(* ... nor when the coroutine flushes it.                                  *)
LEMMA FlushRecordHdr ==
  ASSUME NEW o, NEW n, NEW type, Gathering(o) \/ n > 0 => o.hdr = NoHdr
  PROVE  Gathering(FlushRecord(o, n, type)) => FlushRecord(o, n, type).hdr = NoHdr
<1> DEFINE p == IF n > 0 THEN AckOut(o, n, type, outenc) ELSE o
<1>1. Gathering(p) => p.hdr = NoHdr
  BY AckOutHdr
<1>2. FlushRecord(o, n, type) = IF HasPld(p) THEN Seal(p, type, outenc, FALSE) ELSE p
  BY DEF FlushRecord
<1> HIDE DEF p
<1>3. HasPld(p) => Gathering(p)
  BY DEF HasPld, Gathering
<1> QED BY <1>1, <1>2, <1>3, SealHdr

(* A window to write into is in an open record.                            *)
LEMMA WindowOpen ==
  ASSUME IInv, OrderInv, h.put > 0 \/ h.out > 0
  PROVE  iomode # "FAILED" /\ Gathering(ox) /\ ox.hdr = NoHdr
<1>1. h \in Window /\ ox \in OutRegs
  BY DEF IInv, TypeOK
<1>2. h.put \in Nat /\ h.out \in Nat /\ ox.a \in Nat /\ ox.b \in Nat
  BY <1>1 DEF Window, OutRegs
<1>3. iomode \in {"OUT", "INOUT"} /\ ox.a < ox.b
  BY <1>2 DEF IInv, WindowInv
<1> QED BY <1>2, <1>3 DEF OrderInv, HdrInv, Gathering

-----------------------------------------------------------------------------
(* The initial states.                                                     *)

(* A reset engine starts with the handshake.                               *)
LEMMA InitOrder == ASSUME Init PROVE OrderInv
<1>1. ProgramInv
  BY DoHandshakeOrdered, PlainHas DEF Init, ProgramInv, Protects
<1>2. PutInv /\ CnrInv
  BY DEF Init, PutInv, CnrInv, Idle
<1>3. HdrInv
  BY DEF Init, HdrInv, ReadyOut
<1> QED BY <1>1, <1>2, <1>3 DEF OrderInv

(* ... again after a later reset.                                          *)
LEMMA ResetOrder == ASSUME Reset PROVE OrderInv'
<1>1. ProgramInv'
  BY DoHandshakeOrdered, PlainHas DEF Reset, ProgramInv, Protects
<1>2. PutInv' /\ CnrInv'
  BY DEF Reset, PutInv, CnrInv, Idle
<1>3. HdrInv'
  BY DEF Reset, HdrInv, ReadyOut
<1> QED BY <1>1, <1>2, <1>3 DEF OrderInv

-----------------------------------------------------------------------------
(* The calls of the application and of the transport.                      *)

(* Payload that became readable is no matter for the program.              *)
LEMMA DeliverOrder ==
  ASSUME IInv, OrderInv, NEW i, Open, Deliver(i),
         UNCHANGED <<incrypt, shutdownRecv, outVars, appdata>>
  PROVE  OrderInv'
<1>1. CASE iomode' # "FAILED"
  <2>1. UNCHANGED <<todo, h, cnr, ox>>
    BY <1>1 DEF Deliver, Fail, Jump, hsVars, outVars
  <2>2. HdrInv'
    BY <2>1 DEF OrderInv, HdrInv, Open
  <2> QED BY <2>1, <2>2, QuietOrder DEF Open, outVars
<1>2. CASE iomode' = "FAILED"
  <2>1. Fail("ERROR") \/ (iomode' # "FAILED")
    BY DEF Deliver, Jump, AckInMode, ModeReadyIn, ModeRecv, Open
  <2> QED BY <1>2, <2>1, FailOrder DEF outVars
<1> QED BY <1>1, <1>2

(* Nothing that arrives disturbs the program.                              *)
LEMMA RecvOrder ==
  ASSUME IInv, OrderInv, RecvBody \/ RecvHead
  PROVE  OrderInv'
<1>0. ModeRecv # "FAILED" \/ iomode = "FAILED"
  BY DEF ModeRecv
<1>1. ASSUME NEW n, RecvCipherPart(n) \/ RecvHeaderPart(n) PROVE OrderInv'
  <2>1. /\ UNCHANGED <<todo, appdata, incrypt, outenc, cnr, shutdownRecv, h, ox>>
        /\ iomode # "FAILED" /\ pc = "idle"
    BY <1>1 DEF RecvCipherPart, RecvHeaderPart, Open, hsVars, outVars
  <2>2. HdrInv'
    BY <2>1 DEF OrderInv, HdrInv
  <2> QED BY <2>1, <2>2, QuietOrder
<1>2. ASSUME NEW n, RecvClear(n) PROVE OrderInv'
  BY <1>2, DeliverOrder DEF RecvClear
<1>3. ASSUME NEW bad, RecvCipherEnd(bad) PROVE OrderInv'
  <2>1. Open /\ UNCHANGED <<incrypt, shutdownRecv, outVars, appdata>>
    BY <1>3 DEF RecvCipherEnd
  <2>2. \/ Fail("ERROR")
        \/ UNCHANGED <<err, hsVars>>
        \/ \E i : Deliver(i)
    BY <1>3 DEF RecvCipherEnd
  <2>3. CASE Fail("ERROR")
    BY <2>1, <2>3, FailOrder DEF outVars
  <2>4. CASE UNCHANGED <<err, hsVars>>
    <3>1. UNCHANGED <<todo, h, cnr, ox, pc>> /\ iomode # "FAILED"
      BY <2>1, <2>4 DEF hsVars, outVars, Open
    <3>2. HdrInv'
      BY <3>1 DEF OrderInv, HdrInv
    <3> QED BY <2>1, <3>1, <3>2, QuietOrder DEF outVars
  <2>5. ASSUME NEW i, Deliver(i) PROVE OrderInv'
    BY <2>1, <2>5, DeliverOrder
  <2> QED BY <2>2, <2>3, <2>4, <2>5
<1>4. ASSUME NEW type, NEW rlen, NEW bad, RecvHeader(type, rlen, bad) PROVE OrderInv'
  <2>1. Open /\ UNCHANGED <<incrypt, shutdownRecv, outVars, appdata>>
    BY <1>4 DEF RecvHeader
  <2>2. Fail("ERROR") \/ UNCHANGED <<err, hsVars>>
    BY <1>4 DEF RecvHeader
  <2>3. CASE Fail("ERROR")
    BY <2>1, <2>3, FailOrder DEF outVars
  <2>4. CASE UNCHANGED <<err, hsVars>>
    <3>1. UNCHANGED <<todo, h, cnr, ox, pc>> /\ iomode # "FAILED"
      BY <2>1, <2>4 DEF hsVars, outVars, Open
    <3>2. HdrInv'
      BY <3>1 DEF OrderInv, HdrInv
    <3> QED BY <2>1, <3>1, <3>2, QuietOrder DEF outVars
  <2> QED BY <2>2, <2>3, <2>4
<1> QED BY <1>1, <1>2, <1>3, <1>4 DEF RecvBody, RecvHead

(* A record that is sent leaves an open one, with no header.               *)
LEMMA SendRecAckOrder == ASSUME IInv, OrderInv, NEW n, SendRecAck(n) PROVE OrderInv'
<1>1. /\ UNCHANGED <<todo, appdata, incrypt, outenc, cnr, shutdownRecv, h>>
      /\ iomode # "FAILED" /\ pc = "idle"
  BY DEF SendRecAck, Jump, hsVars, inVars, Open
<1>2. HdrInv'
  <2>1. CASE ox.a + n = ox.c
    <3>1. ox' = ReadyOut(outenc, maxFrag)
      BY <2>1 DEF SendRecAck
    <3> QED BY <3>1 DEF HdrInv, ReadyOut
  <2>2. CASE ox.a + n # ox.c
    <3>1. ox' = Move(ox, ox.a + n, ox.a + n)
      BY <2>2 DEF SendRecAck
    <3> QED BY <3>1 DEF HdrInv, Gathering, Move
  <2> QED BY <2>1, <2>2
<1> QED BY <1>1, <1>2, QuietOrder

(* Application data goes into an open record.                              *)
LEMMA SendAppAckOrder == ASSUME IInv, OrderInv, NEW n, SendAppAck(n) PROVE OrderInv'
<1>1. /\ UNCHANGED <<todo, appdata, incrypt, outenc, cnr, shutdownRecv, h>>
      /\ iomode # "FAILED" /\ pc = "idle"
      /\ ox' = AckOut(Written(ox, APPDATA, outenc), n, rtout, outenc)
  BY DEF SendAppAck, hsVars, inVars, Open
<1>2. n \in 1 .. SendAppLen /\ ox \in OutRegs
  BY DEF SendAppAck, IInv, TypeOK
<1>3. Gathering(ox)
  <2>1. ox.a \in Nat /\ ox.b \in Nat
    BY <1>2 DEF OutRegs
  <2>2. SendAppLen # 0
    <3>1. CASE appdata = 1 /\ iomode \in {"OUT", "INOUT"}
      <4>1. SendAppLen = ox.b - ox.a
        BY <3>1 DEF SendAppLen, SendPldLen
      <4> QED BY <1>2, <2>1, <4>1
    <3>2. CASE ~(appdata = 1 /\ iomode \in {"OUT", "INOUT"})
      <4>1. SendAppLen = 0
        BY <3>2 DEF SendAppLen, SendPldLen
      <4> QED BY <1>2, <4>1
    <3> QED BY <3>1, <3>2
  <2>3. SendAppLen = ox.b - ox.a
    BY <2>2 DEF SendAppLen, SendPldLen
  <2> QED BY <2>1, <2>2, <2>3 DEF Gathering
<1>4. Written(ox, APPDATA, outenc).hdr = NoHdr
  BY <1>1, <1>3 DEF OrderInv, HdrInv, Written
<1>5. HdrInv'
  BY <1>1, <1>4, AckOutHdr DEF HdrInv
<1> QED BY <1>1, <1>5, QuietOrder

(* The calls that leave the coroutine to the next jump.                    *)
LEMMA OtherCallsOrder ==
  ASSUME IInv, OrderInv,
         \/ \E n \in 1 .. RecvAppLen : RecvAppAck(n)
         \/ \E force \in Forces : Flush(force)
         \/ Close \/ Renegotiate
  PROVE  OrderInv'
<1>1. /\ UNCHANGED <<todo, appdata, incrypt, outenc, cnr, shutdownRecv, h>>
      /\ iomode # "FAILED" /\ pc = "idle"
  BY DEF RecvAppAck, Flush, Close, Renegotiate, Jump, hsVars, inVars, outVars, Open
<1>2. ox' = ox \/ \E force \in Forces : ox' = Seal(ox, rtout, outenc, force)
  BY DEF RecvAppAck, Flush, Close, Renegotiate, Jump, hsVars, inVars, outVars, Open
<1>3. HdrInv'
  <2>1. CASE ox' = ox
    BY <1>1, <2>1 DEF OrderInv, HdrInv
  <2>2. ASSUME NEW force \in Forces, ox' = Seal(ox, rtout, outenc, force) PROVE HdrInv'
    <3>1. CASE Gathering(ox)
      BY <1>1, <2>2, <3>1, SealHdr DEF OrderInv, HdrInv
    <3>2. CASE ~Gathering(ox)
      <4>1. ox' = ox
        BY <2>2, <3>2 DEF Seal, Gathering
      <4> QED BY <3>2, <4>1 DEF HdrInv, Gathering
    <3> QED BY <3>1, <3>2
  <2> QED BY <1>2, <2>1, <2>2
<1> QED BY <1>1, <1>3, QuietOrder

(* The owner of the transport fails the engine.                            *)
LEMMA IoFailOrder == ASSUME OrderInv, IoFail PROVE OrderInv'
BY FailOrder DEF IoFail, inVars, outVars

-----------------------------------------------------------------------------
(* The jump into the coroutine and back.                                   *)

(* The jump opens a window and nothing else.                               *)
LEMMA HsEnterOrder == ASSUME IInv, OrderInv, HsEnter PROVE OrderInv'
<1>1. /\ UNCHANGED <<todo, appdata, incrypt, outenc, cnr, shutdownRecv, ox, iomode>>
      /\ pc = "jump" /\ h'.put = 0
  BY DEF HsEnter, inVars, outVars
<1>2. HdrInv'
  BY <1>1 DEF OrderInv, HdrInv
<1> QED BY <1>1, <1>2, QuietOrder

(* On return, what was written is added to the open record.                *)
LEMMA HsReturnOrder == ASSUME IInv, OrderInv, HsReturn PROVE OrderInv'
<1>1. /\ UNCHANGED <<todo, appdata, incrypt, outenc, cnr, shutdownRecv>>
      /\ pc = "yield" /\ h'.put = 0
      /\ ox' = IF h.put > 0 THEN AckOut(ox, h.put, rtout, outenc) ELSE ox
  BY DEF HsReturn, Idle
<1>2. iomode # "FAILED"
  BY <1>1 DEF IInv, CallInv
<1>3. HdrInv'
  <2>1. CASE h.put > 0
    <3>1. ox.hdr = NoHdr
      BY <2>1, WindowOpen
    <3> QED BY <1>1, <2>1, <3>1, AckOutHdr DEF HdrInv
  <2>2. CASE ~(h.put > 0)
    BY <1>1, <1>2, <2>2 DEF OrderInv, HdrInv
  <2> QED BY <2>1, <2>2
<1> QED BY <1>1, <1>2, <1>3, QuietOrder

-----------------------------------------------------------------------------
(* What follows the return of co.                                          *)

(* Before the program goes on, it has written nothing.                     *)
LEMMA NothingPut ==
  ASSUME IInv, pc \in {"resume", "alerts"}
  PROVE  ~(h.put > 0) /\ iomode # "FAILED" /\ h \in Window
BY DEF IInv, TypeOK, FragInv, Untouched, CallInv

(* A close starts when close_notify came or was asked for.                 *)
LEMMA StartCloseOrder ==
  ASSUME IInv, OrderInv, NEW received \in BOOLEAN, StartClose(received),
         pc \in {"resume", "alerts"},
         UNCHANGED <<iomode, incrypt, outenc, ox, h>>, received => shutdownRecv'
  PROVE  OrderInv'
<1>1. /\ todo' = DoClose /\ cnr' = received
      /\ appdata' = IF appdata = 1 /\ ~received THEN 2 ELSE 0
  BY DEF StartClose
<1>2. Ordered(todo') /\ Protects(todo', incrypt, outenc)
  BY <1>1, ClosureOrdered DEF Protects
<1>3. CnrInv'
  BY <1>1 DEF CnrInv
<1>4. ~(h'.put > 0)
  BY NothingPut
<1>5. /\ appdata' = 0 \/ (appdata # 0 /\ appdata' # 1)
      /\ appdata' # 1
  BY <1>1
<1> QED BY <1>2, <1>3, <1>4, <1>5, StartOrder

(* The application closes.                                                 *)
LEMMA HsCloseOrder == ASSUME IInv, OrderInv, HsClose PROVE OrderInv'
BY StartCloseOrder DEF HsClose, outVars, inVars

(* Alert bytes came.                                                       *)
LEMMA HsAlertsOrder == ASSUME IInv, OrderInv, HsAlerts PROVE OrderInv'
<1>1. /\ UNCHANGED <<todo, appdata, incrypt, outenc, cnr, shutdownRecv, ox, iomode, h>>
      /\ pc = "resume"
  BY DEF HsAlerts, inVars, outVars
<1>2. HdrInv'
  BY <1>1 DEF OrderInv, HdrInv
<1> QED BY <1>1, <1>2, QuietOrder

(* One alert byte.                                                         *)
LEMMA HsAlertByteOrder == ASSUME IInv, OrderInv, NEW byte, HsAlertByte(byte) PROVE OrderInv'
<1>1. UNCHANGED <<appdata, incrypt, outenc, shutdownRecv, ox>> /\ pc = "alerts"
  BY DEF HsAlertByte, inVars, outVars
<1>2. CASE Fail("ERROR")
  BY <1>1, <1>2, FailOrder
<1>3. CASE ~Fail("ERROR")
  <2>1. /\ UNCHANGED <<iomode, todo, pc>> /\ h' = [h EXCEPT !.in = @ - 1]
    BY <1>3 DEF HsAlertByte
  <2>2. h'.put = h.put
    BY <2>1, NothingPut, <1>1 DEF Window
  <2>3. ProgramInv' /\ PutInv' /\ HdrInv'
    BY <1>1, <2>1, <2>2 DEF OrderInv, ProgramInv, PutInv, HdrInv, At
  <2>4. CnrInv'
    BY <1>1, <2>1 DEF CnrInv
  <2> QED BY <2>3, <2>4 DEF OrderInv
<1> QED BY <1>2, <1>3

(* The program that waited goes on, or a renegotiation begins.             *)
LEMMA ContinueOrder ==
  ASSUME IInv, OrderInv, Continue, pc \in {"resume", "alerts"}, cnr => shutdownRecv',
         UNCHANGED <<incrypt, outenc, ox, appdata>>
  PROVE  OrderInv'
<1>1. UNCHANGED <<iomode, h, cnr>> /\ ~(h'.put > 0)
  BY NothingPut DEF Continue
<1>2. CnrInv'
  BY <1>1 DEF CnrInv
<1>3. CASE todo = <<>> /\ WantReneg
  <2>1. todo' = OnRenegotiate /\ appdata = 1
    BY <1>3 DEF Continue, WantReneg
  <2>2. Ordered(todo') /\ ~Has("closeWait", todo')
    BY <2>1, MainOrdered, PlainHas
  <2>3. incrypt /\ outenc
    BY <2>1 DEF OrderInv, ProgramInv
  <2> QED BY <1>1, <1>2, <2>2, <2>3, StartOrder DEF Protects
<1>4. CASE ~(todo = <<>> /\ WantReneg)
  <2>1. todo' = todo
    BY <1>4 DEF Continue
  <2>2. ProgramInv' /\ PutInv' /\ HdrInv'
    BY <1>1, <2>1 DEF OrderInv, ProgramInv, PutInv, HdrInv
  <2> QED BY <1>2, <2>2 DEF OrderInv
<1> QED BY <1>3, <1>4

(* All alert bytes are done with.                                          *)
LEMMA HsAlertsEndOrder == ASSUME IInv, OrderInv, HsAlertsEnd PROVE OrderInv'
<1>1. /\ UNCHANGED <<incrypt, outenc, ox>> /\ pc = "alerts"
      /\ shutdownRecv' = (shutdownRecv \/ cnr)
  BY DEF HsAlertsEnd, outVars
<1>2. CASE Closing
  <2>1. appdata' = 0 /\ pc' = "run" /\ UNCHANGED <<iomode, h, todo, cnr>>
    BY <1>2 DEF HsAlertsEnd
  <2>2. ProgramInv' /\ PutInv' /\ HdrInv'
    BY <1>1, <2>1 DEF OrderInv, ProgramInv, PutInv, HdrInv, At
  <2>3. CnrInv'
    BY <1>1, <2>1 DEF CnrInv
  <2> QED BY <2>2, <2>3 DEF OrderInv
<1>3. CASE ~Closing /\ cnr
  <2>1. StartClose(TRUE) /\ UNCHANGED <<iomode, h>> /\ shutdownRecv'
    BY <1>1, <1>3 DEF HsAlertsEnd
  <2> QED BY <1>1, <2>1, StartCloseOrder
<1>4. CASE ~Closing /\ ~cnr
  <2>1. Continue /\ UNCHANGED appdata
    BY <1>4 DEF HsAlertsEnd
  <2> QED BY <1>1, <1>4, <2>1, ContinueOrder
<1> QED BY <1>2, <1>3, <1>4

(* Handshake bytes came, or nothing; a ChangeCipherSpec may be refused.    *)
LEMMA HsGoOnOrder == ASSUME IInv, OrderInv, HsGoOn PROVE OrderInv'
<1>1. /\ UNCHANGED <<incrypt, outenc, ox, appdata, shutdownRecv>> /\ pc = "resume"
  BY DEF HsGoOn, inVars, outVars
<1>2. CASE Fail("ERROR")
  BY <1>1, <1>2, FailOrder
<1>3. CASE Continue
  BY <1>1, <1>3, ContinueOrder DEF OrderInv, CnrInv
<1>4. CASE /\ todo = <<>> /\ todo' = OnHandshakeData /\ pc' = "run"
           /\ UNCHANGED <<iomode, err, action, h, cnr>>
  <2>1. Ordered(todo') /\ ~Has("closeWait", todo')
    BY <1>4, MainOrdered, PlainHas
  <2>2. incrypt /\ outenc
    <3>1. \A op : ~Has(op, <<>>)
      BY DEF Has
    <3> QED BY <1>1, <1>4, <3>1, NothingPut DEF OrderInv, ProgramInv, Protects
  <2>3. CnrInv'
    BY <1>1, <1>4 DEF OrderInv, CnrInv
  <2> QED BY <1>1, <1>4, <2>1, <2>2, <2>3, NothingPut, StartOrder DEF Protects
<1> QED BY <1>2, <1>3, <1>4 DEF HsGoOn

(* During a closure what comes is dropped.                                 *)
LEMMA HsDiscardOrder == ASSUME IInv, OrderInv, HsDiscard PROVE OrderInv'
<1>1. /\ UNCHANGED <<todo, appdata, incrypt, outenc, cnr, shutdownRecv, ox, iomode>>
      /\ pc = "resume" /\ h' = IF cnr THEN h ELSE [h EXCEPT !.in = 0]
  BY DEF HsDiscard, inVars, outVars
<1>2. h'.put = h.put
  BY <1>1, NothingPut DEF Window
<1>3. HdrInv'
  BY <1>1 DEF OrderInv, HdrInv
<1> QED BY <1>1, <1>2, <1>3, QuietOrder

-----------------------------------------------------------------------------
(* The instructions.                                                       *)

(* The coroutine runs in an engine that has not failed.                    *)
LEMMA RunningOpen ==
  ASSUME IInv, pc = "run"
  PROVE  iomode # "FAILED" /\ todo \in Seq(Instr) /\ h \in Window
BY DEF IInv, TypeOK, CallInv

(* The coroutine yields.                                                   *)
LEMMA HsYieldOrder == ASSUME IInv, OrderInv, HsYield PROVE OrderInv'
<1>1. /\ UNCHANGED <<todo, appdata, incrypt, outenc, cnr, shutdownRecv, ox, iomode, h>>
      /\ pc = "run"
  BY DEF HsYield, inVars, outVars
<1>2. HdrInv'
  BY <1>1 DEF OrderInv, HdrInv
<1> QED BY <1>1, <1>2, QuietOrder

(* The end of a handshake opens the engine to application data; the other  *)
(* words that set a field do not.                                          *)
LEMMA HsSetOrder == ASSUME IInv, OrderInv, HsSet PROVE OrderInv'
<1>1. /\ UNCHANGED <<pc, cnr, shutdownRecv, iomode, incrypt, outenc, ox, h>>
      /\ pc = "run" /\ todo' = Tail(todo)
  BY DEF HsSet, inVars, Next1, Running
<1>2. HdrInv'
  BY <1>1 DEF OrderInv, HdrInv
<1>3. todo \in Seq(Instr) /\ iomode # "FAILED"
  BY <1>1, RunningOpen
<1>4. ASSUME NEW op \in {"begin", "noapp", "type"}, Running(op), appdata' \in {0, appdata}
      PROVE  OrderInv'
  <2>1. op \notin LastOps /\ op # "flush" /\ op # "readCcs" /\ op # "writeCcs"
    BY DEF LastOps
  <2>2. /\ incrypt' = (incrypt \/ op = "readCcs") /\ outenc' = (outenc \/ op = "writeCcs")
        /\ h'.put > 0 => op \in OutOps \/ (op # "flush" /\ h.put > 0)
    BY <1>1, <2>1 DEF IInv, TypeOK
  <2> QED BY <1>1, <1>2, <1>3, <1>4, <2>1, <2>2, StepOrder
<1>5. ASSUME Running("end"), appdata' = 1 PROVE OrderInv'
  <2>1. todo # <<>> /\ Head(todo).op = "end"
    BY <1>5 DEF Running, At
  <2>2. /\ Tail(todo) = <<>>
        /\ \A o : Has(o, todo) <=> "end" = o \/ Has(o, Tail(todo))
    BY <1>3, <2>1, TailParts DEF OrderInv, ProgramInv, LastOps
  <2>3. Ordered(<<>>) /\ \A o : ~Has(o, <<>>)
    BY DEF Ordered, Leads, Has
  <2>4. incrypt /\ outenc
    <3>1. Protects(todo, incrypt, outenc)
      BY <1>3 DEF OrderInv, ProgramInv
    <3>2. \A o \in {"branch", "closeWait", "fail", "readCcs", "writeCcs"} : ~Has(o, todo)
      <4>1. \A o : Has(o, todo) <=> "end" = o \/ Has(o, <<>>)
        BY <2>2
      <4> QED BY <2>3, <4>1
    <3> QED BY <3>1, <3>2 DEF Protects
  <2>5. ProgramInv'
    BY <1>1, <2>2, <2>3, <2>4 DEF ProgramInv, Protects
  <2>6. ~(h'.put > 0)
    BY <1>1, <2>1 DEF OrderInv, PutInv, At
  <2>7. CnrInv'
    BY <1>1 DEF OrderInv, CnrInv
  <2> QED BY <1>2, <2>5, <2>6, <2>7 DEF OrderInv, PutInv
<1> QED BY <1>4, <1>5 DEF HsSet

(* There is room for output.                                               *)
LEMMA HsRoomOrder == ASSUME IInv, OrderInv, HsRoom PROVE OrderInv'
<1>1. /\ UNCHANGED <<pc, cnr, shutdownRecv, iomode, incrypt, outenc, ox, h, appdata>>
      /\ pc = "run" /\ todo' = Tail(todo)
  BY DEF HsRoom, inVars, outVars, Next1, Running
<1>2. HdrInv'
  BY <1>1 DEF OrderInv, HdrInv
<1>3. todo \in Seq(Instr) /\ iomode # "FAILED"
  BY <1>1, RunningOpen
<1>4. ASSUME NEW op \in {"room", "closeRoom"}, Running(op) PROVE OrderInv'
  <2>1. op \notin LastOps /\ op # "flush" /\ op # "readCcs" /\ op # "writeCcs"
    BY DEF LastOps
  <2>2. /\ incrypt' = (incrypt \/ op = "readCcs") /\ outenc' = (outenc \/ op = "writeCcs")
        /\ h'.put > 0 => op \in OutOps \/ (op # "flush" /\ h.put > 0)
    BY <1>1, <2>1 DEF IInv, TypeOK
  <2> QED BY <1>1, <1>2, <1>3, <1>4, <2>1, <2>2, StepOrder
<1> QED BY <1>4 DEF HsRoom

(* What is written goes into an open record.                               *)
LEMMA PutHdr ==
  ASSUME IInv, OrderInv, h.out > 0, NEW n, NEW type, Put(n, type)
  PROVE  HdrInv'
<1>1. ox'.hdr = ox.hdr
  BY DEF Put, Written
<1> QED BY <1>1, WindowOpen DEF HdrInv

(* A write, whole or in part.                                              *)
LEMMA HsWriteOrder == ASSUME IInv, OrderInv, HsWrite PROVE OrderInv'
<1>1. /\ UNCHANGED <<pc, cnr, shutdownRecv, iomode, incrypt, outenc, appdata>>
      /\ pc = "run" /\ Running("write") /\ h.out > 0
  BY DEF HsWrite, inVars, Running
<1>2. HdrInv'
  BY <1>1, PutHdr DEF HsWrite
<1>3. todo \in Seq(Instr) /\ iomode # "FAILED"
  BY <1>1, RunningOpen
<1>4. CASE todo' = Tail(todo)
  <2>1. "write" \notin LastOps /\ "write" \in OutOps
    BY DEF LastOps, OutOps
  <2>2. /\ incrypt' = (incrypt \/ "write" = "readCcs") /\ outenc' = (outenc \/ "write" = "writeCcs")
    BY <1>1 DEF IInv, TypeOK
  <2> QED BY <1>1, <1>2, <1>3, <1>4, <2>1, <2>2, StepOrder
<1>5. ASSUME NEW m, todo' = <<I("write", m)>> \o Tail(todo) PROVE OrderInv'
  BY <1>1, <1>2, <1>3, <1>5, PartOrder
<1>6. todo' = Tail(todo) \/ \E m : todo' = <<I("write", m)>> \o Tail(todo)
  BY DEF HsWrite
<1> QED BY <1>4, <1>5, <1>6

(* An alert is written.                                                    *)
LEMMA HsAlertOutOrder ==
  ASSUME IInv, OrderInv, HsAlertOut PROVE OrderInv'
<1>1. /\ UNCHANGED <<pc, cnr, shutdownRecv, iomode, incrypt, outenc, appdata>>
      /\ pc = "run" /\ Running("alert") /\ todo' = Tail(todo)
      /\ Put(Least(2, h.out), ALERT)
  BY DEF HsAlertOut, inVars, Running, Next1
<1>2. HdrInv'
  <2>1. ox'.hdr = ox.hdr /\ Gathering(ox') = Gathering(ox)
    BY <1>1 DEF Put, Written, Gathering
  <2> QED BY <1>1, <2>1 DEF OrderInv, HdrInv
<1>3. todo \in Seq(Instr) /\ iomode # "FAILED"
  BY <1>1, RunningOpen
<1>4. "alert" \notin LastOps /\ "alert" \in OutOps
  BY DEF LastOps, OutOps
<1>5. /\ incrypt' = (incrypt \/ "alert" = "readCcs") /\ outenc' = (outenc \/ "alert" = "writeCcs")
  BY <1>1 DEF IInv, TypeOK
<1> QED BY <1>1, <1>2, <1>3, <1>4, <1>5, StepOrder

(* What is written is flushed.                                             *)
LEMMA HsFlushOrder == ASSUME IInv, OrderInv, HsFlush PROVE OrderInv'
<1>1. /\ UNCHANGED <<pc, cnr, shutdownRecv, incrypt, outenc, appdata>>
      /\ pc = "run" /\ Running("flush") /\ todo' = Tail(todo)
      /\ ox' = FlushRecord(ox, h.put, rtout) /\ h'.put = 0
  BY DEF HsFlush, inVars, Running, Next1, Offer
<1>2. todo \in Seq(Instr) /\ iomode # "FAILED"
  BY <1>1, RunningOpen
<1>3. HdrInv'
  <2>1. Gathering(ox) \/ h.put > 0 => ox.hdr = NoHdr
    BY <1>2, WindowOpen DEF OrderInv, HdrInv
  <2> QED BY <1>1, <2>1, FlushRecordHdr DEF HdrInv
<1>4. "flush" \notin LastOps
  BY DEF LastOps
<1>5. /\ incrypt' = (incrypt \/ "flush" = "readCcs") /\ outenc' = (outenc \/ "flush" = "writeCcs")
  BY <1>1 DEF IInv, TypeOK
<1>6. ~(h'.put > 0)
  BY <1>1
<1> QED BY <1>1, <1>2, <1>3, <1>4, <1>5, <1>6, StepOrder

(* The output protection is switched on.                                   *)
LEMMA HsWriteCcsOrder == ASSUME IInv, OrderInv, HsWriteCcs PROVE OrderInv'
<1>1. /\ UNCHANGED <<pc, cnr, shutdownRecv, incrypt, appdata>> /\ outenc' = TRUE
      /\ pc = "run" /\ Running("writeCcs") /\ todo' = Tail(todo) /\ h.out > 0
      /\ ox' = FlushRecord(Written(ox, CCS, outenc), h.put + 1, CCS) /\ h'.put = 0
  BY DEF HsWriteCcs, inVars, Running, Next1, Offer
<1>2. todo \in Seq(Instr) /\ iomode # "FAILED"
  BY <1>1, RunningOpen
<1>3. HdrInv'
  <2>1. ox.hdr = NoHdr
    BY <1>1, WindowOpen
  <2>2. Written(ox, CCS, outenc).hdr = NoHdr
    BY <2>1 DEF Written
  <2> QED BY <1>1, <2>2, FlushRecordHdr DEF HdrInv
<1>4. "writeCcs" \notin LastOps
  BY DEF LastOps
<1>5. /\ incrypt' = (incrypt \/ "writeCcs" = "readCcs") /\ outenc' = (outenc \/ "writeCcs" = "writeCcs")
  BY <1>1 DEF IInv, TypeOK
<1>6. ~(h'.put > 0)
  BY <1>1
<1> QED BY <1>1, <1>2, <1>3, <1>4, <1>5, <1>6, StepOrder

(* Handshake bytes are taken; the message they complete may be refused.    *)
LEMMA HsReadOrder == ASSUME IInv, OrderInv, NEW bad, HsRead(bad) PROVE OrderInv'
<1>1. /\ UNCHANGED <<shutdownRecv, incrypt, outenc, appdata, ox>>
      /\ pc = "run" /\ Running("read")
  BY DEF HsRead, inVars, outVars, Running
<1>2. todo \in Seq(Instr) /\ iomode # "FAILED" /\ h \in Window
  BY <1>1, RunningOpen
<1>3. CASE Fail("ERROR")
  BY <1>1, <1>3, FailOrder
<1>4. CASE ~Fail("ERROR")
  <2>1. /\ UNCHANGED <<iomode, pc, cnr>>
        /\ \E k : h' = [h EXCEPT !.in = k]
        /\ \/ todo' = Tail(todo)
           \/ \E m : todo' = <<I("read", m)>> \o Tail(todo)
    <3>1. DEFINE n == Head(todo).n
                 k == Least(n, h.in)
    <3>2. h' = [h EXCEPT !.in = h.in - k]
      BY <1>4 DEF HsRead
    <3> QED BY <1>4, <3>2 DEF HsRead
  <2>2. h'.put = h.put
    BY <1>2, <2>1 DEF Window
  <2>3. ~(h.put > 0)
    BY <1>1 DEF OrderInv, PutInv, Running, At
  <2>4. HdrInv' /\ CnrInv'
    BY <1>1, <2>1 DEF OrderInv, HdrInv, CnrInv
  <2>5. CASE todo' = Tail(todo)
    <3>1. "read" \notin LastOps
      BY DEF LastOps
    <3>2. /\ incrypt' = (incrypt \/ "read" = "readCcs") /\ outenc' = (outenc \/ "read" = "writeCcs")
      BY <1>1 DEF IInv, TypeOK
    <3> QED BY <1>1, <1>2, <2>1, <2>2, <2>3, <2>4, <2>5, <3>1, <3>2, StepOrder
  <2>6. ASSUME NEW m, todo' = <<I("read", m)>> \o Tail(todo) PROVE OrderInv'
    BY <1>1, <1>2, <2>1, <2>2, <2>3, <2>4, <2>6, PartOrder
  <2> QED BY <2>1, <2>5, <2>6
<1> QED BY <1>3, <1>4

(* The input protection is switched on.                                    *)
LEMMA HsReadCcsOrder == ASSUME IInv, OrderInv, NEW bad, HsReadCcs(bad) PROVE OrderInv'
<1>1. /\ UNCHANGED <<shutdownRecv, outenc, appdata, ox>>
      /\ pc = "run" /\ Running("readCcs")
  BY DEF HsReadCcs, outVars, Running
<1>2. todo \in Seq(Instr) /\ iomode # "FAILED" /\ h \in Window
  BY <1>1, RunningOpen
<1>3. CASE Fail("ERROR") /\ UNCHANGED incrypt
  BY <1>1, <1>3, FailOrder
<1>4. CASE /\ h' = [h EXCEPT !.in = @ - 1] /\ incrypt' = TRUE /\ Next1
           /\ UNCHANGED <<iomode, err, pc, action, cnr>>
  <2>1. HdrInv'
    BY <1>1, <1>4 DEF OrderInv, HdrInv
  <2>2. h'.put = h.put
    BY <1>2, <1>4 DEF Window
  <2>3. "readCcs" \notin LastOps
    BY DEF LastOps
  <2>4. /\ incrypt' = (incrypt \/ "readCcs" = "readCcs") /\ outenc' = (outenc \/ "readCcs" = "writeCcs")
    BY <1>1, <1>4 DEF IInv, TypeOK
  <2> QED BY <1>1, <1>2, <1>4, <2>1, <2>2, <2>3, <2>4, StepOrder DEF Next1
<1> QED BY <1>3, <1>4 DEF HsReadCcs

(* No byte may follow the message; no fragment length was asked for.       *)
LEMMA HsNoMoreOrder == ASSUME IInv, OrderInv, HsNoMore \/ HsNoFrag PROVE OrderInv'
<1>1. /\ UNCHANGED <<shutdownRecv, outenc, appdata, ox, incrypt>>
      /\ pc = "run" /\ (Running("nomore") \/ Running("frag"))
  BY DEF HsNoMore, HsNoFrag, inVars, outVars, Running
<1>2. todo \in Seq(Instr) /\ iomode # "FAILED"
  BY <1>1, RunningOpen
<1>3. CASE Fail("ERROR")
  BY <1>1, <1>3, FailOrder
<1>4. CASE ~Fail("ERROR")
  <2>1. UNCHANGED <<iomode, pc, h, cnr>> /\ todo' = Tail(todo)
    BY <1>4 DEF HsNoMore, HsNoFrag, Next1
  <2>2. HdrInv'
    BY <1>1, <2>1 DEF OrderInv, HdrInv
  <2>3. ASSUME NEW op \in {"nomore", "frag"}, Running(op) PROVE OrderInv'
    <3>1. op \notin LastOps /\ op # "flush" /\ op # "readCcs" /\ op # "writeCcs"
      BY DEF LastOps
    <3>2. /\ incrypt' = (incrypt \/ op = "readCcs") /\ outenc' = (outenc \/ op = "writeCcs")
          /\ h'.put > 0 => op \in OutOps \/ (op # "flush" /\ h.put > 0)
      BY <1>1, <2>1, <3>1 DEF IInv, TypeOK
    <3> QED BY <1>1, <1>2, <2>1, <2>2, <2>3, <3>1, <3>2, StepOrder
  <2> QED BY <1>1, <2>3
<1> QED BY <1>3, <1>4

(* The fragment length is lowered.                                         *)
LEMMA HsFragOrder == ASSUME IInv, OrderInv, NEW f, HsFrag(f) PROVE OrderInv'
<1>1. /\ UNCHANGED <<pc, cnr, shutdownRecv, outenc, appdata, incrypt, iomode>>
      /\ pc = "run" /\ Running("frag") /\ todo' = Tail(todo)
      /\ h' = h \/ h'.put = h.put
      /\ ox' = ox \/ ox' = ShrinkOut(ox, f)
  BY DEF HsFrag, inVars, Running, Next1, Offer
<1>2. todo \in Seq(Instr) /\ iomode # "FAILED"
  BY <1>1, RunningOpen
<1>3. HdrInv'
  <2>1. ShrinkOut(ox, f).hdr = ox.hdr /\ (Gathering(ShrinkOut(ox, f)) => Gathering(ox))
    <3>1. ox.a \in Nat /\ ox.b \in Nat
      BY DEF IInv, TypeOK, OutRegs
    <3> QED BY <3>1 DEF ShrinkOut, Move, Gathering
  <2> QED BY <1>1, <1>2, <2>1 DEF OrderInv, HdrInv
<1>4. "frag" \notin LastOps
  BY DEF LastOps
<1>5. /\ incrypt' = (incrypt \/ "frag" = "readCcs") /\ outenc' = (outenc \/ "frag" = "writeCcs")
  BY <1>1 DEF IInv, TypeOK
<1>6. h'.put > 0 => "frag" # "flush" /\ h.put > 0
  BY <1>1
<1> QED BY <1>1, <1>2, <1>3, <1>4, <1>5, <1>6, StepOrder

(* A ClientHello is refused.                                               *)
LEMMA HsRefuseOrder == ASSUME IInv, OrderInv, HsRefuse PROVE OrderInv'
<1>1. /\ UNCHANGED <<pc, cnr, shutdownRecv, outenc, appdata, incrypt, iomode, ox, h>>
      /\ Running("nomore") /\ todo' = FailAlert
  BY DEF HsRefuse, inVars, outVars
<1>2. Ordered(todo') /\ ~Has("closeWait", todo') /\ Protects(todo', incrypt, outenc)
  BY <1>1, ClosureOrdered, PlainHas DEF Protects
<1>3. ~(h'.put > 0)
  BY <1>1 DEF OrderInv, PutInv, Running, At
<1>4. HdrInv' /\ CnrInv'
  BY <1>1 DEF OrderInv, HdrInv, CnrInv
<1> QED BY <1>1, <1>2, <1>3, <1>4, StartOrder

(* Both sides agree on a full handshake or on a resumption.                *)
LEMMA HsBranchOrder == ASSUME IInv, OrderInv, HsBranch PROVE OrderInv'
<1>1. /\ UNCHANGED <<pc, cnr, shutdownRecv, outenc, appdata, incrypt, iomode, ox, h>>
      /\ Running("branch") /\ todo' \in {FullHandshake, Resumption}
  BY DEF HsBranch, inVars, outVars
<1>2. Ordered(todo') /\ ~Has("closeWait", todo') /\ Protects(todo', incrypt, outenc)
  BY <1>1, FullHandshakeOrdered, ResumptionOrdered, PlainHas DEF Protects
<1>3. ~(h'.put > 0)
  BY <1>1 DEF OrderInv, PutInv, Running, At
<1>4. CnrInv'
  BY <1>1 DEF OrderInv, CnrInv
<1> QED BY <1>1, <1>2, <1>3, <1>4, StartOrder

(* The end of a closure or of a failure.                                   *)
LEMMA HsEndOrder == ASSUME IInv, OrderInv, HsEnd PROVE OrderInv'
<1>1. UNCHANGED <<appdata, incrypt, outenc>> /\ \E e : Fail(e)
  BY DEF HsEnd, inVars, outVars
<1> QED BY <1>1, FailOrder

-----------------------------------------------------------------------------
(* Every step.                                                             *)

(* Nothing happens.                                                        *)
LEMMA StutterOrder == ASSUME OrderInv, UNCHANGED vars PROVE OrderInv'
BY DEF vars, inVars, outVars, hsVars, OrderInv, ProgramInv, PutInv, HdrInv, CnrInv, At

(* A step of the coroutine preserves the invariant.                        *)
LEMMA HsStepOrder == ASSUME IInv, OrderInv, HsStep PROVE OrderInv'
BY HsEnterOrder, HsReturnOrder, HsCloseOrder, HsAlertsOrder, HsAlertByteOrder,
   HsAlertsEndOrder, HsGoOnOrder, HsDiscardOrder, HsYieldOrder, HsSetOrder, HsRoomOrder,
   HsWriteOrder, HsAlertOutOrder, HsFlushOrder, HsWriteCcsOrder, HsReadOrder,
   HsReadCcsOrder, HsNoMoreOrder, HsFragOrder, HsRefuseOrder, HsBranchOrder, HsEndOrder
   DEF HsStep

(* A call of the application or of the transport does.                     *)
LEMMA CallOrder ==
  ASSUME IInv, OrderInv, RecvBody \/ RecvHead \/ SendRec \/ AppStep
  PROVE  OrderInv'
<1>1. CASE RecvBody \/ RecvHead
  BY <1>1, RecvOrder
<1>2. CASE SendRec
  BY <1>2, SendRecAckOrder DEF SendRec
<1>3. CASE AppStep
  BY <1>3, SendAppAckOrder, OtherCallsOrder, ResetOrder, IoFailOrder DEF AppStep
<1> QED BY <1>1, <1>2, <1>3

(* The programs stay in order, whatever comes: the fact behind the         *)
(* theorems below (do-handshake, do-close and the words they call).        *)
THEOREM OrderKept ==
  ASSUME Shared => Forces \subseteq {FALSE}
  PROVE  Spec => []OrderInv
<1>1. Init => OrderInv
  BY InitOrder
<1>2. IInv /\ OrderInv /\ [Next]_vars => OrderInv'
  BY HsStepOrder, CallOrder, StutterOrder DEF Next
<1> QED BY <1>1, <1>2, Invariance, PTL DEF Spec

-----------------------------------------------------------------------------
(* What follows.                                                           *)

(* Application data is accepted and delivered only under both protections, *)
(* whichever side sends its ChangeCipherSpec first (do-handshake), in      *)
(* every handshake, resumption and renegotiation.                          *)
THEOREM DataProtected ==
  ASSUME Shared => Forces \subseteq {FALSE}
  PROVE  Spec => []AppDataProtected
<1>1. OrderInv => AppDataProtected
  BY DEF OrderInv, ProgramInv, AppDataProtected
<1> QED BY <1>1, OrderKept, PTL

(* In a closure that waits for the peer, no step seals a record.           *)
LEMMA NoRecordAfterClose ==
  ASSUME IInv, OrderInv, Next, At("closeWait")
  PROVE  ox'.hdr \in {ox.hdr, NoHdr}
<1>1. todo \in Seq(Instr) /\ todo # <<>> /\ Head(todo).op = "closeWait"
  BY DEF IInv, TypeOK, At
<1>2. appdata # 1 /\ ~(h.put > 0)
  <2>1. Has("closeWait", todo)
    BY <1>1, TailParts
  <2> QED BY <1>1, <2>1 DEF OrderInv, ProgramInv, PutInv, At
<1>3. \A op : Running(op) => op = "closeWait"
  BY <1>1 DEF Running, At
<1>4. ASSUME HsStep PROVE ox'.hdr \in {ox.hdr, NoHdr}
  <2>1. CASE HsEnter \/ HsClose \/ HsAlerts \/ HsAlertsEnd \/ HsGoOn \/ HsDiscard
             \/ HsYield \/ HsEnd \/ \E byte : HsAlertByte(byte)
    BY <2>1 DEF HsEnter, HsClose, HsAlerts, HsAlertsEnd, HsGoOn, HsDiscard, HsYield, HsEnd,
                HsAlertByte, outVars
  <2>2. CASE HsReturn
    BY <1>2, <2>2 DEF HsReturn
  <2>3. CASE \/ HsSet \/ HsRoom \/ HsWrite \/ HsAlertOut \/ HsFlush \/ HsWriteCcs
             \/ \E bad : HsRead(bad) \/ HsReadCcs(bad)
             \/ HsNoMore \/ HsNoFrag \/ HsRefuse \/ HsBranch
             \/ \E f : HsFrag(f)
    <3>1. \E op : (Running(op) /\ op # "closeWait") \/ ox' = ox
      BY <2>3 DEF HsSet, HsRoom, HsWrite, HsAlertOut, HsFlush, HsWriteCcs, HsRead, HsReadCcs,
                  HsNoMore, HsNoFrag, HsRefuse, HsBranch, HsFrag, outVars
    <3> QED BY <1>3, <3>1
  <2> QED BY <1>4, <2>1, <2>2, <2>3 DEF HsStep
<1>5. ASSUME RecvBody \/ RecvHead PROVE ox'.hdr \in {ox.hdr, NoHdr}
  BY <1>5 DEF RecvBody, RecvHead, RecvCipherPart, RecvClear, RecvCipherEnd, RecvHeaderPart,
              RecvHeader, outVars
<1>6. ASSUME NEW n, SendRecAck(n) PROVE ox'.hdr \in {ox.hdr, NoHdr}
  <2>1. ReadyOut(outenc, maxFrag).hdr = NoHdr /\ Move(ox, ox.a + n, ox.a + n).hdr = ox.hdr
    BY DEF ReadyOut, Move
  <2> QED BY <1>6, <2>1 DEF SendRecAck
<1>7. ASSUME AppStep PROVE ox'.hdr \in {ox.hdr, NoHdr}
  <2>1. ASSUME NEW n, SendAppAck(n) PROVE FALSE
    <3>1. SendAppLen = 0
      BY <1>2 DEF SendAppLen
    <3> QED BY <2>1, <3>1 DEF SendAppAck
  <2>2. ASSUME NEW force, Flush(force) PROVE FALSE
    BY <1>2, <2>2 DEF Flush
  <2>3. ASSUME Reset PROVE ox'.hdr = NoHdr
    BY <2>3 DEF Reset, ReadyOut
  <2>4. ASSUME Close \/ Renegotiate \/ IoFail \/ \E n : RecvAppAck(n) PROVE ox' = ox
    BY <2>4 DEF Close, Renegotiate, IoFail, RecvAppAck, outVars
  <2> QED BY <1>7, <2>1, <2>2, <2>3, <2>4 DEF AppStep
<1> QED BY <1>4, <1>5, <1>6, <1>7 DEF Next, SendRec

(* The close_notify is the last record: from the moment do-close waits for *)
(* the peer, nothing is sealed, whatever the application or the peer does. *)
THEOREM NothingAfterCloseNotify ==
  ASSUME Shared => Forces \subseteq {FALSE}
  PROVE  Spec => CloseNotifyIsLast
<1>1. IInv /\ OrderInv /\ [Next]_vars => [At("closeWait") => ox'.hdr \in {ox.hdr, NoHdr}]_vars
  BY NoRecordAfterClose
<1> QED BY <1>1, Invariance, OrderKept, PTL DEF Spec, CloseNotifyIsLast

(* Modes other than "FAILED" never lead to it.                             *)
LEMMA ModesOpen ==
  ASSUME iomode # "FAILED"
  PROVE  /\ ModeRecv # "FAILED" /\ ModeReadyIn(ModeRecv) # "FAILED"
         /\ ModeReadyIn(iomode) # "FAILED" /\ ModeReadyOut(iomode) # "FAILED"
         /\ AckOutMode(iomode) # "FAILED"
         /\ \A i, n : /\ AckInMode(i, n, iomode) # "FAILED"
                      /\ AckInMode(i, n, ModeRecv) # "FAILED"
                      /\ AckInMode(i, n, AckOutMode(iomode)) # "FAILED"
         /\ \A n : FlushMode(n) # "FAILED"
BY DEF ModeRecv, ModeReadyIn, ModeReadyOut, AckOutMode, AckInMode, FlushMode

(* An engine fails with an error, but for the last line of do-close.       *)
LEMMA FailsWithError ==
  ASSUME Next, iomode # "FAILED", iomode' = "FAILED", err' = "OK"
  PROVE  Running("closeWait") /\ CloseDone
<1>1. ~Fail("ERROR")
  BY DEF Fail
<1>2. ASSUME HsStep PROVE Running("closeWait") /\ CloseDone
  <2>1. CASE \/ HsEnter \/ HsClose \/ HsAlerts \/ HsDiscard \/ HsYield \/ HsSet \/ HsRoom
             \/ HsWrite \/ HsAlertOut \/ HsNoFrag \/ HsRefuse \/ HsBranch \/ \E f : HsFrag(f)
    BY <2>1 DEF HsEnter, HsClose, HsAlerts, HsDiscard, HsYield, HsSet, HsRoom, HsWrite,
                HsAlertOut, HsNoFrag, HsRefuse, HsBranch, HsFrag
  <2>2. CASE HsAlertsEnd
    BY <2>2 DEF HsAlertsEnd, Continue
  <2>3. CASE HsGoOn \/ HsNoMore \/ (\E byte : HsAlertByte(byte)) \/ \E bad : HsReadCcs(bad)
    BY <1>1, <2>3 DEF HsGoOn, HsNoMore, HsAlertByte, HsReadCcs, Continue
  <2>4. ASSUME NEW bad, HsRead(bad) PROVE FALSE
    BY <1>1, <2>4 DEF HsRead
  <2>5. CASE HsReturn
    BY <2>5, ModesOpen DEF HsReturn
  <2>6. CASE HsFlush \/ HsWriteCcs
    BY <2>6, ModesOpen DEF HsFlush, HsWriteCcs
  <2>7. CASE HsEnd
    <3>1. ~(Running("fail") /\ Fail("ERROR"))
      BY <1>1
    <3> QED BY <2>7, <3>1 DEF HsEnd
  <2> QED BY <1>2, <2>1, <2>2, <2>3, <2>4, <2>5, <2>6, <2>7 DEF HsStep
<1>3. ASSUME NEW i, Deliver(i) PROVE FALSE
  BY <1>1, <1>3, ModesOpen DEF Deliver
<1>4. ~(RecvBody \/ RecvHead)
  BY <1>1, <1>3, ModesOpen DEF RecvBody, RecvHead, RecvCipherPart, RecvClear, RecvCipherEnd,
                               RecvHeaderPart, RecvHeader
<1>5. ~SendRec
  BY ModesOpen DEF SendRec, SendRecAck
<1>6. ~AppStep
  BY <1>1, ModesOpen DEF AppStep, SendAppAck, RecvAppAck, Flush, Close, Renegotiate, Reset, IoFail
<1> QED BY <1>2, <1>4, <1>5, <1>6 DEF Next

(* The engine ends without an error only in a closure that ran both ways:  *)
(* the close_notify was sent to its last byte, and one was received        *)
(* (do-close's last loop, process-alert-byte).                             *)
THEOREM CloseIsClean ==
  ASSUME Shared => Forces \subseteq {FALSE}
  PROVE  Spec => CleanClose
<1> DEFINE A == iomode # "FAILED" /\ iomode' = "FAILED" /\ err' = "OK"
                  => At("closeWait") /\ shutdownRecv /\ ~Record(ox)
<1>1. ASSUME IInv, OrderInv, Next, iomode # "FAILED", iomode' = "FAILED", err' = "OK"
      PROVE  At("closeWait") /\ shutdownRecv /\ ~Record(ox)
  <2>1. Running("closeWait") /\ cnr /\ h.out > 0
    BY <1>1, FailsWithError DEF CloseDone
  <2>2. ox.hdr = NoHdr
    BY <1>1, <2>1, WindowOpen
  <2>3. shutdownRecv
    BY <1>1, <2>1 DEF OrderInv, CnrInv, Running
  <2> QED BY <2>1, <2>2, <2>3 DEF Running, Record
<1>2. IInv /\ OrderInv /\ [Next]_vars => [A]_vars
  BY <1>1
<1> HIDE DEF A
<1>3. Spec => [][A]_vars
  BY <1>2, Invariance, OrderKept, PTL DEF Spec
<1> QED BY <1>3 DEF A, CleanClose

-----------------------------------------------------------------------------
(* What the handshake code reads.                                          *)

(* Where the coroutine waits; where a program that has input waits for     *)
(* something else, which with a shared buffer does not come before the     *)
(* input is read; programs that read nothing, as those of a closure.       *)
WaitOps == {"read", "readCcs", "write", "room", "writeCcs", "closeRoom", "closeWait"}
Turns == {"write", "room", "writeCcs", "readCcs"}
Silent(t)  == ~Has("read", t) /\ ~Has("branch", t)
Closure(t) == Has("closeRoom", t) \/ Has("closeWait", t)
AtStart == At("begin") /\ pc \in {"jump", "resume"} /\ ix.a = ix.b /\ ~(h.in > 0)

HeardInv == iomode # "FAILED" /\ ix.a # ix.b => rtin \in RecTypes
NotAppInv == h.in > 0 => rtin # APPDATA
WaitInv == pc = "run" \/ todo = <<>> \/ Head(todo).op \in WaitOps \/ AtStart
ClosureInv == Closure(todo) => Silent(todo)
TurnInv ==
  Shared /\ pc = "run" /\ h.in > 0
    => rtin = HANDSHAKE \/ (todo # <<>> /\ Head(todo).op \in Turns) \/ Silent(todo)
ReadInv == HeardInv /\ NotAppInv /\ WaitInv /\ ClosureInv /\ TurnInv

(* The programs that start in the main loop do not close; those that close *)
(* or fail do not read.                                                    *)
LEMMA ProgramsRead ==
  /\ ~Closure(DoHandshake) /\ ~Closure(FullHandshake) /\ ~Closure(Resumption)
  /\ ~Closure(OnHandshakeData) /\ ~Closure(OnRenegotiate) /\ ~Closure(FailAlert)
  /\ Silent(DoClose) /\ Silent(FailAlert)
  /\ ~Closure(<<>>)
<1>1. /\ ~Closure(DoHandshake) /\ ~Closure(FullHandshake) /\ ~Closure(Resumption)
      /\ ~Closure(OnHandshakeData) /\ ~Closure(OnRenegotiate) /\ ~Closure(FailAlert)
  BY DoHandshakeOrdered, FullHandshakeOrdered, ResumptionOrdered, MainOrdered, ClosureOrdered,
     PlainHas DEF Closure
<1>2. Silent(DoClose) /\ Silent(FailAlert) /\ ~Closure(<<>>)
  BY DEF Silent, Closure, Has, DoClose, FailAlert, I
<1> QED BY <1>1, <1>2

(* The input of the coroutine is a record that it may have to refuse, but  *)
(* never one that the application reads.                                   *)
LEMMA InputKnown ==
  ASSUME IInv, ReadInv, h.in > 0
  PROVE  rtin \in {CCS, ALERT, HANDSHAKE} /\ iomode # "FAILED"
<1>1. h \in Window /\ ix \in InRegs
  BY DEF IInv, TypeOK
<1>2. h.in \in Nat /\ h.in0 \in Nat /\ ix.a \in Nat /\ ix.b \in Nat
  BY <1>1 DEF Window, InRegs
<1>3. h.in0 > 0
  BY <1>2 DEF IInv, WindowInv
<1>4. Receiving(iomode) /\ ix.a # ix.b
  BY <1>2, <1>3 DEF IInv, WindowInv
<1>5. iomode # "FAILED"
  BY <1>4 DEF Receiving
<1> QED BY <1>4, <1>5 DEF ReadInv, HeardInv, NotAppInv, RecTypes

(* A failed engine has nothing to read.                                    *)
LEMMA FailRead == ASSUME NEW e, Fail(e) PROVE ReadInv'
<1>1. iomode' = "FAILED" /\ todo' = <<>> /\ ~(h'.in > 0)
  BY DEF Fail, Idle
<1>2. HeardInv' /\ NotAppInv' /\ TurnInv'
  BY <1>1 DEF HeardInv, NotAppInv, TurnInv
<1>3. WaitInv' /\ ClosureInv'
  BY <1>1, ProgramsRead DEF WaitInv, ClosureInv
<1> QED BY <1>2, <1>3 DEF ReadInv

(* A call between jumps leaves the coroutine where it waits.               *)
LEMMA CallRead ==
  ASSUME IInv, ReadInv, pc = "idle", UNCHANGED <<todo, h>>, pc' \in {"idle", "jump"}, HeardInv'
  PROVE  ReadInv'
<1>1. h = Idle
  BY DEF IInv, CallInv
<1>2. NotAppInv' /\ TurnInv'
  BY <1>1 DEF NotAppInv, TurnInv, Idle
<1>3. WaitInv'
  BY DEF ReadInv, WaitInv, AtStart
<1>4. ClosureInv'
  BY DEF ReadInv, ClosureInv
<1> QED BY <1>2, <1>3, <1>4 DEF ReadInv

(* The coroutine starts another program: it reads handshake bytes only.    *)
LEMMA StartRead ==
  ASSUME IInv, ReadInv, UNCHANGED <<iomode, ix, rtin>>, pc' = "run",
         h'.in > 0 => h.in > 0 /\ (Silent(todo') \/ rtin = HANDSHAKE),
         ~Closure(todo') \/ Silent(todo')
  PROVE  ReadInv'
<1>1. HeardInv' /\ NotAppInv'
  BY DEF ReadInv, HeardInv, NotAppInv
<1>2. WaitInv' /\ ClosureInv' /\ TurnInv'
  BY DEF WaitInv, ClosureInv, TurnInv
<1> QED BY <1>1, <1>2 DEF ReadInv

(* The coroutine is done with an instruction; when it waited for something *)
(* else than input, there is no input.                                     *)
LEMMA StepRead ==
  ASSUME IInv, ReadInv, UNCHANGED <<ix, rtin, pc>>, NEW op, Running(op),
         iomode' # "FAILED" => iomode # "FAILED",
         todo' = Tail(todo), h'.in > 0 => h.in > 0,
         Shared /\ h'.in > 0 => op \notin Turns
  PROVE  ReadInv'
<1>1. todo \in Seq(Instr) /\ todo # <<>> /\ Head(todo).op = op /\ pc = "run"
  BY DEF IInv, TypeOK, Running, At
<1>2. \A o : Has(o, todo) <=> op = o \/ Has(o, Tail(todo))
  BY <1>1, TailParts
<1>3. HeardInv' /\ NotAppInv' /\ WaitInv'
  BY <1>1 DEF ReadInv, HeardInv, NotAppInv, WaitInv
<1>4. Silent(todo) => Silent(todo')
  BY <1>2 DEF Silent
<1>5. Closure(todo') => Closure(todo)
  BY <1>2 DEF Closure
<1>6. ClosureInv'
  BY <1>4, <1>5 DEF ReadInv, ClosureInv
<1>7. TurnInv'
  BY <1>1, <1>4 DEF ReadInv, TurnInv
<1> QED BY <1>3, <1>6, <1>7 DEF ReadInv

(* The coroutine is part done: there is no input left.                     *)
LEMMA PartRead ==
  ASSUME IInv, ReadInv, UNCHANGED <<iomode, ix, rtin, pc>>, NEW op, Running(op), NEW m,
         todo' = <<I(op, m)>> \o Tail(todo), h'.in > 0 => h.in > 0,
         ~(Shared /\ h'.in > 0)
  PROVE  ReadInv'
<1>1. todo \in Seq(Instr) /\ todo # <<>> /\ Head(todo).op = op /\ pc = "run"
  BY DEF IInv, TypeOK, Running, At
<1>2. todo' = Shortened(todo, m)
  BY <1>1 DEF Shortened
<1>3. \A o : Has(o, Shortened(todo, m)) <=> Has(o, todo)
  BY <1>1, SameParts
<1>4. ClosureInv'
  BY <1>2, <1>3 DEF ReadInv, ClosureInv, Silent, Closure
<1>5. HeardInv' /\ NotAppInv' /\ WaitInv' /\ TurnInv'
  BY <1>1 DEF ReadInv, HeardInv, NotAppInv, WaitInv, TurnInv
<1> QED BY <1>4, <1>5 DEF ReadInv

(* A reset engine has nothing to read.                                     *)
LEMMA InitRead == ASSUME Init PROVE ReadInv
<1>1. At("begin")
  BY DoHandshakeOrdered DEF Init, At
<1>2. HeardInv /\ NotAppInv /\ TurnInv
  BY DEF Init, HeardInv, NotAppInv, TurnInv, ReadyIn, Idle
<1>3. WaitInv
  BY <1>1 DEF Init, WaitInv, AtStart, ReadyIn, Idle
<1>4. ClosureInv
  BY ProgramsRead DEF Init, ClosureInv
<1> QED BY <1>2, <1>3, <1>4 DEF ReadInv

(* ... again after a later reset.                                          *)
LEMMA ResetRead == ASSUME Reset PROVE ReadInv'
<1>1. At("begin")'
  BY DoHandshakeOrdered DEF Reset, At
<1>2. HeardInv' /\ NotAppInv' /\ TurnInv'
  BY DEF Reset, HeardInv, NotAppInv, TurnInv, ReadyIn, Idle
<1>3. WaitInv'
  BY <1>1 DEF Reset, WaitInv, AtStart, ReadyIn, Idle
<1>4. ClosureInv'
  BY ProgramsRead DEF Reset, ClosureInv
<1> QED BY <1>2, <1>3, <1>4 DEF ReadInv

(* Payload is delivered of known record types only.                        *)
LEMMA DeliverRead ==
  ASSUME IInv, ReadInv, NEW i, Open, Deliver(i), UNCHANGED rtin
  PROVE  ReadInv'
<1>1. CASE Fail("ERROR")
  BY <1>1, FailRead
<1>2. CASE ~Fail("ERROR")
  <2>1. pc = "idle" /\ UNCHANGED <<todo, h>> /\ pc' \in {"idle", "jump"} /\ rtin \in RecTypes
    BY <1>2 DEF Deliver, Open, Jump, hsVars, RecTypes
  <2>2. HeardInv'
    BY <2>1 DEF HeardInv
  <2> QED BY <2>1, <2>2, CallRead
<1> QED BY <1>1, <1>2

(* Reading part of what can be read leaves the rest of the same record.    *)
LEMMA AckRead ==
  ASSUME ix.a # ix.b \/ rtin \in RecTypes, HeardInv, iomode # "FAILED", UNCHANGED rtin,
         \E n : ix' = AckIn(ix, n)
  PROVE  HeardInv'
BY DEF HeardInv

(* The calls of the application and of the transport.                      *)
LEMMA CallsRead ==
  ASSUME IInv, ReadInv, RecvBody \/ RecvHead \/ SendRec \/ AppStep
  PROVE  ReadInv'
<1>1. ASSUME NEW n, RecvCipherPart(n) \/ RecvHeaderPart(n) PROVE ReadInv'
  <2>1. pc = "idle" /\ UNCHANGED <<pc, todo, h>> /\ ix'.a = ix'.b
    BY <1>1 DEF RecvCipherPart, RecvHeaderPart, Open, hsVars
  <2> QED BY <2>1, CallRead DEF HeardInv
<1>2. ASSUME NEW n, RecvClear(n) PROVE ReadInv'
  BY <1>2, DeliverRead DEF RecvClear
<1>3. ASSUME NEW bad, RecvCipherEnd(bad) PROVE ReadInv'
  <2>1. \/ Fail("ERROR")
        \/ ix' = ReadyIn /\ UNCHANGED <<err, hsVars>>
        \/ \E i : Deliver(i)
    BY <1>3 DEF RecvCipherEnd
  <2>2. CASE ix' = ReadyIn /\ UNCHANGED <<err, hsVars>>
    <3>1. pc = "idle" /\ UNCHANGED <<pc, todo, h>> /\ ix'.a = ix'.b
      BY <1>3, <2>2 DEF RecvCipherEnd, Open, hsVars, ReadyIn
    <3> QED BY <3>1, CallRead DEF HeardInv
  <2>3. ASSUME NEW i, Deliver(i) PROVE ReadInv'
    BY <1>3, <2>3, DeliverRead DEF RecvCipherEnd
  <2> QED BY <2>1, <2>2, <2>3, FailRead
<1>4. ASSUME NEW type, NEW rlen, NEW bad, RecvHeader(type, rlen, bad) PROVE ReadInv'
  <2>1. CASE Fail("ERROR")
    BY <2>1, FailRead
  <2>2. CASE ~Fail("ERROR")
    <3>1. pc = "idle" /\ UNCHANGED <<pc, todo, h>> /\ ix'.a = ix'.b
      BY <1>4, <2>2 DEF RecvHeader, Open, hsVars, ReadyIn
    <3> QED BY <3>1, CallRead DEF HeardInv
  <2> QED BY <2>1, <2>2
<1>5. ASSUME NEW n, SendRecAck(n) PROVE ReadInv'
  <2>1. pc = "idle" /\ UNCHANGED <<todo, h, ix, rtin>> /\ pc' \in {"idle", "jump"}
        /\ iomode # "FAILED"
    BY <1>5 DEF SendRecAck, Open, Jump, hsVars, inVars
  <2> QED BY <2>1, CallRead DEF ReadInv, HeardInv
<1>6. ASSUME AppStep PROVE ReadInv'
  <2>1. CASE \/ \E n \in 1 .. SendAppLen : SendAppAck(n)
             \/ \E force \in Forces : Flush(force)
             \/ Renegotiate
    <3>1. pc = "idle" /\ UNCHANGED <<todo, h, ix, rtin>> /\ pc' \in {"idle", "jump"}
          /\ iomode # "FAILED"
      BY <2>1 DEF SendAppAck, Flush, Renegotiate, Open, Jump, hsVars, inVars
    <3> QED BY <3>1, CallRead DEF ReadInv, HeardInv
  <2>2. ASSUME NEW n \in 1 .. RecvAppLen, RecvAppAck(n) PROVE ReadInv'
    <3>1. pc = "idle" /\ UNCHANGED <<todo, h, rtin, pc>>
      BY <2>2 DEF RecvAppAck, Open, hsVars
    <3>2. rtin = APPDATA
      <4>1. RecvAppLen # 0
        <5>1. CASE RecvAppLen = 0
          BY <5>1
        <5> QED BY <5>1
      <4> QED BY <4>1 DEF RecvAppLen
    <3>3. HeardInv'
      BY <3>1, <3>2 DEF HeardInv, RecTypes
    <3> QED BY <3>1, <3>3, CallRead
  <2>3. CASE Close
    <3>1. pc = "idle" /\ UNCHANGED <<todo, h, rtin>> /\ pc' = "jump" /\ iomode # "FAILED"
      BY <2>3 DEF Close, Open, Jump
    <3>2. HeardInv'
      <4>1. CASE RecvAppLen > 0
        <5>1. rtin = APPDATA
          BY <4>1 DEF RecvAppLen
        <5> QED BY <3>1, <5>1 DEF HeardInv, RecTypes
      <4>2. CASE ~(RecvAppLen > 0)
        BY <2>3, <3>1, <4>2 DEF Close, ReadInv, HeardInv
      <4> QED BY <4>1, <4>2
    <3> QED BY <3>1, <3>2, CallRead
  <2>4. CASE Reset \/ IoFail
    BY <2>4, ResetRead, FailRead DEF IoFail
  <2> QED BY <1>6, <2>1, <2>2, <2>3, <2>4 DEF AppStep
<1> QED BY <1>1, <1>2, <1>3, <1>4, <1>5, <1>6 DEF RecvBody, RecvHead, SendRec

(* The jump offers what can be read, application data excepted.            *)
LEMMA HsEnterRead == ASSUME IInv, ReadInv, HsEnter PROVE ReadInv'
<1>1. /\ UNCHANGED <<todo, ix, rtin, iomode>> /\ pc = "jump" /\ pc' = "resume"
      /\ h'.in = IF rtin = APPDATA THEN 0 ELSE RecvPldLen(iomode, ix)
  BY DEF HsEnter, inVars
<1>2. HeardInv' /\ ClosureInv'
  BY <1>1 DEF ReadInv, HeardInv, ClosureInv
<1>3. NotAppInv' /\ TurnInv'
  BY <1>1 DEF NotAppInv, TurnInv
<1>4. WaitInv'
  <2>1. CASE todo = <<>> \/ Head(todo).op \in WaitOps
    BY <1>1, <2>1 DEF WaitInv
  <2>2. CASE AtStart
    <3>1. ix.a = ix.b /\ ix.a \in Nat /\ ix.b \in Nat
      BY <2>2 DEF AtStart, IInv, TypeOK, InRegs
    <3>2. ~(h'.in > 0)
      BY <1>1, <3>1 DEF RecvPldLen
    <3> QED BY <1>1, <2>2, <3>1, <3>2 DEF WaitInv, AtStart, At
  <2> QED BY <1>1, <2>1, <2>2 DEF ReadInv, WaitInv
<1> QED BY <1>2, <1>3, <1>4 DEF ReadInv

(* On return, what the coroutine read is gone.                             *)
LEMMA HsReturnRead == ASSUME IInv, ReadInv, HsReturn PROVE ReadInv'
<1>1. /\ UNCHANGED <<todo, rtin>> /\ pc = "yield" /\ ~(h'.in > 0)
      /\ ix' = IF h.in0 - h.in > 0 THEN AckIn(ix, h.in0 - h.in) ELSE ix
  BY DEF HsReturn, Idle
<1>2. iomode # "FAILED"
  BY <1>1 DEF IInv, CallInv
<1>3. HeardInv'
  <2>1. CASE h.in0 - h.in > 0
    <3>1. h.in0 \in Nat /\ h.in \in Nat /\ ix.a \in Nat /\ ix.b \in Nat
      BY DEF IInv, TypeOK, Window, InRegs
    <3>2. ix.a # ix.b
      BY <2>1, <3>1 DEF IInv, WindowInv
    <3> QED BY <1>1, <1>2, <3>2 DEF ReadInv, HeardInv
  <2>2. CASE ~(h.in0 - h.in > 0)
    BY <1>1, <1>2, <2>2 DEF ReadInv, HeardInv
  <2> QED BY <2>1, <2>2
<1>4. NotAppInv' /\ TurnInv'
  BY <1>1 DEF NotAppInv, TurnInv
<1>5. WaitInv' /\ ClosureInv'
  BY <1>1 DEF ReadInv, WaitInv, ClosureInv, AtStart
<1> QED BY <1>3, <1>4, <1>5 DEF ReadInv

(* The program that waited goes on where its input, if any, is for it.     *)
LEMMA ContinueRead ==
  ASSUME IInv, ReadInv, Continue, UNCHANGED <<ix, rtin>>, ~Closing, pc \in {"resume", "alerts"},
         h.in > 0 => todo # <<>> /\ (rtin = HANDSHAKE \/ (rtin = CCS /\ ~At("read")))
  PROVE  ReadInv'
<1>1. UNCHANGED <<iomode, h>>
  BY DEF Continue
<1>2. CASE todo = <<>> /\ WantReneg
  <2>1. todo' = OnRenegotiate /\ pc' = "run"
    BY <1>2 DEF Continue
  <2> QED BY <1>1, <1>2, <2>1, ProgramsRead, StartRead
<1>3. CASE ~(todo = <<>> /\ WantReneg)
  <2>1. todo' = todo /\ (todo # <<>> => pc' = "run")
    BY <1>3 DEF Continue
  <2>2. HeardInv' /\ NotAppInv' /\ ClosureInv' /\ WaitInv'
    BY <1>1, <2>1 DEF ReadInv, HeardInv, NotAppInv, ClosureInv, WaitInv
  <2>3. h.in > 0 => rtin = HANDSHAKE \/ Head(todo).op \in Turns
    BY DEF ReadInv, WaitInv, AtStart, At, Closing, WaitOps, Turns
  <2>4. TurnInv'
    BY <1>1, <2>1, <2>3 DEF TurnInv
  <2> QED BY <2>2, <2>4 DEF ReadInv
<1> QED BY <1>2, <1>3

(* What follows the return of co.                                          *)
LEMMA ReturnRead ==
  ASSUME IInv, ReadInv,
         \/ HsClose \/ HsAlerts \/ HsAlertsEnd \/ HsGoOn \/ HsDiscard
         \/ \E byte : HsAlertByte(byte)
  PROVE  ReadInv'
<1>0. h.in \in Nat /\ h \in Window
  BY DEF IInv, TypeOK, Window
<1>1. ASSUME NEW received, StartClose(received), UNCHANGED <<iomode, ix, rtin, h>> PROVE ReadInv'
  <2>1. todo' = DoClose /\ pc' = "run"
    BY <1>1 DEF StartClose
  <2> QED BY <1>1, <2>1, ProgramsRead, StartRead
<1>2. CASE HsClose
  BY <1>1, <1>2 DEF HsClose, inVars
<1>3. CASE HsAlerts
  <2>1. UNCHANGED <<todo, ix, rtin, iomode, h>> /\ pc' = "alerts" /\ h.in > 0
    BY <1>3 DEF HsAlerts, inVars
  <2>2. HeardInv' /\ NotAppInv' /\ ClosureInv' /\ TurnInv'
    BY <2>1 DEF ReadInv, HeardInv, NotAppInv, ClosureInv, TurnInv
  <2>3. WaitInv'
    BY <1>3, <2>1 DEF ReadInv, WaitInv, AtStart, HsAlerts
  <2> QED BY <2>2, <2>3 DEF ReadInv
<1>4. CASE HsAlertsEnd
  <2>1. UNCHANGED <<ix, rtin>> /\ pc = "alerts" /\ h.in = 0
    BY <1>4 DEF HsAlertsEnd
  <2>2. CASE Closing
    <3>1. UNCHANGED <<iomode, h, todo>> /\ pc' = "run"
      BY <1>4, <2>2 DEF HsAlertsEnd
    <3> QED BY <2>1, <3>1 DEF ReadInv, HeardInv, NotAppInv, ClosureInv, WaitInv, TurnInv
  <2>3. CASE ~Closing /\ cnr
    BY <1>1, <1>4, <2>1, <2>3 DEF HsAlertsEnd
  <2>4. CASE ~Closing /\ ~cnr
    <3>1. Continue
      BY <1>4, <2>4 DEF HsAlertsEnd
    <3> QED BY <2>1, <2>4, <3>1, ContinueRead
  <2> QED BY <2>2, <2>3, <2>4
<1>5. CASE HsGoOn
  <2>1. UNCHANGED <<ix, rtin>> /\ pc = "resume" /\ ~Closing
    BY <1>5 DEF HsGoOn, inVars
  <2>2. h.in > 0 => rtin \in {CCS, HANDSHAKE}
    BY <1>5, InputKnown DEF HsGoOn
  <2>3. CASE Fail("ERROR")
    BY <2>3, FailRead
  <2>4. CASE /\ ~Fail("ERROR") /\ todo = <<>> /\ h.in > 0
    <3>1. todo' = OnHandshakeData /\ pc' = "run" /\ UNCHANGED <<iomode, h>>
      BY <1>5, <2>4 DEF HsGoOn
    <3>2. rtin = HANDSHAKE
      BY <1>5, <2>2, <2>4 DEF HsGoOn, CcsRefused
    <3> QED BY <2>1, <3>1, <3>2, ProgramsRead, StartRead
  <2>5. CASE /\ ~Fail("ERROR") /\ ~(todo = <<>> /\ h.in > 0)
    <3>1. Continue
      BY <1>5, <2>5 DEF HsGoOn
    <3>2. h.in > 0 => todo # <<>> /\ (rtin = HANDSHAKE \/ (rtin = CCS /\ ~At("read")))
      BY <1>5, <2>2, <2>5 DEF HsGoOn, CcsRefused
    <3> QED BY <2>1, <3>1, <3>2, ContinueRead
  <2> QED BY <2>3, <2>4, <2>5
<1>6. CASE HsDiscard
  <2>1. UNCHANGED <<ix, rtin, iomode, todo>> /\ Closing /\ pc' = "run"
        /\ h' = IF cnr THEN h ELSE [h EXCEPT !.in = 0]
    BY <1>6 DEF HsDiscard, inVars
  <2>2. h'.in > 0 => h.in > 0
    BY <1>0, <2>1 DEF Window
  <2>3. Closure(todo)
    <3>1. \E op \in {"closeRoom", "closeWait"} : todo # <<>> /\ Head(todo).op = op
      BY <2>1 DEF Closing, At
    <3>2. todo \in Seq(Instr)
      BY DEF IInv, TypeOK
    <3> QED BY <3>1, <3>2, TailParts DEF Closure
  <2>4. Silent(todo')
    BY <2>1, <2>3 DEF ReadInv, ClosureInv
  <2> QED BY <2>1, <2>2, <2>4, StartRead
<1>7. ASSUME NEW byte, HsAlertByte(byte) PROVE ReadInv'
  <2>1. CASE Fail("ERROR")
    BY <2>1, FailRead
  <2>2. CASE ~Fail("ERROR")
    <3>1. /\ UNCHANGED <<ix, rtin, iomode, todo, pc>> /\ pc = "alerts" /\ h.in > 0
          /\ h' = [h EXCEPT !.in = @ - 1]
      BY <1>7, <2>2 DEF HsAlertByte, inVars
    <3>2. HeardInv' /\ ClosureInv' /\ TurnInv'
      BY <3>1 DEF ReadInv, HeardInv, ClosureInv, TurnInv
    <3>3. NotAppInv'
      BY <3>1 DEF ReadInv, NotAppInv
    <3>4. WaitInv'
      BY <3>1 DEF ReadInv, WaitInv, AtStart
    <3> QED BY <3>2, <3>3, <3>4 DEF ReadInv
  <2> QED BY <2>1, <2>2
<1> QED BY <1>2, <1>3, <1>4, <1>5, <1>6, <1>7

(* The instructions.                                                       *)
LEMMA RunRead ==
  ASSUME IInv, OneWindowWhenShared, ReadInv,
         \/ HsYield \/ HsSet \/ HsRoom \/ HsWrite \/ HsAlertOut \/ HsFlush \/ HsWriteCcs
         \/ \E bad : HsRead(bad) \/ HsReadCcs(bad)
         \/ HsNoMore \/ HsNoFrag \/ HsRefuse \/ HsBranch \/ HsEnd
         \/ \E f : HsFrag(f)
  PROVE  ReadInv'
<1>0. /\ h \in Window /\ h.in \in Nat /\ h.out \in Nat /\ h.put \in Nat
      /\ todo \in Seq(Instr) /\ (todo # <<>> => Head(todo).n \in Nat)
  <2>1. h \in Window /\ todo \in Seq(Instr)
    BY DEF IInv, TypeOK
  <2>2. todo # <<>> => Head(todo) \in Instr
    BY <2>1, HeadTailProperties
  <2> QED BY <2>1, <2>2 DEF Window, Instr
<1>1. pc = "run" => iomode # "FAILED"
  BY DEF IInv, CallInv
<1>2. Shared /\ h.out > 0 => ~(h.in > 0)
  BY <1>0 DEF OneWindowWhenShared
<1>3. CASE HsYield
  <2>1. UNCHANGED <<ix, rtin, iomode, todo, h>> /\ pc' = "yield" /\ (todo = <<>> \/ Head(todo).op \in WaitOps)
    BY <1>3 DEF HsYield, inVars, Yield, At, WaitOps
  <2>2. HeardInv' /\ NotAppInv' /\ ClosureInv' /\ TurnInv' /\ WaitInv'
    BY <2>1 DEF ReadInv, HeardInv, NotAppInv, ClosureInv, TurnInv, WaitInv
  <2> QED BY <2>2 DEF ReadInv
<1>4. CASE HsSet \/ HsNoFrag
  <2>1. UNCHANGED <<ix, rtin, iomode, pc, h>> /\ todo' = Tail(todo)
        /\ \E op \in {"begin", "noapp", "type", "end", "frag"} : Running(op)
    BY <1>4 DEF HsSet, HsNoFrag, inVars, hsVars, Next1
  <2> QED BY <1>1, <2>1, StepRead DEF Turns
<1>5. CASE HsRoom \/ (HsWrite /\ todo' = Tail(todo))
  <2>1. UNCHANGED <<ix, rtin, iomode, pc>> /\ todo' = Tail(todo) /\ h'.in = h.in /\ h.out > 0
        /\ \E op : Running(op)
    BY <1>5 DEF HsRoom, HsWrite, inVars, Next1, Put, Offer
  <2> QED BY <1>1, <1>2, <2>1, StepRead
<1>6. ASSUME NEW m, HsWrite, todo' = <<I("write", m)>> \o Tail(todo) PROVE ReadInv'
  <2>1. UNCHANGED <<ix, rtin, iomode, pc>> /\ h'.in = h.in /\ h.out > 0 /\ Running("write")
    BY <1>6 DEF HsWrite, inVars, Put, Offer
  <2> QED BY <1>2, <1>6, <2>1, PartRead
<1>7. HsWrite => todo' = Tail(todo) \/ \E m : todo' = <<I("write", m)>> \o Tail(todo)
  BY DEF HsWrite
<1>8. CASE HsAlertOut
  <2>1. UNCHANGED <<ix, rtin, iomode, pc>> /\ todo' = Tail(todo) /\ h'.in = h.in /\ Running("alert")
    BY <1>8 DEF HsAlertOut, inVars, Next1, Put, Offer
  <2> QED BY <2>1, StepRead DEF Turns
<1>9. CASE HsFlush
  <2>1. UNCHANGED <<ix, rtin, pc>> /\ todo' = Tail(todo) /\ h'.in = h.in /\ Running("flush")
    BY <1>9 DEF HsFlush, inVars, Next1, Offer
  <2> QED BY <1>1, <2>1, StepRead DEF Turns, Running
<1>10. CASE HsWriteCcs
  <2>1. UNCHANGED <<ix, rtin, pc>> /\ todo' = Tail(todo) /\ h'.in = h.in /\ Running("writeCcs")
        /\ h.out > 0
    BY <1>10 DEF HsWriteCcs, inVars, Next1, Offer
  <2> QED BY <1>1, <1>2, <2>1, StepRead DEF Running
<1>11. ASSUME NEW bad, HsRead(bad) PROVE ReadInv'
  <2> DEFINE n == Head(todo).n
             k == Least(n, h.in)
  <2>0. UNCHANGED <<ix, rtin>> /\ Running("read") /\ pc = "run"
    BY <1>11 DEF HsRead, inVars, Running
  <2>1. CASE Fail("ERROR")
    BY <2>1, FailRead
  <2>2. CASE ~Fail("ERROR")
    <3>1. /\ UNCHANGED <<iomode, pc>>
          /\ h' = [h EXCEPT !.in = h.in - k]
          /\ todo' = IF k = n THEN Tail(todo)
                     ELSE <<I("read", n - k)>> \o Tail(todo)
      BY <1>11, <2>2 DEF HsRead
    <3>2. k \in Nat /\ (k # n => k = h.in) /\ n \in Nat
      BY <1>0, <2>0 DEF Least, Running, At
    <3> HIDE DEF k, n
    <3>3. h'.in = h.in - k
      BY <1>0, <3>1 DEF Window
    <3>4. h'.in > 0 => h.in > 0
      BY <1>0, <3>2, <3>3
    <3>5. CASE todo' = Tail(todo)
      BY <2>0, <3>1, <3>4, <3>5, StepRead DEF Turns
    <3>6. CASE k # n /\ todo' = <<I("read", n - k)>> \o Tail(todo)
      <4>1. ~(h'.in > 0)
        BY <1>0, <3>2, <3>3, <3>6
      <4> QED BY <2>0, <3>1, <3>4, <3>6, <4>1, PartRead
    <3> QED BY <3>1, <3>5, <3>6
  <2> QED BY <2>1, <2>2
<1>12. ASSUME NEW bad, HsReadCcs(bad) PROVE ReadInv'
  <2>1. UNCHANGED <<ix, rtin>> /\ Running("readCcs") /\ pc = "run"
    BY <1>12 DEF HsReadCcs, Running
  <2>2. CASE Fail("ERROR")
    BY <2>2, FailRead
  <2>3. CASE ~Fail("ERROR")
    <3>1. /\ UNCHANGED <<iomode, pc>> /\ todo' = Tail(todo)
          /\ h' = [h EXCEPT !.in = @ - 1] /\ ~(h.in - 1 > 0)
      BY <1>12, <2>3 DEF HsReadCcs, Next1, MoreIncoming
    <3>2. ~(h'.in > 0)
      BY <1>0, <3>1 DEF Window
    <3> QED BY <2>1, <3>1, <3>2, StepRead
  <2> QED BY <2>2, <2>3
<1>13. CASE HsNoMore
  <2>1. CASE Fail("ERROR")
    BY <2>1, FailRead
  <2>2. CASE ~Fail("ERROR")
    <3>1. UNCHANGED <<ix, rtin, iomode, pc, h>> /\ todo' = Tail(todo) /\ Running("nomore")
      BY <1>13, <2>2 DEF HsNoMore, inVars, Next1
    <3> QED BY <3>1, StepRead DEF Turns
  <2> QED BY <2>1, <2>2
<1>14. ASSUME NEW f, HsFrag(f) PROVE ReadInv'
  <2>1. UNCHANGED <<ix, rtin, iomode, pc>> /\ todo' = Tail(todo) /\ Running("frag")
        /\ h'.in = h.in
    BY <1>14 DEF HsFrag, inVars, Next1, Offer
  <2> QED BY <2>1, StepRead DEF Turns
<1>15. CASE HsBranch
  <2>1. UNCHANGED <<ix, rtin, iomode, pc, h>> /\ todo' \in {FullHandshake, Resumption}
        /\ Running("branch") /\ pc = "run"
    BY <1>15 DEF HsBranch, inVars, Running
  <2>2. Has("branch", todo)
    BY <1>0, <2>1, TailParts DEF Running, At
  <2>3. ~Closure(todo')
    BY <2>1, ProgramsRead
  <2>4. HeardInv' /\ NotAppInv' /\ WaitInv' /\ ClosureInv'
    BY <2>1, <2>3 DEF ReadInv, HeardInv, NotAppInv, WaitInv, ClosureInv
  <2>5. Shared /\ h.in > 0 => rtin = HANDSHAKE
    BY <2>1, <2>2 DEF ReadInv, TurnInv, Silent, Turns, Running, At
  <2>6. TurnInv'
    BY <2>1, <2>5 DEF TurnInv
  <2> QED BY <2>4, <2>6 DEF ReadInv
<1>16. CASE HsEnd
  BY <1>16, FailRead DEF HsEnd
<1>17. CASE HsRefuse
  <2>1. UNCHANGED <<ix, rtin, iomode, pc, h>> /\ todo' = FailAlert /\ pc = "run"
    BY <1>17 DEF HsRefuse, inVars, Running
  <2> QED BY <1>1, <2>1, ProgramsRead, StartRead
<1> QED BY <1>3, <1>4, <1>5, <1>6, <1>7, <1>8, <1>9, <1>10, <1>11, <1>12, <1>13, <1>14, <1>15, <1>16,
       <1>17

(* Every step keeps apart what the handshake code reads.                   *)
LEMMA NextRead ==
  ASSUME IInv, OneWindowWhenShared, ReadInv, [Next]_vars
  PROVE  ReadInv'
<1>1. CASE HsStep
  BY <1>1, HsEnterRead, HsReturnRead, ReturnRead, RunRead DEF HsStep
<1>2. CASE RecvBody \/ RecvHead \/ SendRec \/ AppStep
  BY <1>2, CallsRead
<1>3. CASE UNCHANGED vars
  BY <1>3 DEF vars, inVars, outVars, hsVars, ReadInv, HeardInv, NotAppInv, WaitInv, AtStart, At,
              ClosureInv, TurnInv
<1> QED BY <1>1, <1>2, <1>3 DEF Next

(* With a shared buffer the handshake code takes bytes of handshake        *)
(* records only, although it checks their type when it is resumed and not  *)
(* when it reads (ssl_hs_common.t0:506-509): what it reads then is what    *)
(* made it run, as input and room for output never come together.          *)
THEOREM ReadsHandshakeOnly ==
  ASSUME Shared, Forces \subseteq {FALSE}
  PROVE  Spec => []HandshakeReadsHandshake
<1>1. Init => ReadInv
  BY InitRead
<1>2. IInv /\ ReadInv /\ [Next]_vars => ReadInv'
  <2>1. IInv => OneWindowWhenShared
    BY InvOneWindow
  <2> QED BY <2>1, NextRead
<1>3. ASSUME IInv, ReadInv PROVE HandshakeReadsHandshake
  <2>1. SUFFICES ASSUME Running("read"), h.in > 0 PROVE rtin = HANDSHAKE
    BY DEF HandshakeReadsHandshake
  <2>2. todo \in Seq(Instr) /\ todo # <<>> /\ Head(todo).op = "read" /\ pc = "run"
    BY <1>3, <2>1 DEF IInv, TypeOK, Running, At
  <2>3. Has("read", todo)
    BY <2>2, TailParts
  <2> QED BY <1>3, <2>1, <2>2, <2>3 DEF ReadInv, TurnInv, Silent, Turns
<1> QED BY <1>1, <1>2, <1>3, Invariance, PTL DEF Spec
=============================================================================
