---------------------------- MODULE SslIoProofs ----------------------------
(***************************************************************************)
(* The wrapper implements the engine's specification: what a theorem says  *)
(* of every sequence of engine calls holds of every program that uses the  *)
(* engine through ssl_io.c.                                                *)
(***************************************************************************)
EXTENDS SslIo, SslEngineRecordProofs

(* The steps of run_until: sending, receiving and failing are calls of the *)
(* engine, and the others leave it alone.                                  *)
LEMMA RunUntilUses == ASSUME RunUntil PROVE [Next]_vars
<1>1. CASE LoopClosed \/ LoopDone \/ LoopBlocked
  BY <1>1 DEF LoopClosed, LoopDone, LoopBlocked, vars, inVars, outVars, hsVars
<1>2. CASE LoopWrite
  BY <1>2 DEF LoopWrite, Next
<1>3. CASE LoopWriteFails
  BY <1>3 DEF LoopWriteFails, WriteFails, Next, AppStep, vars
<1>4. CASE LoopRead
  BY <1>4 DEF LoopRead, Next
<1>5. CASE LoopReadFails
  BY <1>5 DEF LoopReadFails, Next, AppStep
<1>6. CASE LoopFlush
  BY <1>6, IoAssumption DEF LoopFlush, FlushIfReady, Next, AppStep, vars
<1> QED BY <1>1, <1>2, <1>3, <1>4, <1>5, <1>6 DEF RunUntil

(* What follows run_until takes or adds bytes that the engine offered.     *)
LEMMA DataUses ==
  ASSUME ReadData \/ WriteData \/ Discard
  PROVE  [Next]_vars
<1>1. CASE ReadData
  <2> DEFINE n == Least(RecvAppLen, left)
  <2>1. RecvAppAck(n)
    BY <1>1 DEF ReadData
  <2>2. n \in 1 .. RecvAppLen
    BY <2>1 DEF RecvAppAck
  <2> QED BY <2>1, <2>2 DEF Next, AppStep
<1>2. CASE WriteData
  <2> DEFINE n == Least(SendAppLen, left)
  <2>1. SendAppAck(n)
    BY <1>2 DEF WriteData
  <2>2. n \in 1 .. SendAppLen
    BY <2>1 DEF SendAppAck
  <2> QED BY <2>1, <2>2 DEF Next, AppStep
<1>3. CASE Discard
  <2>1. CASE RecvAppLen > 0
    <3>1. RecvAppAck(RecvAppLen)
      BY <1>3, <2>1 DEF Discard
    <3>2. RecvAppLen \in 1 .. RecvAppLen
      BY <3>1 DEF RecvAppAck
    <3> QED BY <3>1, <3>2 DEF Next, AppStep
  <2>2. CASE ~(RecvAppLen > 0)
    BY <1>3, <2>2 DEF Discard, vars
  <2> QED BY <2>1, <2>2
<1> QED BY <1>1, <1>2, <1>3

(* Every step of the wrapper and of its caller is a step of the engine, or *)
(* leaves it alone.                                                        *)
LEMMA StepUses ==
  ASSUME [IoNext]_<<vars, ioVars>>
  PROVE  [Next]_vars
<1>1. CASE IoStep
  <2>1. CASE EngineStep
    BY <2>1 DEF EngineStep, Next
  <2>2. CASE RunUntil
    BY <2>2, RunUntilUses
  <2>3. CASE ReadData \/ WriteData \/ Discard
    BY <2>3, DataUses
  <2>4. CASE Flushed \/ Failed \/ CloseLoop
    BY <2>4 DEF Flushed, Failed, CloseLoop, vars
  <2> QED BY <1>1, <2>1, <2>2, <2>3, <2>4 DEF IoStep
<1>2. CASE IoCall
  <2>1. ASSUME NEW c \in Calls, NEW len \in Lens, BeginTransfer(c, len)
        PROVE  UNCHANGED vars
    BY <2>1 DEF BeginTransfer
  <2>2. CASE BeginFlush
    BY <2>2, IoAssumption DEF BeginFlush, FlushIfReady, Next, AppStep, vars
  <2>3. CASE BeginClose
    BY <2>3 DEF BeginClose, Next, AppStep, vars
  <2> QED BY <1>2, <2>1, <2>2, <2>3 DEF IoCall
<1>3. CASE UNCHANGED <<vars, ioVars>>
  BY <1>3
<1> QED BY <1>1, <1>2, <1>3 DEF IoNext

-----------------------------------------------------------------------------
(* The registers of the wrapper: no more is copied than is left.           *)
LEMMA IoTypeStep ==
  ASSUME TypeOK, IoTypeOK, [IoNext]_<<vars, ioVars>>
  PROVE  IoTypeOK'
<1>1. RecvAppLen \in Nat \/ ~(RecvAppLen > 0)
  BY DEF TypeOK, InRegs, RecvAppLen, RecvPldLen
<1>2. ASSUME NEW n, n <= left, n \in Nat, Copied(n) PROVE IoTypeOK'
  BY <1>2 DEF Copied, Return, IoTypeOK
<1>3. CASE ReadData
  <2> DEFINE n == Least(RecvAppLen, left)
  <2>1. RecvAppAck(n) /\ Copied(n)
    BY <1>3 DEF ReadData
  <2>2. n \in 1 .. RecvAppLen
    BY <2>1 DEF RecvAppAck
  <2>3. n \in Nat /\ n <= left
    BY <2>2 DEF IoTypeOK, Least, TypeOK, InRegs, RecvAppLen, RecvPldLen
  <2> HIDE DEF n
  <2> QED BY <1>2, <2>1, <2>3
<1>4. CASE WriteData
  <2> DEFINE n == Least(SendAppLen, left)
  <2>1. SendAppAck(n) /\ Copied(n)
    BY <1>4 DEF WriteData
  <2>2. n \in 1 .. SendAppLen
    BY <2>1 DEF SendAppAck
  <2>3. n \in Nat /\ n <= left
    BY <2>2 DEF IoTypeOK, Least, TypeOK, OutRegs, SendAppLen, SendPldLen
  <2> HIDE DEF n
  <2> QED BY <1>2, <2>1, <2>3
<1>5. CASE Flushed \/ Failed \/ Discard \/ CloseLoop
  BY <1>5 DEF Flushed, Failed, Discard, CloseLoop, Return, IoTypeOK
<1>6. CASE LoopRead
  BY <1>6, IoAssumption DEF LoopRead, IoTypeOK
<1>7. CASE EngineStep \/ LoopWrite \/ LoopFlush \/ UNCHANGED <<vars, ioVars>>
  BY <1>7 DEF EngineStep, LoopWrite, LoopFlush, ioVars, IoTypeOK
<1>8. CASE LoopClosed \/ LoopDone \/ LoopBlocked
  BY <1>8 DEF LoopClosed, LoopDone, LoopBlocked, IoTypeOK
<1>9. CASE LoopWriteFails \/ LoopReadFails
  <2>1. wire' \in [r : BOOLEAN, w : BOOLEAN]
    BY <1>9 DEF LoopWriteFails, LoopReadFails, ReadBroken, IoTypeOK
  <2> QED BY <1>9, <2>1 DEF LoopWriteFails, LoopReadFails, ReadBroken, IoTypeOK
<1>10. CASE IoCall
  BY <1>10, IoAssumption
  DEF IoCall, BeginTransfer, BeginFlush, BeginClose, Begin, IoTypeOK, Calls
<1> QED BY <1>3, <1>4, <1>5, <1>6, <1>7, <1>8, <1>9, <1>10
        DEF IoNext, IoStep, RunUntil

-----------------------------------------------------------------------------
(* The theorems.                                                           *)

(* Refinement: a program that reads, writes, flushes and closes through    *)
(* ssl_io.c, with callbacks that may fail, makes only engine calls the     *)
(* engine allows in that state.                                            *)
THEOREM WrapperUsesEngine == IoSpec => UsesEngine
<1>1. IoInit => Init
  BY DEF IoInit
<1>2. [IoNext]_<<vars, ioVars>> => [Next]_vars
  BY StepUses
<1> QED BY <1>1, <1>2, PTL DEF IoSpec, UsesEngine, Spec

(* Every buffer index stays inside its buffer under the wrapper, whatever  *)
(* lengths are read and written and whatever the transport does.           *)
THEOREM WrapperBounds ==
  ASSUME Shared => Forces \subseteq {FALSE}
  PROVE  IoSpec => []NoOverrun
<1>1. Spec => []NoOverrun
  BY BufferBounds
<1> QED BY <1>1, WrapperUsesEngine, PTL DEF UsesEngine

(* The counts of the wrapper never go below zero: read and write copy at   *)
(* most what the caller asked for (ssl_io.c:159-161, 201-203).             *)
THEOREM WrapperTypes ==
  ASSUME Shared => Forces \subseteq {FALSE}
  PROVE  IoSpec => []IoTypeOK
<1>1. Spec => []TypeOK
  BY TypeCorrect
<1>2. IoInit => IoTypeOK
  BY DEF IoInit, IoTypeOK
<1>3. TypeOK /\ IoTypeOK /\ [IoNext]_<<vars, ioVars>> => IoTypeOK'
  BY IoTypeStep
<1> QED BY <1>1, <1>2, <1>3, WrapperUsesEngine, PTL DEF IoSpec, UsesEngine
-----------------------------------------------------------------------------
(* Why a call fails.                                                       *)

(* The inductive invariant: with separate buffers the mode is input/output *)
(* until the engine ends; run_until has returned only while no engine call *)
(* runs; and it leaves behind the reason why it failed.                    *)
Reason ==
  \/ iomode = "FAILED"
  \/ shutdownRecv /\ ~wire.w
  \/ Shared /\ call \in {"write", "writeAll"} /\ RecvAppLen > 0
LoopInv ==
  /\ BothWays
  /\ loop # "off" => call \in Calls
  /\ loop \in {"ok", "failed"} => pc = "idle"
  /\ loop = "failed" => call = "close" \/ Reason

(* Where nothing is to be sent and the application may not write, unread   *)
(* data is in the way: this needs a shared buffer.                         *)
LEMMA BlockedShared ==
  ASSUME IInv, BothWays, Open, ~Sending, RecvAppLen > 0, ~(SendAppLen > 0)
  PROVE  Shared
<1> SUFFICES ASSUME ~Shared PROVE FALSE
  OBVIOUS
<1>1. iomode = "INOUT" /\ appdata = 1
  BY DEF BothWays, Open, RecvAppLen
<1>2. OutOK(ox, outenc) /\ ox.a \in Nat /\ ox.b \in Nat /\ ox.c \in Nat
  BY <1>1 DEF IInv, OutputInv, TypeOK, OutRegs
<1>3. CASE OpenOK(ox, outenc)
  BY <1>1, <1>2, <1>3 DEF OpenOK, SendAppLen, SendPldLen
<1>4. CASE SealedOK(ox)
  BY <1>1, <1>2, <1>4 DEF SealedOK, Sending, SendRecLen
<1> QED BY <1>2, <1>3, <1>4 DEF OutOK

(* The coroutine runs within a call.                                       *)
LEMMA EngineRuns == ASSUME HsStep PROVE pc # "idle"
<1>1. ASSUME HsEnter \/ HsReturn \/ HsClose \/ HsAlerts \/ HsAlertsEnd \/ HsGoOn \/ HsDiscard
      PROVE  pc # "idle"
  BY <1>1 DEF HsEnter, HsReturn, HsClose, HsAlerts, HsAlertsEnd, HsGoOn, HsDiscard
<1>2. ASSUME NEW byte, HsAlertByte(byte) PROVE pc # "idle"
  BY <1>2 DEF HsAlertByte
<1>3. ASSUME HsYield \/ HsSet \/ HsRoom \/ HsWrite \/ HsAlertOut \/ HsFlush \/ HsWriteCcs
      PROVE  pc # "idle"
  BY <1>3 DEF HsYield, HsSet, HsRoom, HsWrite, HsAlertOut, HsFlush, HsWriteCcs, Running
<1>4. ASSUME HsNoMore \/ HsNoFrag \/ HsRefuse \/ HsBranch \/ HsEnd PROVE pc # "idle"
  BY <1>4 DEF HsNoMore, HsNoFrag, HsRefuse, HsBranch, HsEnd, Running
<1>5. ASSUME NEW bad, HsRead(bad) \/ HsReadCcs(bad) PROVE pc # "idle"
  BY <1>5 DEF HsRead, HsReadCcs, Running
<1>6. ASSUME NEW f, HsFrag(f) PROVE pc # "idle"
  BY <1>6 DEF HsFrag, Running
<1> QED BY <1>1, <1>2, <1>3, <1>4, <1>5, <1>6 DEF HsStep

(* Each step of the wrapper keeps the reason, or finds it.                 *)
LEMMA LoopStep ==
  ASSUME IInv, IoTypeOK, LoopInv, [IoNext]_<<vars, ioVars>>
  PROVE  LoopInv'
<1>1. BothWays'
  BY BothWaysStep, StepUses DEF LoopInv
<1> SUFFICES /\ loop' # "off" => call' \in Calls
             /\ loop' \in {"ok", "failed"} => pc' = "idle"
             /\ loop' = "failed" => call' = "close" \/ Reason'
  BY <1>1 DEF LoopInv
<1>2. CASE EngineStep
  <2>1. pc # "idle"
    BY <1>2, EngineRuns DEF EngineStep
  <2> QED BY <1>2, <2>1 DEF EngineStep, ioVars, LoopInv, IoTypeOK
<1>3. CASE LoopClosed
  BY <1>3 DEF LoopClosed, InLoop, LoopInv, Reason, vars, hsVars
<1>4. CASE LoopWrite \/ LoopRead \/ LoopFlush
  BY <1>4 DEF LoopWrite, LoopRead, LoopFlush, InLoop, ioVars, LoopInv
<1>5. CASE LoopWriteFails
  <2>1. loop = "run" /\ call' = call /\ wire'.w = FALSE /\ loop' = "failed" /\ pc = "idle"
    BY <1>5 DEF LoopWriteFails, InLoop, IoTypeOK
  <2>2. CASE shutdownRecv
    BY <1>5, <2>1, <2>2 DEF LoopWriteFails, WriteFails, vars, inVars, hsVars, LoopInv, Reason
  <2>3. CASE ~shutdownRecv
    BY <1>5, <2>1, <2>3 DEF LoopWriteFails, WriteFails, IoFail, Fail, LoopInv, Reason
  <2> QED BY <2>2, <2>3
<1>6. CASE LoopReadFails
  BY <1>6 DEF LoopReadFails, ReadBroken, InLoop, IoFail, Fail, LoopInv, Reason
<1>7. CASE LoopDone
  BY <1>7 DEF LoopDone, InLoop, LoopInv, vars, hsVars
<1>8. CASE LoopBlocked
  <2>1. /\ loop = "run" /\ call' = call /\ loop' = "failed" /\ pc = "idle" /\ pc' = pc
        /\ RecvAppLen > 0 /\ ~Sending /\ Open /\ ~TargetMet /\ call \in Calls
    BY <1>8 DEF LoopBlocked, InLoop, LoopInv, vars, hsVars
  <2>2. call \in {"write", "writeAll"} /\ ~(SendAppLen > 0)
    BY <2>1 DEF TargetMet, Calls
  <2>3. Shared
    BY <2>1, <2>2, BlockedShared DEF LoopInv
  <2>4. RecvAppLen' = RecvAppLen
    BY <1>8 DEF LoopBlocked, vars, inVars, RecvAppLen, RecvPldLen
  <2> QED BY <2>1, <2>2, <2>3, <2>4 DEF Reason
<1>9. ASSUME NEW n, Copied(n), loop = "ok"
      PROVE  loop' \in {"run", "off"} /\ (loop' = "run" => call' = call)
  BY <1>9 DEF Copied, Return
<1>10. CASE ReadData \/ WriteData
  BY <1>9, <1>10 DEF ReadData, WriteData, LoopInv
<1>11. CASE Flushed \/ Failed \/ Discard \/ CloseLoop
  BY <1>11 DEF Flushed, Failed, Discard, CloseLoop, Return, LoopInv, Calls
<1>12. CASE IoCall
  BY <1>12 DEF IoCall, BeginTransfer, BeginFlush, BeginClose, Begin, Calls
<1>13. CASE UNCHANGED <<vars, ioVars>>
  BY <1>13 DEF vars, inVars, hsVars, ioVars, LoopInv, Reason, RecvAppLen, RecvPldLen
<1> QED BY <1>2, <1>3, <1>4, <1>5, <1>6, <1>7, <1>8, <1>10, <1>11, <1>12, <1>13
        DEF IoNext, IoStep, RunUntil

(* The wrapper never loses the reason.                                     *)
LEMMA LoopKept ==
  ASSUME Shared => Forces \subseteq {FALSE}
  PROVE  IoSpec => []LoopInv
<1>1. IoInit => LoopInv
  BY DEF IoInit, Init, LoopInv, BothWays
<1>2. IInv /\ IoTypeOK /\ LoopInv /\ [IoNext]_<<vars, ioVars>> => LoopInv'
  BY LoopStep
<1>3. Spec => []IInv
  BY Invariance
<1> QED BY <1>1, <1>2, <1>3, WrapperUsesEngine, WrapperTypes, PTL DEF IoSpec, UsesEngine

(* An error is reported only when the engine has ended, when our answer to *)
(* a close_notify cannot be written, or to a writer in a shared buffer     *)
(* that holds unread data (run_until and its callers).                     *)
THEOREM FailuresHaveReason ==
  ASSUME Shared => Forces \subseteq {FALSE}
  PROVE  IoSpec => ErrorsExplained
<1>1. LoopInv => (Failed => \/ iomode = "FAILED"
                            \/ shutdownRecv /\ ~wire.w
                            \/ Shared /\ call \in {"write", "writeAll"} /\ RecvAppLen > 0)
  BY DEF LoopInv, Failed, Reason
<1> QED BY <1>1, LoopKept, PTL DEF ErrorsExplained
-----------------------------------------------------------------------------
(* What a flush leaves behind: the engine.                                 *)

(* Programs that meet application data: none, what is left of the refusal  *)
(* of a renegotiation, or one that stops the data first.                   *)
Passing(t) == \/ t \in RejectEnds \/ Rejecting(t)
              \/ t # <<>> /\ Head(t).op \in {"begin", "noapp"}

(* Programs that seal what is in the open record before they let           *)
(* application data pass, if they ever do.                                 *)
Sealers == {"flush", "writeCcs", "branch", "closeWait", "fail"}
Seals(t) == t = <<>> \/ \E op \in Sealers : Has(op, t)

PassingInv == appdata = 1 => Passing(todo)
SealsInv == HasPld(ox) => Seals(todo)

(* Where the programs lead to.                                             *)
LEMMA PassingSteps ==
  ASSUME NEW t, t # <<>>, Passing(t)
  PROVE  /\ Head(t).op \in {"flush", "room", "alert", "end", "read", "begin", "noapp"}
         /\ Head(t).op \notin {"begin", "noapp"} => Tail(t) \in RejectEnds
         /\ Head(t).op = "read" => Rejecting(t)
<1>1. CASE t \in Rejects
  BY <1>1, RefusalTails DEF RejectEnds, Rejects
<1>2. CASE t \in {<<I("flush", 0), I("end", 0)>>, <<I("end", 0)>>}
  BY <1>2, EndTails DEF RejectEnds
<1>3. CASE Rejecting(t)
  <2>1. Head(t).op = "read" /\ Tail(t) = RejectReneg
    BY <1>3 DEF Rejecting
  <2> QED BY <1>3, <2>1 DEF RejectEnds, Rejects
<1>4. CASE Head(t).op \in {"begin", "noapp"}
  BY <1>4
<1> QED BY <1>1, <1>2, <1>3, <1>4 DEF Passing, RejectEnds

(* The programs of the main loop: they pass, and they seal.                *)
LEMMA MainPasses ==
  /\ Passing(<<>>) /\ Passing(OnHandshakeData) /\ Passing(OnRenegotiate)
  /\ Seals(<<>>) /\ Seals(OnHandshakeData) /\ Seals(OnRenegotiate)
<1>0. Passing(<<>>) /\ Seals(<<>>)
  BY DEF Passing, RejectEnds, Seals
<1>1. /\ RejectReneg \in Seq(Instr) /\ DoHandshake \in Seq(Instr)
      /\ Has("flush", RejectReneg) /\ Has("branch", DoHandshake)
      /\ DoHandshake # <<>> /\ Head(DoHandshake).op = "begin"
  <2>1. Has("flush", RejectReneg)
    BY DEF Has, RejectReneg, I
  <2>2. RejectReneg \in Seq(Instr)
    BY ProgramsOther, SubSeqs
  <2>3. DoHandshake \in Seq(Instr)
    BY DoHandshakeOrdered, PlainHas
  <2> QED BY <2>1, <2>2, <2>3, DoHandshakeOrdered
<1>2. I("noapp", 0) \in Instr /\ I("read", MsgLen) \in Instr
  BY BufferAssumption DEF I, Instr, Ops
<1>3. ASSUME NEW t \in Seq(Instr), NEW op \in Sealers, Has(op, t)
      PROVE  /\ Seals(<<I("noapp", 0), I("read", MsgLen)>> \o t)
             /\ Seals(<<I("read", MsgLen)>> \o t)
  <2>1. <<I("noapp", 0), I("read", MsgLen)>> \in Seq(Instr) /\ <<I("read", MsgLen)>> \in Seq(Instr)
    BY <1>2
  <2> QED BY <1>3, <2>1, CatHas DEF Seals
<1>4. ASSUME NEW t \in Seq(Instr)
      PROVE  Passing(<<I("noapp", 0), I("read", MsgLen)>> \o t)
  <2> DEFINE s == <<I("read", MsgLen)>> \o t
  <2>1. s \in Seq(Instr)
    BY <1>2, ConcatProperties
  <2>2. <<I("noapp", 0), I("read", MsgLen)>> \o t = <<I("noapp", 0)>> \o s
    <3>1. <<I("noapp", 0), I("read", MsgLen)>> = <<I("noapp", 0)>> \o <<I("read", MsgLen)>>
      OBVIOUS
    <3>2. <<I("noapp", 0)>> \in Seq(Instr) /\ <<I("read", MsgLen)>> \in Seq(Instr)
      BY <1>2
    <3> QED BY <3>1, <3>2, ConcatAssociative
  <2> HIDE DEF s
  <2>3. <<I("noapp", 0)>> \o s # <<>> /\ Head(<<I("noapp", 0)>> \o s) = I("noapp", 0)
    BY <2>1, ConsParts
  <2> QED BY <2>2, <2>3 DEF Passing, I
<1>5. Passing(<<I("read", MsgLen)>> \o RejectReneg)
  BY <1>1, ConsParts DEF Passing, Rejecting, I
<1>6. Passing(DoHandshake) /\ Seals(DoHandshake)
  BY <1>1 DEF Passing, Seals, Sealers
<1>7. Passing(OnHandshakeData) /\ Seals(OnHandshakeData)
  <2> USE DEF OnHandshakeData
  <2>1. CASE Role = "client"
    BY <1>1, <1>3, <1>4, <2>1 DEF Sealers
  <2>2. CASE Role # "client"
    BY <1>1, <1>3, <1>5, <1>6, <2>2 DEF Sealers
  <2> QED BY <2>1, <2>2
<1>8. Passing(OnRenegotiate) /\ Seals(OnRenegotiate)
  <2>1. CASE Role = "client"
    BY <1>6, <2>1 DEF OnRenegotiate
  <2>2. CASE Role # "client"
    BY <2>2 DEF OnRenegotiate, Passing, Seals, Sealers, Has, I
  <2> QED BY <2>1, <2>2
<1> QED BY <1>0, <1>7, <1>8

(* The programs that the coroutine starts elsewhere seal.                  *)
LEMMA OthersSeal ==
  /\ Seals(DoHandshake) /\ Seals(FullHandshake) /\ Seals(Resumption)
  /\ Seals(DoClose) /\ Seals(FailAlert)
BY DoHandshakeOrdered, FullHandshakeOrdered, ResumptionOrdered, ClosureOrdered DEF Seals, Sealers

(* One instruction less: only a flush of the record may be the last one.   *)
LEMMA SealsTail ==
  ASSUME NEW t \in Seq(Instr), t # <<>>, Ordered(t), Seals(t), Head(t).op \notin {"flush", "writeCcs"}
  PROVE  Seals(Tail(t))
<1>1. \A o : Has(o, t) <=> Head(t).op = o \/ Has(o, Tail(t))
  BY TailParts
<1>2. Head(t).op \in LastOps => Tail(t) = <<>>
  BY TailParts
<1> QED BY <1>1, <1>2 DEF Seals, Sealers, LastOps

(* Application data only meets programs that it may meet.                  *)
LEMMA PassingStep ==
  ASSUME IInv, OrderInv, PassingInv, [Next]_vars
  PROVE  PassingInv'
<1> SUFFICES ASSUME appdata' = 1 PROVE Passing(todo')
  BY DEF PassingInv
<1>1. ASSUME NEW e, Fail(e) PROVE Passing(todo')
  BY <1>1, MainPasses DEF Fail
<1>2. ASSUME UNCHANGED <<todo, appdata>> PROVE Passing(todo')
  BY <1>2 DEF PassingInv
<1>3. ASSUME NEW received, StartClose(received) PROVE FALSE
  BY <1>3 DEF StartClose
<1>4. ASSUME Continue, appdata' = appdata PROVE Passing(todo')
  <2>1. todo' \in {todo, OnRenegotiate}
    BY <1>4 DEF Continue
  <2> QED BY <1>4, <2>1, MainPasses DEF PassingInv
<1>5. ASSUME NEW op, Running(op)
      PROVE  todo \in Seq(Instr) /\ todo # <<>> /\ Head(todo).op = op
  BY <1>5 DEF IInv, TypeOK, Running, At
<1>6. ASSUME NEW op, Running(op), Next1, appdata' = appdata, op \notin {"begin", "noapp"}
      PROVE  Passing(todo')
  <2>1. todo # <<>> /\ Head(todo).op = op /\ Passing(todo)
    BY <1>5, <1>6 DEF PassingInv
  <2> QED BY <1>6, <2>1, PassingSteps DEF Next1, Passing
<1>7. ASSUME NEW op \in {"read", "write"}, Running(op), NEW m, todo' = <<I(op, m)>> \o Tail(todo),
             appdata' = appdata
      PROVE  Passing(todo')
  <2>1. todo \in Seq(Instr) /\ todo # <<>> /\ Head(todo).op = op /\ Passing(todo)
    BY <1>5, <1>7 DEF PassingInv
  <2>2. op = "read" /\ Rejecting(todo)
    BY <2>1, PassingSteps
  <2>3. Tail(todo) \in Seq(Instr) /\ Tail(todo) = RejectReneg
    BY <2>1, <2>2, HeadTailProperties DEF Rejecting
  <2>4. todo' # <<>> /\ Head(todo') = I("read", m) /\ Tail(todo') = RejectReneg
    BY <1>7, <2>2, <2>3, ConsParts
  <2> QED BY <2>4 DEF Passing, Rejecting, I
<1>8. CASE HsStep
  <2>1. CASE HsEnter \/ HsReturn \/ HsAlerts \/ HsDiscard \/ HsYield
    BY <1>2, <2>1 DEF HsEnter, HsReturn, HsAlerts, HsDiscard, HsYield
  <2>2. CASE HsClose
    BY <1>3, <2>2 DEF HsClose
  <2>3. CASE HsAlertsEnd
    <3>1. CASE Closing
      BY <2>3, <3>1 DEF HsAlertsEnd
    <3>2. CASE ~Closing /\ cnr
      <4>1. StartClose(TRUE)
        BY <2>3, <3>2 DEF HsAlertsEnd
      <4> QED BY <1>3, <4>1
    <3>3. CASE ~Closing /\ ~cnr
      <4>1. Continue /\ appdata' = appdata
        BY <2>3, <3>3 DEF HsAlertsEnd
      <4> QED BY <1>4, <4>1
    <3> QED BY <3>1, <3>2, <3>3
  <2>4. CASE HsGoOn
    BY <1>1, <1>4, <2>4, MainPasses DEF HsGoOn
  <2>5. ASSUME NEW byte, HsAlertByte(byte) PROVE Passing(todo')
    BY <1>1, <1>2, <2>5 DEF HsAlertByte
  <2>6. CASE HsSet
    <3>1. CASE Running("end")
      <4>1. Tail(todo) = <<>>
        BY <1>5, <3>1, TailParts DEF OrderInv, ProgramInv, LastOps
      <4> QED BY <2>6, <4>1, MainPasses DEF HsSet, Next1
    <3>2. CASE ~Running("end")
      <4>1. Running("type") /\ appdata' = appdata /\ Next1
        BY <2>6, <3>2 DEF HsSet
      <4> QED BY <1>6, <4>1
    <3> QED BY <3>1, <3>2
  <2>7. CASE HsRoom
    <3>1. (Running("room") \/ Running("closeRoom")) /\ Next1 /\ appdata' = appdata
      BY <2>7 DEF HsRoom
    <3> QED BY <1>6, <3>1
  <2>8. CASE HsWrite
    BY <1>6, <1>7, <2>8 DEF HsWrite, Next1
  <2>9. CASE HsAlertOut \/ HsFlush \/ HsWriteCcs \/ HsNoFrag
    <3>1. /\ \E op \in {"alert", "flush", "writeCcs", "frag"} : Running(op)
          /\ Next1 /\ appdata' = appdata
      BY <2>9 DEF HsAlertOut, HsFlush, HsWriteCcs, HsNoFrag
    <3> QED BY <1>6, <3>1
  <2>10. ASSUME NEW bad, HsRead(bad) PROVE Passing(todo')
    BY <1>1, <1>6, <1>7, <2>10 DEF HsRead, Next1
  <2>11. ASSUME NEW bad, HsReadCcs(bad) PROVE Passing(todo')
    BY <1>1, <1>6, <2>11 DEF HsReadCcs
  <2>12. CASE HsNoMore
    BY <1>1, <1>6, <2>12 DEF HsNoMore
  <2>13. ASSUME NEW f, HsFrag(f) PROVE Passing(todo')
    BY <1>6, <2>13 DEF HsFrag
  <2>14. CASE HsBranch \/ HsRefuse
    <3>1. (Running("branch") \/ Running("nomore")) /\ appdata = 1
      BY <2>14 DEF HsBranch, HsRefuse
    <3>2. todo # <<>> /\ Head(todo).op \in {"branch", "nomore"} /\ Passing(todo)
      BY <1>5, <3>1 DEF PassingInv
    <3> QED BY <3>2, PassingSteps
  <2>15. CASE HsEnd
    BY <1>1, <2>15 DEF HsEnd
  <2> QED BY <1>8, <2>1, <2>2, <2>3, <2>4, <2>5, <2>6, <2>7, <2>8, <2>9, <2>10, <2>11, <2>12,
             <2>13, <2>14, <2>15 DEF HsStep
<1>9. CASE RecvBody \/ RecvHead
  <2>1. UNCHANGED <<todo, appdata>> \/ \E e : Fail(e)
    BY <1>9 DEF RecvBody, RecvHead, RecvCipherPart, RecvClear, RecvCipherEnd, RecvHeaderPart,
                RecvHeader, Deliver, Jump, hsVars
  <2> QED BY <1>1, <1>2, <2>1
<1>10. CASE SendRec
  BY <1>2, <1>10 DEF SendRec, SendRecAck, Jump, hsVars
<1>11. CASE AppStep
  BY <1>1, <1>2, <1>11 DEF AppStep, SendAppAck, RecvAppAck, Flush, Close, Renegotiate, Reset,
                           IoFail, Jump, hsVars
<1>12. CASE UNCHANGED vars
  BY <1>2, <1>12 DEF vars, hsVars
<1> QED BY <1>8, <1>9, <1>10, <1>11, <1>12 DEF Next

(* An instruction that leaves the open record alone, or empties it.        *)
LEMMA SealsStep ==
  ASSUME IInv, OrderInv, SealsInv, NEW op, Running(op), op \notin {"flush", "writeCcs"},
         Next1, HasPld(ox') => HasPld(ox)
  PROVE  SealsInv'
<1>1. todo \in Seq(Instr) /\ todo # <<>> /\ Head(todo).op = op
  BY DEF IInv, TypeOK, Running, At
<1>2. Ordered(todo)
  BY DEF OrderInv, ProgramInv
<1>3. Seals(todo) => Seals(Tail(todo))
  BY <1>1, <1>2, SealsTail
<1>4. todo' = Tail(todo)
  BY DEF Next1
<1> QED BY <1>3, <1>4 DEF SealsInv

(* ... or is only part done.                                               *)
LEMMA SealsPart ==
  ASSUME IInv, SealsInv, NEW op, Running(op), NEW m, todo' = <<I(op, m)>> \o Tail(todo),
         HasPld(ox') => HasPld(ox)
  PROVE  SealsInv'
<1>1. todo \in Seq(Instr) /\ todo # <<>> /\ Head(todo).op = op
  BY DEF IInv, TypeOK, Running, At
<1>2. \A o : Has(o, Shortened(todo, m)) <=> Has(o, todo)
  BY <1>1, SameParts
<1>3. Seals(todo) => Seals(Shortened(todo, m))
  BY <1>1, <1>2 DEF Seals
<1>4. todo' = Shortened(todo, m)
  BY <1>1 DEF Shortened
<1> QED BY <1>3, <1>4 DEF SealsInv

(* The application writes between two programs, or while the refusal of a  *)
(* renegotiation is on its way: both are followed by a flush.              *)
LEMMA AppSeals ==
  ASSUME IInv, ReadInv, PassingInv, appdata = 1, pc = "idle"
  PROVE  Seals(todo)
<1>1. todo = <<>> \/ Head(todo).op \in WaitOps
  BY DEF ReadInv, WaitInv, AtStart
<1>2. CASE todo = <<>>
  BY <1>2, MainPasses
<1>3. CASE todo # <<>>
  <2>1. Head(todo).op \in WaitOps /\ Passing(todo)
    BY <1>1, <1>3 DEF PassingInv
  <2>2. /\ Head(todo).op \in {"room", "read"}
        /\ todo \in RejectEnds \/ Rejecting(todo)
        /\ Head(todo).op = "read" => Rejecting(todo)
    BY <1>3, <2>1, PassingSteps DEF WaitOps, Passing
  <2>3. CASE Head(todo).op = "room"
    <3>1. todo = RejectRoom
      BY <1>3, <2>2, <2>3, RefusalTails, EndTails DEF RejectEnds, Rejects, Rejecting
    <3>2. Has("flush", RejectRoom)
      BY DEF Has, RejectRoom, I
    <3> QED BY <3>1, <3>2 DEF Seals, Sealers
  <2>4. CASE Head(todo).op = "read"
    <3>1. Tail(todo) = RejectReneg /\ todo \in Seq(Instr)
      BY <2>2, <2>4 DEF Rejecting, IInv, TypeOK
    <3>2. Has("flush", RejectReneg)
      BY DEF Has, RejectReneg, I
    <3>3. Has("flush", todo)
      BY <1>3, <3>1, <3>2, TailParts
    <3> QED BY <3>3 DEF Seals, Sealers
  <2> QED BY <2>2, <2>3, <2>4
<1> QED BY <1>2, <1>3

(* Where the coroutine returns, what it wrote is flushed next.             *)
LEMMA ReturnSeals ==
  ASSUME IInv, OrderInv, ReadInv, HsReturn, h.put > 0
  PROVE  todo # <<>> /\ Head(todo).op = "write" /\ Seals(todo)
<1>1. pc = "yield"
  BY DEF HsReturn
<1>2. todo # <<>> /\ Head(todo).op \in {"write", "flush"} /\ todo \in Seq(Instr)
  BY DEF OrderInv, PutInv, At, IInv, TypeOK
<1>3. Head(todo).op = "write"
  BY <1>1, <1>2 DEF ReadInv, WaitInv, WaitOps, AtStart
<1>4. Tail(todo) # <<>> /\ Head(Tail(todo)).op = "flush"
  BY <1>2, <1>3, TailParts DEF OrderInv, ProgramInv, OutOps
<1>5. Tail(todo) \in Seq(Instr)
  BY <1>2, Positions
<1>6. Has("flush", Tail(todo))
  BY <1>4, <1>5, TailParts
<1>7. Has("flush", todo)
  BY <1>2, <1>6, TailParts
<1> QED BY <1>2, <1>3, <1>7 DEF Seals, Sealers

(* Every step keeps the promise that payload will be sealed before         *)
(* application data passes.                                                *)
LEMMA NextSeals ==
  ASSUME IInv, OrderInv, ReadInv, PassingInv, SealsInv, [Next]_vars
  PROVE  SealsInv'
<1>1. ASSUME todo' = todo, HasPld(ox') => HasPld(ox) PROVE SealsInv'
  BY <1>1 DEF SealsInv
<1>2. ASSUME NEW e, Fail(e) PROVE SealsInv'
  BY <1>2, MainPasses DEF Fail, SealsInv
<1>3. ASSUME NEW received, StartClose(received) PROVE SealsInv'
  BY <1>3, OthersSeal DEF StartClose, SealsInv
<1>4. ASSUME Continue, ox' = ox PROVE SealsInv'
  <2>1. todo' \in {todo, OnRenegotiate}
    BY <1>4 DEF Continue
  <2> QED BY <1>4, <2>1, MainPasses DEF SealsInv
<1>5. ASSUME NEW op, Running(op), op \notin {"flush", "writeCcs"}, Next1, HasPld(ox') => HasPld(ox)
      PROVE  SealsInv'
  BY <1>5, SealsStep
<1>6. ASSUME NEW op, Running(op), NEW m, todo' = <<I(op, m)>> \o Tail(todo),
             HasPld(ox') => HasPld(ox)
      PROVE  SealsInv'
  BY <1>6, SealsPart
<1>7. ASSUME NEW n, NEW type, Put(n, type) PROVE HasPld(ox') => HasPld(ox)
  BY <1>7 DEF Put, Written, HasPld
<1>8. CASE HsStep
  <2>1. CASE HsEnter \/ HsAlerts \/ HsDiscard \/ HsYield
    BY <1>1, <2>1 DEF HsEnter, HsAlerts, HsDiscard, HsYield, outVars
  <2>2. CASE HsReturn
    <3>1. CASE h.put > 0
      BY <2>2, <3>1, ReturnSeals DEF HsReturn, SealsInv
    <3>2. CASE ~(h.put > 0)
      BY <1>1, <2>2, <3>2 DEF HsReturn
    <3> QED BY <3>1, <3>2
  <2>3. CASE HsClose
    BY <1>3, <2>3 DEF HsClose
  <2>4. CASE HsAlertsEnd
    <3>1. ox' = ox
      BY <2>4 DEF HsAlertsEnd, outVars
    <3>2. CASE Closing
      BY <1>1, <2>4, <3>1, <3>2 DEF HsAlertsEnd
    <3>3. CASE ~Closing /\ cnr
      BY <1>3, <2>4, <3>3 DEF HsAlertsEnd
    <3>4. CASE ~Closing /\ ~cnr
      BY <1>4, <2>4, <3>1, <3>4 DEF HsAlertsEnd
    <3> QED BY <3>2, <3>3, <3>4
  <2>5. CASE HsGoOn
    <3>1. ox' = ox
      BY <2>5 DEF HsGoOn, outVars
    <3>2. Fail("ERROR") \/ todo' = OnHandshakeData \/ Continue
      BY <2>5 DEF HsGoOn
    <3> QED BY <1>2, <1>4, <3>1, <3>2, MainPasses DEF SealsInv
  <2>6. ASSUME NEW byte, HsAlertByte(byte) PROVE SealsInv'
    BY <1>1, <1>2, <2>6 DEF HsAlertByte, outVars
  <2>7. CASE HsSet \/ HsRoom \/ HsNoFrag
    <3>1. /\ \E op \in {"begin", "noapp", "type", "end", "room", "closeRoom", "frag"} : Running(op)
          /\ Next1 /\ ox' = ox
      BY <2>7 DEF HsSet, HsRoom, HsNoFrag, outVars
    <3> QED BY <1>5, <3>1
  <2>8. CASE HsWrite
    <3>1. HasPld(ox') => HasPld(ox)
      BY <1>7, <2>8 DEF HsWrite
    <3>2. Running("write") /\ (Next1 \/ \E m : todo' = <<I("write", m)>> \o Tail(todo))
      BY <2>8 DEF HsWrite, Next1
    <3> QED BY <1>5, <1>6, <3>1, <3>2
  <2>9. CASE HsAlertOut
    <3>1. Running("alert") /\ Next1 /\ (HasPld(ox') => HasPld(ox))
      BY <1>7, <2>9 DEF HsAlertOut
    <3> QED BY <1>5, <3>1
  <2>10. CASE HsFlush \/ HsWriteCcs
    <3>1. ~HasPld(ox')
      BY <2>10, FlushClears DEF HsFlush, HsWriteCcs
    <3> QED BY <3>1 DEF SealsInv
  <2>11. ASSUME NEW bad, HsRead(bad) PROVE SealsInv'
    <3>1. ox' = ox
      BY <2>11 DEF HsRead, outVars
    <3>2. CASE Fail("ERROR")
      BY <1>2, <3>2
    <3>3. CASE ~Fail("ERROR")
      <4>1. Running("read") /\ (Next1 \/ \E m : todo' = <<I("read", m)>> \o Tail(todo))
        BY <2>11, <3>3 DEF HsRead, Next1
      <4> QED BY <1>5, <1>6, <3>1, <4>1
    <3> QED BY <3>2, <3>3
  <2>12. ASSUME NEW bad, HsReadCcs(bad) PROVE SealsInv'
    <3>1. ox' = ox /\ Running("readCcs") /\ (Fail("ERROR") \/ Next1)
      BY <2>12 DEF HsReadCcs, outVars
    <3> QED BY <1>2, <1>5, <3>1
  <2>13. CASE HsNoMore
    <3>1. ox' = ox /\ Running("nomore") /\ (Fail("ERROR") \/ Next1)
      BY <2>13 DEF HsNoMore, outVars
    <3> QED BY <1>2, <1>5, <3>1
  <2>14. ASSUME NEW f, HsFrag(f) PROVE SealsInv'
    <3>1. ox \in OutRegs
      BY DEF IInv, TypeOK
    <3>2. ox' \in {ox, ShrinkOut(ox, f)}
      BY <2>14 DEF HsFrag
    <3>3. HasPld(ox') => HasPld(ox)
      BY <3>1, <3>2, ShrinkKeeps
    <3>4. Running("frag") /\ Next1
      BY <2>14 DEF HsFrag
    <3> QED BY <1>5, <3>3, <3>4
  <2>15. CASE HsBranch \/ HsRefuse
    <3>1. todo' \in {FullHandshake, Resumption, FailAlert}
      BY <2>15 DEF HsBranch, HsRefuse
    <3> QED BY <3>1, OthersSeal DEF SealsInv
  <2>16. CASE HsEnd
    BY <1>2, <2>16 DEF HsEnd
  <2>17. CASE HsEnter \/ HsReturn \/ HsClose \/ HsAlerts \/ HsAlertsEnd \/ HsGoOn \/ HsDiscard
              \/ HsYield \/ \E byte : HsAlertByte(byte)
    BY <2>1, <2>2, <2>3, <2>4, <2>5, <2>6, <2>17
  <2>18. CASE HsSet \/ HsRoom \/ HsWrite \/ HsAlertOut \/ HsFlush \/ HsWriteCcs
    BY <2>7, <2>8, <2>9, <2>10, <2>18
  <2> QED BY <1>8, <2>7, <2>11, <2>12, <2>13, <2>14, <2>15, <2>16, <2>17, <2>18 DEF HsStep
<1>9. CASE RecvBody \/ RecvHead
  <2>1. ox' = ox /\ (todo' = todo \/ \E e : Fail(e))
    BY <1>9 DEF RecvBody, RecvHead, RecvCipherPart, RecvClear, RecvCipherEnd, RecvHeaderPart,
                RecvHeader, Deliver, Jump, hsVars, outVars
  <2> QED BY <1>1, <1>2, <2>1
<1>10. ASSUME NEW n, SendRecAck(n) PROVE SealsInv'
  BY <1>10, SentClears DEF SealsInv
<1>11. CASE AppStep
  <2>1. ASSUME NEW n, SendAppAck(n) PROVE SealsInv'
    <3>1. Seals(todo)
      <4>1. appdata = 1 /\ pc = "idle"
        BY <2>1, SendAppOpen
      <4> QED BY <4>1, AppSeals
    <3>2. todo' = todo
      BY <2>1 DEF SendAppAck, hsVars
    <3> QED BY <3>1, <3>2 DEF SealsInv
  <2>2. ASSUME NEW n, RecvAppAck(n) PROVE SealsInv'
    BY <1>1, <2>2 DEF RecvAppAck, hsVars, outVars
  <2>3. ASSUME NEW force, Flush(force) PROVE SealsInv'
    BY <2>3, SealClears DEF Flush, SealsInv
  <2>4. CASE Close \/ Renegotiate
    BY <1>1, <2>4 DEF Close, Renegotiate, Jump, outVars
  <2>5. CASE Reset
    BY <2>5, OthersSeal DEF Reset, SealsInv
  <2>6. CASE IoFail
    BY <1>2, <2>6 DEF IoFail
  <2> QED BY <1>11, <2>1, <2>2, <2>3, <2>4, <2>5, <2>6 DEF AppStep
<1>12. CASE UNCHANGED vars
  BY <1>1, <1>12 DEF vars, hsVars, outVars
<1> QED BY <1>8, <1>9, <1>10, <1>11, <1>12 DEF Next, SendRec

(* An engine in use keeps all of this.                                     *)
LEMMA SealsKept ==
  ASSUME Shared => Forces \subseteq {FALSE}
  PROVE  Spec => [](IInv /\ OrderInv /\ ReadInv /\ PassingInv /\ SealsInv)
<1>1. Init => ReadInv /\ PassingInv /\ SealsInv
  <2>1. Init => ReadInv
    BY InitRead
  <2>2. Init => PassingInv
    BY DEF Init, PassingInv
  <2>3. Init => SealsInv
    BY OthersSeal DEF Init, SealsInv
  <2> QED BY <2>1, <2>2, <2>3
<1>2. IInv /\ ReadInv /\ [Next]_vars => ReadInv'
  BY InvOneWindow, NextRead
<1>3. IInv /\ OrderInv /\ PassingInv /\ [Next]_vars => PassingInv'
  BY PassingStep
<1>4. IInv /\ OrderInv /\ ReadInv /\ PassingInv /\ SealsInv /\ [Next]_vars => SealsInv'
  BY NextSeals
<1> QED BY <1>1, <1>2, <1>3, <1>4, Invariance, OrderKept, PTL DEF Spec

-----------------------------------------------------------------------------
(* What a flush leaves behind: the wrapper.                                *)

(* During a flush no payload waits to be sealed while application data     *)
(* passes, and when run_until is done with it the record is empty.         *)
FlushedInv ==
  call = "flush" =>
    /\ iomode # "FAILED" /\ appdata = 1 => ~HasPld(ox)
    /\ loop = "ok" => OutEmpty

(* The coroutine lets application data pass, or brings payload into the    *)
(* open record while it passes, only when there was none before.           *)
LEMMA EngineSeals ==
  ASSUME IInv, OrderInv, ReadInv, PassingInv, SealsInv, HsStep, appdata' = 1, HasPld(ox')
  PROVE  appdata = 1 /\ HasPld(ox)
<1>1. ASSUME HasPld(ox') => HasPld(ox), appdata' = appdata \/ appdata' # 1
      PROVE  appdata = 1 /\ HasPld(ox)
  BY <1>1
<1>2. ASSUME NEW n, NEW type, Put(n, type) PROVE HasPld(ox') => HasPld(ox)
  BY <1>2 DEF Put, Written, HasPld
<1>3. CASE HsEnter \/ HsAlerts \/ HsDiscard \/ HsYield
  BY <1>1, <1>3 DEF HsEnter, HsAlerts, HsDiscard, HsYield, outVars
<1>4. CASE HsReturn
  <2>1. ASSUME h.put > 0 PROVE FALSE
    <3>1. todo # <<>> /\ Head(todo).op = "write" /\ appdata = 1
      BY <1>4, <2>1, ReturnSeals DEF HsReturn
    <3>2. Passing(todo)
      BY <3>1 DEF PassingInv
    <3> QED BY <3>1, <3>2, PassingSteps
  <2> QED BY <1>1, <1>4, <2>1 DEF HsReturn
<1>5. CASE HsClose \/ HsAlertsEnd \/ HsGoOn \/ \E byte : HsAlertByte(byte)
  <2>1. ox' = ox
    BY <1>5 DEF HsClose, HsAlertsEnd, HsGoOn, HsAlertByte, outVars
  <2>2. appdata' = appdata \/ appdata' # 1
    BY <1>5 DEF HsClose, HsAlertsEnd, HsGoOn, HsAlertByte, StartClose
  <2> QED BY <1>1, <2>1, <2>2
<1>6. CASE HsSet
  <2>1. CASE Running("end")
    <3>1. /\ todo \in Seq(Instr) /\ todo # <<>> /\ Head(todo).op = "end" /\ Ordered(todo)
          /\ HasPld(ox)
      BY <1>6, <2>1 DEF IInv, TypeOK, Running, At, OrderInv, ProgramInv, HsSet
    <3>2. Tail(todo) = <<>>
      BY <3>1, TailParts DEF LastOps
    <3>3. ~Has("flush", <<>>) /\ ~Has("writeCcs", <<>>) /\ ~Has("branch", <<>>)
          /\ ~Has("closeWait", <<>>) /\ ~Has("fail", <<>>)
      BY DEF Has
    <3>4. \A o : Has(o, todo) <=> Head(todo).op = o \/ Has(o, Tail(todo))
      BY <3>1, TailParts
    <3>5. ~Seals(todo)
      BY <3>1, <3>2, <3>3, <3>4 DEF Seals, Sealers
    <3> QED BY <3>1, <3>5 DEF SealsInv
  <2>2. CASE ~Running("end")
    BY <1>1, <1>6, <2>2 DEF HsSet
  <2> QED BY <2>1, <2>2
<1>7. CASE HsRoom \/ HsNoFrag \/ HsNoMore \/ HsRefuse \/ HsBranch \/ HsEnd
  BY <1>1, <1>7 DEF HsRoom, HsNoFrag, HsNoMore, HsRefuse, HsBranch, HsEnd, outVars
<1>8. CASE HsWrite \/ HsAlertOut
  BY <1>1, <1>2, <1>8 DEF HsWrite, HsAlertOut
<1>9. CASE HsFlush \/ HsWriteCcs
  BY <1>9, FlushClears DEF HsFlush, HsWriteCcs
<1>10. ASSUME NEW bad, HsRead(bad) \/ HsReadCcs(bad) PROVE appdata = 1 /\ HasPld(ox)
  BY <1>1, <1>10 DEF HsRead, HsReadCcs, outVars
<1>11. ASSUME NEW f, HsFrag(f) PROVE appdata = 1 /\ HasPld(ox)
  <2>1. ox' \in {ox, ShrinkOut(ox, f)} /\ appdata' = appdata /\ ox \in OutRegs
    BY <1>11 DEF HsFrag, IInv, TypeOK
  <2> QED BY <1>1, <2>1, ShrinkKeeps
<1>12. CASE HsEnter \/ HsReturn \/ HsClose \/ HsAlerts \/ HsAlertsEnd \/ HsGoOn \/ HsDiscard
            \/ HsYield \/ \E byte : HsAlertByte(byte)
  BY <1>3, <1>4, <1>5, <1>12
<1>13. CASE HsSet \/ HsRoom \/ HsWrite \/ HsAlertOut \/ HsFlush \/ HsWriteCcs
            \/ HsNoMore \/ HsNoFrag \/ HsRefuse \/ HsBranch \/ HsEnd
  BY <1>6, <1>7, <1>8, <1>9, <1>13
<1> QED BY <1>10, <1>11, <1>12, <1>13 DEF HsStep

(* When nothing is to be sent and the application may go on, the open      *)
(* record is empty: with a shared buffer that receives it is, and a sealed *)
(* record would have to be sent first.                                     *)
LEMMA DoneIsEmpty ==
  ASSUME IInv, BothWays, Open, ~Sending, ~HasPld(ox)
  PROVE  OutEmpty
<1>1. OutOK(ox, outenc) /\ ox.a \in Nat /\ ox.b \in Nat /\ ox.c \in Nat
  BY DEF IInv, OutputInv, TypeOK, OutRegs, Open
<1>2. CASE OpenOK(ox, outenc)
  <2>1. ox.a # ox.b
    BY <1>1, <1>2 DEF OpenOK
  <2> QED BY <2>1 DEF HasPld, OutEmpty, Gathering
<1>3. CASE SealedOK(ox)
  <2>1. iomode \notin {"OUT", "INOUT"}
    BY <1>1, <1>3 DEF SealedOK, Sending, SendRecLen
  <2>2. iomode = "IN"
    BY <2>1 DEF IInv, TypeOK, Open
  <2>3. Shared
    BY <2>2 DEF BothWays
  <2> QED BY <2>2, <2>3 DEF IInv, SharedBufferExclusive
<1> QED BY <1>1, <1>2, <1>3 DEF OutOK

(* br_ssl_engine_flush seals what there is.                                *)
LEMMA FlushIfReadyClears ==
  ASSUME FlushIfReady, iomode' # "FAILED", appdata' = 1, pc = "idle"
  PROVE  ~HasPld(ox')
<1>1. CASE Open /\ appdata = 1
  BY <1>1, SealClears DEF FlushIfReady, Flush
<1>2. CASE ~(Open /\ appdata = 1)
  BY <1>2 DEF FlushIfReady, Open, vars
<1> QED BY <1>1, <1>2

(* Each step of the wrapper keeps what the flush promises.                 *)
LEMMA FlushedStep ==
  ASSUME IInv, OrderInv, ReadInv, PassingInv, SealsInv, IoTypeOK, LoopInv, FlushedInv,
         [IoNext]_<<vars, ioVars>>
  PROVE  FlushedInv'
<1> SUFFICES ASSUME call' = "flush"
             PROVE  /\ iomode' # "FAILED" /\ appdata' = 1 => ~HasPld(ox')
                    /\ loop' = "ok" => OutEmpty'
  BY DEF FlushedInv
<1>1. CASE EngineStep
  <2>1. HsStep /\ call = "flush" /\ loop' = loop /\ pc # "idle"
    BY <1>1, EngineRuns DEF EngineStep, ioVars
  <2>2. loop' # "ok" /\ iomode # "FAILED"
    BY <2>1 DEF LoopInv, IInv, CallInv
  <2>3. appdata = 1 => ~HasPld(ox)
    BY <2>1, <2>2 DEF FlushedInv
  <2> QED BY <2>1, <2>2, <2>3, EngineSeals
<1>2. CASE LoopClosed
  BY <1>2 DEF LoopClosed, FlushedInv, vars, outVars
<1>3. CASE LoopWrite
  <2>1. \E n : SendRecAck(n)
    BY <1>3 DEF LoopWrite, SendRec
  <2>2. ~HasPld(ox') /\ loop' # "ok"
    BY <1>3, <2>1, SentClears DEF LoopWrite, ioVars, InLoop
  <2> QED BY <2>2
<1>4. CASE LoopWriteFails
  BY <1>4 DEF LoopWriteFails, WriteFails, IoFail, Fail, FlushedInv, vars, outVars
<1>5. CASE LoopDone
  <2>1. /\ Open /\ ~Sending /\ TargetMet /\ ox' = ox /\ appdata' = appdata /\ iomode' = iomode
        /\ call = "flush" /\ iomode # "FAILED"
    BY <1>5 DEF LoopDone, vars, outVars, Open
  <2>2. appdata = 1
    BY <2>1 DEF TargetMet, SendAppLen, RecvAppLen
  <2>3. ~HasPld(ox)
    BY <2>1, <2>2 DEF FlushedInv
  <2>4. OutEmpty
    BY <2>1, <2>3, DoneIsEmpty DEF LoopInv
  <2>5. OutEmpty'
    BY <2>1, <2>4 DEF OutEmpty, Gathering
  <2> QED BY <2>1, <2>3, <2>5
<1>6. CASE LoopBlocked
  BY <1>6 DEF LoopBlocked, FlushedInv, vars, outVars, Open
<1>7. CASE LoopRead
  <2>1. ox' = ox /\ appdata' = appdata /\ call = "flush" /\ loop' # "ok" /\ iomode # "FAILED"
    BY <1>7 DEF LoopRead, MustRead, Open, InLoop, RecvBody, RecvHead, RecvCipherPart, RecvClear,
                RecvCipherEnd, RecvHeaderPart, RecvHeader, outVars
  <2> QED BY <2>1 DEF FlushedInv
<1>8. CASE LoopReadFails
  BY <1>8 DEF LoopReadFails, ReadBroken, IoFail, Fail
<1>9. CASE LoopFlush
  <2>1. FlushIfReady /\ pc = "idle" /\ loop' # "ok"
    BY <1>9 DEF LoopFlush, InLoop, ioVars
  <2> QED BY <2>1, FlushIfReadyClears
<1>10. CASE ReadData \/ WriteData
  <2>1. call \in {"read", "readAll", "write", "writeAll"} /\ \E n : Copied(n)
    BY <1>10 DEF ReadData, WriteData
  <2> QED BY <2>1 DEF Copied, Return
<1>11. CASE Flushed \/ Failed \/ Discard \/ CloseLoop
  BY <1>11 DEF Flushed, Failed, Discard, CloseLoop, Return
<1>12. CASE IoCall
  <2>1. ASSUME NEW c, NEW len, BeginTransfer(c, len) PROVE FALSE
    BY <2>1 DEF BeginTransfer, Begin
  <2>2. CASE BeginFlush
    <3>1. FlushIfReady /\ pc = "idle" /\ loop' # "ok"
      BY <2>2 DEF BeginFlush, Begin
    <3> QED BY <3>1, FlushIfReadyClears
  <2>3. CASE BeginClose
    BY <2>3 DEF BeginClose, Begin
  <2> QED BY <1>12, <2>1, <2>2, <2>3 DEF IoCall
<1>13. CASE UNCHANGED <<vars, ioVars>>
  BY <1>13 DEF vars, outVars, ioVars, FlushedInv, OutEmpty, Gathering
<1>14. CASE RunUntil
  BY <1>2, <1>3, <1>4, <1>5, <1>6, <1>7, <1>8, <1>9, <1>14 DEF RunUntil
<1> QED BY <1>1, <1>10, <1>11, <1>12, <1>13, <1>14 DEF IoNext, IoStep

(* A flush that succeeded leaves an empty record behind: what was written  *)
(* before it, by the application and by the handshake, has been handed to  *)
(* the transport, also when a renegotiation came in between                *)
(* (br_sslio_flush, run_until).                                            *)
THEOREM FlushLeavesNothing ==
  ASSUME Shared => Forces \subseteq {FALSE}
  PROVE  IoSpec => FlushSendsAll
<1>1. IoInit => FlushedInv
  BY DEF IoInit, FlushedInv
<1>2. IInv /\ OrderInv /\ ReadInv /\ PassingInv /\ SealsInv /\ IoTypeOK /\ LoopInv /\ FlushedInv
        /\ [IoNext]_<<vars, ioVars>> => FlushedInv'
  BY FlushedStep
<1>3. Spec => [](IInv /\ OrderInv /\ ReadInv /\ PassingInv /\ SealsInv)
  BY SealsKept
<1>4. FlushedInv => (Flushed => OutEmpty)
  BY DEF FlushedInv, Flushed
<1>5. IoSpec => []IoTypeOK /\ []LoopInv
  BY WrapperTypes, LoopKept
<1> QED BY <1>1, <1>2, <1>3, <1>4, <1>5, WrapperUsesEngine, PTL
        DEF IoSpec, UsesEngine, FlushSendsAll
=============================================================================
