------------------------------- MODULE SslIo -------------------------------
(***************************************************************************)
(* The blocking I/O wrapper (libbearssl/src/ssl/ssl_io.c) over the engine: *)
(* read, read_all, write, write_all, flush and close, each of which drives *)
(* the engine with run_until, and a transport whose callbacks low_read and *)
(* low_write may fail.  The engine's calls are the actions of SslEngine;   *)
(* the steps of the wrapper are those made while no engine call runs       *)
(* (pc = "idle").                                                          *)
(***************************************************************************)
EXTENDS SslEngine

CONSTANTS
  Lens,     \* the lengths the application passes to read and write
  MaxRecs   \* records the peer sends before it falls silent

ASSUME IoAssumption == 
  Lens \subseteq Nat \ {0} /\ MaxRecs \in Nat /\ FALSE \in Forces

VARIABLES
  call,     \* the wrapper function that runs, or "none"
  left,     \* bytes of it that are left to read or write (len)
  loop,     \* run_until: "off", running, or what it returned
  ret,      \* what the last call returned
  wire,     \* whether low_read (r) and low_write (w) still work
  recs      \* records begun by the peer

Calls == {"read", "readAll", "write", "writeAll", "flush", "close"}
ioVars == <<call, left, loop, ret, wire, recs>>

IoInit ==
  /\ Init
  /\ call = "none" /\ left = 0 /\ loop = "off" /\ ret = "none"
  /\ wire = [r |-> TRUE, w |-> TRUE] /\ recs = 0

-----------------------------------------------------------------------------
(* The calls of the application.                                           *)

Begin(c, len, l) ==
  /\ pc = "idle" /\ call = "none"
  /\ call' = c /\ left' = len /\ loop' = l
  /\ UNCHANGED <<ret, wire, recs>>

BeginTransfer(c, len) ==
  /\ c \in {"read", "readAll", "write", "writeAll"}
  /\ Begin(c, len, "run") /\ UNCHANGED vars

FlushNothing == UNCHANGED vars  \* mutant: the buffered data stays
(* br_ssl_engine_flush(ctx->engine, 0).                                    *)
FlushIfReady == IF Open /\ appdata = 1 THEN Flush(FALSE) ELSE UNCHANGED vars

BeginFlush == Begin("flush", 0, "run") /\ FlushIfReady
BeginClose ==
  /\ Begin("close", 0, "off")
  /\ IF Open THEN Close ELSE UNCHANGED vars

-----------------------------------------------------------------------------
(* run_until: one turn of its loop.  The order of the cases is that of the *)
(* code, each one under the negation of those before.                      *)

InLoop == pc = "idle" /\ loop = "run"
Sending == SendRecLen > 0
TargetMet ==
  \/ call \in {"write", "writeAll", "flush"} /\ SendAppLen > 0
  \/ call \in {"read", "readAll", "flush", "close"} /\ RecvAppLen > 0
MustRead == Open /\ ~Sending /\ ~TargetMet /\ RecvAppLen = 0

LoopClosed ==
  /\ InLoop /\ iomode = "FAILED"
  /\ loop' = "failed"
  /\ UNCHANGED <<vars, call, left, ret, wire, recs>>

LoopWrite ==
  /\ InLoop /\ Sending /\ wire.w
  /\ SendRec
  /\ UNCHANGED ioVars

WriteFailsNever == UNCHANGED vars  \* mutant: a failed write leaves the engine open
(* The peer need not wait for our close_notify: when one was received, a   *)
(* write that fails is no error of the engine.                             *)
WriteFails == IF shutdownRecv THEN UNCHANGED vars ELSE IoFail

LoopWriteFails ==
  /\ InLoop /\ Sending
  /\ wire' = [wire EXCEPT !.w = FALSE]
  /\ WriteFails
  /\ loop' = "failed"
  /\ UNCHANGED <<call, left, ret, recs>>

LoopDone ==
  /\ InLoop /\ Open /\ ~Sending /\ TargetMet
  /\ loop' = "ok"
  /\ UNCHANGED <<vars, call, left, ret, wire, recs>>

(* A writer cannot go on while application data is unread.                 *)
LoopBlocked ==
  /\ InLoop /\ Open /\ ~Sending /\ ~TargetMet /\ RecvAppLen > 0
  /\ loop' = "failed"
  /\ UNCHANGED <<vars, call, left, ret, wire, recs>>

LoopRead ==
  /\ InLoop /\ MustRead /\ RecvRecLen > 0 /\ wire.r
  /\ \/ RecvBody /\ UNCHANGED recs
     \/ recs < MaxRecs /\ RecvHead /\ recs' = recs + 1
  /\ UNCHANGED <<call, left, loop, ret, wire>>

ReadBroken ==
  /\ InLoop /\ MustRead /\ RecvRecLen > 0
  /\ wire' = [wire EXCEPT !.r = FALSE]
  /\ loop' = "failed"
  /\ UNCHANGED <<call, left, ret, recs>>
ReadFailsClean ==             \* mutant: the end of the transport is no error
  ReadBroken /\ Fail("OK") /\ UNCHANGED <<inVars, outVars, maxFrag, appdata, alert>>
LoopReadFails == ReadBroken /\ IoFail

(* Nothing else is possible: the buffered data has to go first.            *)
LoopFlush ==
  /\ InLoop /\ MustRead /\ RecvRecLen = 0
  /\ FlushIfReady
  /\ UNCHANGED ioVars

RunUntil ==
  \/ LoopClosed \/ LoopWrite \/ LoopWriteFails \/ LoopDone \/ LoopBlocked
  \/ LoopRead \/ LoopReadFails \/ LoopFlush

-----------------------------------------------------------------------------
(* After run_until.                                                        *)

Return(r) == /\ call' = "none" /\ left' = 0 /\ loop' = "off" /\ ret' = r
             /\ UNCHANGED <<wire, recs>>

(* n bytes were copied; read_all and write_all go on until none is left.   *)
Copied(n) ==
  IF call \in {"readAll", "writeAll"} /\ n # left
  THEN /\ left' = left - n /\ loop' = "run"
       /\ UNCHANGED <<call, ret, wire, recs>>
  ELSE Return("ok")

ReadWholeBuffer ==            \* mutant: alen is not cut to len
  /\ pc = "idle" /\ loop = "ok" /\ call \in {"read", "readAll"}
  /\ RecvAppAck(RecvAppLen) /\ Copied(RecvAppLen)
ReadData ==
  /\ pc = "idle" /\ loop = "ok" /\ call \in {"read", "readAll"}
  /\ LET n == Least(RecvAppLen, left) IN RecvAppAck(n) /\ Copied(n)

WriteData ==
  /\ pc = "idle" /\ loop = "ok" /\ call \in {"write", "writeAll"}
  /\ LET n == Least(SendAppLen, left) IN SendAppAck(n) /\ Copied(n)

Flushed ==
  /\ pc = "idle" /\ loop = "ok" /\ call = "flush"
  /\ Return("ok") /\ UNCHANGED vars

Failed ==
  /\ pc = "idle" /\ loop = "failed" /\ call # "close"
  /\ Return("error") /\ UNCHANGED vars

(* br_sslio_close discards what is received, whatever run_until returned.  *)
Discard ==
  /\ pc = "idle" /\ loop \in {"ok", "failed"} /\ call = "close"
  /\ IF RecvAppLen > 0 THEN RecvAppAck(RecvAppLen) ELSE UNCHANGED vars
  /\ loop' = "off"
  /\ UNCHANGED <<call, left, ret, wire, recs>>

CloseLoop ==
  /\ pc = "idle" /\ loop = "off" /\ call = "close"
  /\ IF iomode = "FAILED"
     THEN Return(IF err = "OK" THEN "ok" ELSE "error")
     ELSE loop' = "run" /\ UNCHANGED <<call, left, ret, wire, recs>>
  /\ UNCHANGED vars

-----------------------------------------------------------------------------
EngineStep == HsStep /\ UNCHANGED ioVars
IoStep == \/ EngineStep \/ RunUntil
          \/ ReadData \/ WriteData \/ Flushed \/ Failed \/ Discard \/ CloseLoop
IoCall == \/ \E c \in Calls, len \in Lens : BeginTransfer(c, len)
          \/ BeginFlush \/ BeginClose
IoNext == IoStep \/ IoCall

(* The wrapper runs as long as a call has not returned, and the callbacks  *)
(* return: they move a byte or fail (bearssl_ssl.h:3970-3991).             *)
IoSpec == IoInit /\ [][IoNext]_<<vars, ioVars>> /\ WF_<<vars, ioVars>>(IoStep)
-----------------------------------------------------------------------------
IoTypeOK ==
  /\ call \in Calls \union {"none"} /\ left \in Nat
  /\ loop \in {"off", "run", "ok", "failed"} /\ ret \in {"none", "ok", "error"}
  /\ wire \in [r : BOOLEAN, w : BOOLEAN] /\ recs \in Nat

(* The wrapper is a correct user of the engine: every step of it is a call *)
(* the engine allows, so that all that holds of SslEngine holds here.      *)
UsesEngine == Spec

(* The state in which the engine offers nothing: handshake bytes that the  *)
(* coroutine leaves unread hold the shared buffer, while it waits for room *)
(* to write, or because the handshake ended within their record.           *)
Jammed == MustRead /\ RecvRecLen = 0 /\ RecvPldLen(iomode, ix) > 0

(* Every call returns when the peer falls silent or the transport breaks,  *)
(* with two exceptions: br_sslio_close when a close_notify was received    *)
(* and ours cannot be written (ssl_io.c:81, 254), and a jammed buffer.         *)
IoReturns ==
  call # "none" ~> \/ call = "none"
                   \/ call = "close" /\ shutdownRecv /\ ~wire.w
                   \/ Jammed

(* After a flush that succeeded nothing is left in the engine: what was    *)
(* written before it has been handed to low_write (br_sslio_flush).        *)
FlushSendsAll ==
  [][Flushed => OutEmpty]_<<vars, ioVars>>

(* An error is reported only when the engine has ended, when our answer to *)
(* a close_notify cannot be written, or to a writer in a shared buffer     *)
(* that holds unread data; a reader is never stopped by unsent data        *)
(* (ssl_io.c:108).                                                         *)
ErrorsExplained ==
  [][Failed => \/ iomode = "FAILED"
               \/ shutdownRecv /\ ~wire.w
               \/ Shared /\ call \in {"write", "writeAll"} /\ RecvAppLen > 0]_<<vars, ioVars>>
=============================================================================
