----------------------------- MODULE SslEngine -----------------------------
(***************************************************************************)
(* The buffer, mode and record state machine of the TLS engine             *)
(* (libbearssl/src/ssl/ssl_engine.c), together with the handshake          *)
(* coroutine it resumes (ssl_hs_common.t0, ssl_hs_client.t0,               *)
(* ssl_hs_server.t0).                                                      *)
(*                                                                         *)
(* The application calls the engine one call at a time; a call that gives  *)
(* control to the coroutine (jump_handshake) runs to its end before the    *)
(* next call.  Here a call starts in a state with pc = "idle" and, when it *)
(* jumps, the coroutine's own steps follow with pc # "idle", until the     *)
(* coroutine has nothing left to do.                                       *)
(*                                                                         *)
(* Bytes are counted, not stored.  Of the contents of the output buffer    *)
(* only what the properties need is kept: under which record type and with *)
(* which protection the pending bytes were written, and the header of the  *)
(* sealed record.                                                          *)
(***************************************************************************)
EXTENDS Integers, Sequences

CONSTANTS
  Role,        \* "client" or "server": which t0 program the coroutine runs
  Shared,      \* one buffer for both directions (br_ssl_engine_set_buffer)
  IBufLen,     \* ibuf_len
  OBufLen,     \* obuf_len (the same memory as ibuf when Shared)
  InPre,       \* bytes of an encrypted incoming record before its plaintext
  InPost,      \* ... and after it (authentication tag)
  OutPre,      \* bytes that the output protection puts before the plaintext
  OutPost,     \* ... and after it
  MaxPlain,    \* 16384: longest plaintext of a record
  RecLens,     \* lengths that the headers sent by the peer may announce
  MaxFrag0,    \* max_frag_len as computed when the buffers were set
  FragSizes,   \* lengths a client may request in max_fragment_length
  MsgLen,      \* bytes of one handshake flight
  NoReneg,     \* BR_OPT_NO_RENEGOTIATION, or a peer without RFC 5746
  Forces,      \* the values the caller gives to br_ssl_engine_flush's force
  PartialIO    \* the transport may take or deliver part of what
               \* it is offered, or always moves all of it

CCS   == 20
ALERT == 21
HANDSHAKE == 22
APPDATA   == 23
RecTypes  == {CCS, ALERT, HANDSHAKE, APPDATA}

(* The sizes that br_ssl_engine_set_buffers_bidi accepts leave room for a  *)
(* header and one protected byte on input, and for a two-byte alert on     *)
(* output, under either protection.                                        *)
ASSUME BufferAssumption ==
  /\ PartialIO \in BOOLEAN /\ Shared \in BOOLEAN /\ NoReneg \in BOOLEAN /\ Forces \subseteq BOOLEAN
  /\ IBufLen \in Nat /\ OBufLen \in Nat
  /\ InPre \in Nat /\ InPost \in Nat /\ OutPre \in Nat /\ OutPost \in Nat
  /\ IBufLen > 5 + InPre + InPost
  /\ OBufLen >= 5 + OutPre + 2 + OutPost + 5
  /\ Shared => OBufLen = IBufLen
  /\ MaxPlain \in Nat /\ MaxPlain >= 2
  /\ MaxFrag0 \in Nat /\ MaxFrag0 >= 2
  /\ RecLens \subseteq Nat
  /\ FragSizes \subseteq Nat /\ \A f \in FragSizes : f >= 2
  /\ MsgLen \in Nat /\ MsgLen > 0
  /\ Role \in {"client", "server"}

VARIABLES
  iomode,       \* "INOUT", "IN", "OUT" or "FAILED"
  err,          \* "OK", or "ERROR" for any BR_ERR_x
  ix,           \* input registers: [a |-> ixa, b |-> ixb, c |-> ixc]
  rtin,         \* record_type_in
  incrypt,      \* incoming records are protected
  shutdownRecv, \* shutdown_recv
  ox,           \* output registers a, b, c and what the buffer holds
  rtout,        \* record_type_out
  outenc,       \* outgoing records are protected (out.vtable is not clear)
  maxFrag,      \* max_frag_len
  appdata,      \* application_data: 0, 1 (open) or 2 (discarding)
  alert,        \* 'alert': 0, or the level byte of a half-read alert
  pc,           \* where the current call is; "idle" between calls
  action,       \* the action that jump_handshake passed to the coroutine
  h,            \* hlen_in at the jump, hlen_in, hlen_out, bytes written
  todo,         \* what the coroutine has still to do
  cnr           \* do-close's cnr, and process-alerts' result

inVars  == <<ix, rtin, incrypt, shutdownRecv>>
outVars == <<ox, rtout, outenc>>
hsVars  == <<pc, action, h, todo, cnr>>
vars == <<iomode, err, inVars, outVars, maxFrag, appdata, alert, hsVars>>

Least(m, n) == IF m <= n THEN m ELSE n
Portions(len) == IF PartialIO THEN 1 .. len ELSE {len} \ {0}
Idle == [in0 |-> 0, in |-> 0, out |-> 0, put |-> 0]

-----------------------------------------------------------------------------
(* Input side.                                                             *)

ReadyIn == [a |-> 0, b |-> 0, c |-> 5]
ModeReadyIn(mode) == IF mode = "IN" THEN "INOUT" ELSE mode

Receiving(mode) == mode \in {"IN", "INOUT"}

RecvRecLen ==
  IF ~shutdownRecv /\ Receiving(iomode) /\ ix.a = ix.b
  THEN Least(ix.c, IBufLen - ix.a) ELSE 0

RecvPldLen(mode, i) == IF Receiving(mode) THEN i.b - i.a ELSE 0

AckInNotReady(i, n) ==      \* mutant: a finished record is not replaced
  IF i.a + n # i.b THEN [i EXCEPT !.a = i.a + n]
  ELSE [i EXCEPT !.a = 5, !.b = 5]
(* recvpld_ack: n payload bytes were consumed.                             *)
AckIn(i, n) ==
  IF i.a + n # i.b THEN [i EXCEPT !.a = i.a + n]
  ELSE IF i.c = 0 THEN ReadyIn
  ELSE [i EXCEPT !.a = 5, !.b = 5]
AckInModeEarly(i, n, mode) ==  \* mutant: leaves input mode too early
  IF i.a + n = i.b THEN ModeReadyIn(mode) ELSE mode
AckInMode(i, n, mode) ==
  IF i.a + n = i.b /\ i.c = 0 THEN ModeReadyIn(mode) ELSE mode

RecvRecFinished == Receiving(iomode) => (ix.c = 0 \/ ix.a < 5)

(* check_length of the protected record format.                            *)
CheckLength(rlen) == rlen >= InPre + InPost /\ rlen <= MaxPlain + InPre + InPost

-----------------------------------------------------------------------------
(* Output side.  kinds: the <<type, protection>> pairs the pending bytes   *)
(* were written under; hdr: the header of the sealed record.               *)

Pre(e)  == IF e THEN OutPre ELSE 0
Post(e) == IF e THEN OutPost ELSE 0
NoHdr == [type |-> 0, enc |-> FALSE, len |-> 0]

(* max_plaintext, given the space from start 5 to end obuf_len - 5.        *)
PlainStart(e) == 5 + Pre(e)
PlainEndNoTag(e) ==         \* mutant: no room kept for what follows
  PlainStart(e) + Least(OBufLen - PlainStart(e), MaxPlain)
PlainEnd(e) ==
  PlainStart(e) + Least(OBufLen - 5 - Post(e) - PlainStart(e), MaxPlain)

ReadyOut(e, frag) ==
  [a |-> PlainStart(e),
   b |-> Least(PlainEnd(e), PlainStart(e) + frag),
   c |-> PlainStart(e), kinds |-> {}, hdr |-> NoHdr]
ModeReadyOut(mode) == IF mode = "OUT" THEN "INOUT" ELSE mode

SendPldLen(mode, o) == IF mode \in {"OUT", "INOUT"} THEN o.b - o.a ELSE 0
HasPld(o) == o.a # o.b /\ o.a # o.c
SendRecLen ==
  IF iomode \in {"OUT", "INOUT"} /\ ox.c > ox.a THEN ox.c - ox.a ELSE 0

SealOffByOne(o, type, e, force) ==   \* mutant: a header of six bytes
  IF o.a = o.b \/ (o.a = o.c /\ ~force) THEN o
  ELSE LET start == o.c - Pre(e) - 6 IN
       [a |-> start, b |-> start, c |-> o.a + Post(e), kinds |-> o.kinds,
        hdr |-> [type |-> type, enc |-> e, len |-> o.a - o.c]]
(* sendpld_flush: wrap the pending bytes, if any, into a record.           *)
Seal(o, type, e, force) ==
  IF o.a = o.b \/ (o.a = o.c /\ ~force) THEN o
  ELSE LET start == o.c - Pre(e) - 5 IN
       [a |-> start, b |-> start, c |-> o.a + Post(e), kinds |-> o.kinds,
        hdr |-> [type |-> type, enc |-> e, len |-> o.a - o.c]]

Move(o, a, b) ==
  [a |-> a, b |-> b, c |-> o.c, kinds |-> o.kinds, hdr |-> o.hdr]
Written(o, type, e) ==
  [a |-> o.a, b |-> o.b, c |-> o.c, kinds |-> o.kinds \union {<<type, e>>}, hdr |-> o.hdr]

(* sendpld_ack: n bytes were added; a full buffer is sealed at once.       *)
AckOut(o, n, type, e) ==
  LET full == o.a + n >= o.b
      p == Move(o, o.a + n, IF full THEN o.a + n + 1 ELSE o.b)
  IN  IF full THEN Seal(p, type, e, FALSE) ELSE p
AckOutMode(mode) == IF mode = "INOUT" /\ Shared THEN "OUT" ELSE mode

(* br_ssl_engine_new_max_frag_len: adjust the limit of the open record.    *)
ShrinkOut(o, frag) ==
  IF o.a < o.b /\ o.b > o.c + frag /\ o.a < o.c + frag
  THEN Move(o, o.a, o.c + frag) ELSE o

-----------------------------------------------------------------------------
(* The coroutine's programs: sequences of instructions, each with the      *)
(* number of bytes it concerns.  A word of the t0 sources that does not    *)
(* yield inside is one instruction.                                        *)

I(op, n) == [op |-> op, n |-> n]

WriteCcsFinished ==
  <<I("flush", 0), I("writeCcs", 1), I("flush", 0), I("room", 0),
    I("type", HANDSHAKE), I("write", MsgLen), I("flush", 0)>>
ReadCcsFinished == <<I("readCcs", 1), I("read", MsgLen)>>

DoHandshake ==
  <<I("begin", 0)>> \o
  (IF Role = "client"
   THEN <<I("write", MsgLen), I("flush", 0), I("read", MsgLen)>>
   ELSE <<I("read", MsgLen), I("frag", 0), I("nomore", 0)>>)
  \o <<I("branch", 0)>>
FullHandshakeNoReadCcs ==   \* mutant: a server that reads no CCS
  <<I("write", MsgLen), I("flush", 0), I("read", MsgLen)>>
  \o WriteCcsFinished \o <<I("end", 0)>>
FullHandshake ==
  (IF Role = "client"
   THEN <<I("read", MsgLen), I("nomore", 0), I("write", MsgLen)>>
        \o WriteCcsFinished \o ReadCcsFinished
   ELSE <<I("write", MsgLen), I("flush", 0), I("read", MsgLen)>>
        \o ReadCcsFinished \o WriteCcsFinished)
  \o <<I("end", 0)>>
Resumption ==
  (IF Role = "client"
   THEN ReadCcsFinished \o WriteCcsFinished
   ELSE <<I("write", MsgLen)>> \o WriteCcsFinished \o ReadCcsFinished)
  \o <<I("end", 0)>>

(* main: handshake data arrived outside of a handshake.                    *)
RejectReneg ==
  <<I("flush", 0), I("room", 0), I("alert", 2), I("flush", 0), I("end", 0)>>
OnHandshakeData ==
  IF Role = "client"
  THEN <<I("noapp", 0), I("read", MsgLen)>>
       \o (IF NoReneg THEN RejectReneg ELSE DoHandshake)
  ELSE IF NoReneg THEN <<I("read", MsgLen)>> \o RejectReneg ELSE DoHandshake

(* main: the application asked for a renegotiation.                        *)
OnRenegotiate ==
  IF Role = "client" THEN DoHandshake
  ELSE <<I("noapp", 0), I("flush", 0), I("room", 0), I("type", HANDSHAKE),
         I("write", MsgLen), I("flush", 0), I("type", APPDATA)>>

DoCloseNoRoom ==            \* mutant: neither flushes nor waits for room
  <<I("alert", 2), I("flush", 0), I("closeWait", 0)>>
DoCloseNoFlush ==           \* mutant: pending data is not flushed
  <<I("closeRoom", 0), I("alert", 2), I("flush", 0), I("closeWait", 0)>>
DoClose ==
  <<I("flush", 0), I("closeRoom", 0), I("alert", 2), I("flush", 0),
    I("closeWait", 0)>>
FailAlert ==
  <<I("flush", 0), I("room", 0), I("alert", 2), I("flush", 0),
    I("room", 0), I("fail", 0)>>

At(op) == todo # <<>> /\ Head(todo).op = op
Closing == At("closeRoom") \/ At("closeWait")

-----------------------------------------------------------------------------
(* br_ssl_client_reset / br_ssl_server_reset, whose last act is to jump.   *)

Init ==
  /\ iomode = "INOUT" /\ err = "OK"
  /\ ix = ReadyIn /\ rtin = 0 /\ incrypt = FALSE /\ shutdownRecv = FALSE
  /\ ox = ReadyOut(FALSE, MaxFrag0) /\ rtout = 0 /\ outenc = FALSE
  /\ maxFrag = MaxFrag0
  /\ appdata = 0 /\ alert = 0
  /\ pc = "jump" /\ action = 0 /\ h = Idle /\ todo = DoHandshake /\ cnr = FALSE

Reset ==
  /\ pc = "idle"
  /\ iomode' = "INOUT" /\ err' = "OK"
  /\ ix' = ReadyIn /\ rtin' = 0 /\ incrypt' = FALSE /\ shutdownRecv' = FALSE
  /\ ox' = ReadyOut(FALSE, maxFrag) /\ rtout' = 0 /\ outenc' = FALSE
  /\ appdata' = 0 /\ alert' = 0
  /\ pc' = "jump" /\ action' = 0 /\ h' = Idle /\ todo' = DoHandshake
  /\ cnr' = FALSE
  /\ UNCHANGED maxFrag

(* br_ssl_engine_fail.  What the coroutine still had to do is never        *)
(* resumed, so it is forgotten.                                            *)
Fail(e) ==
  /\ iomode' = "FAILED" /\ err' = e
  /\ pc' = "idle" /\ action' = 0 /\ h' = Idle /\ todo' = <<>> /\ cnr' = FALSE

Jump(a) == /\ pc' = "jump" /\ action' = a
           /\ UNCHANGED <<h, todo, cnr>>

Open == pc = "idle" /\ iomode # "FAILED"

-----------------------------------------------------------------------------
(* br_ssl_engine_recvrec_ack(len): the transport delivered bytes.          *)

ModeRecvUnchanged == iomode    \* mutant: a shared buffer stays in both modes
(* recvrec_ack, first lines: a shared buffer leaves output mode.           *)
ModeRecv == IF iomode = "INOUT" /\ Shared THEN "IN" ELSE iomode

(* Part of a header.                                                       *)
RecvHeaderPart(n) ==
  /\ Open /\ n \in Portions(RecvRecLen) /\ ix.a + n < 5
  /\ iomode' = ModeRecv
  /\ ix' = [a |-> ix.a + n, b |-> ix.a + n, c |-> ix.c - n]
  /\ UNCHANGED <<err, rtin, incrypt, shutdownRecv, outVars, maxFrag,
                 appdata, alert, hsVars>>

HeaderRefusedNotTooLarge(rlen, bad) ==   \* mutant: no check against ibuf_len
  bad \/ (IF incrypt THEN ~CheckLength(rlen) ELSE rlen > MaxPlain)

(* The end of a header, which announces a record.  "bad" stands for a      *)
(* version that is refused.                                                *)
HeaderRefused(rlen, bad) ==
  \/ bad
  \/ incrypt /\ (~CheckLength(rlen) \/ rlen > IBufLen - 5)
  \/ ~incrypt /\ rlen > MaxPlain

RecvHeader(type, rlen, bad) ==
  /\ Open /\ 5 - ix.a \in 1 .. RecvRecLen
  /\ rtin' = type
  /\ IF HeaderRefused(rlen, bad)
     THEN Fail("ERROR") /\ ix' = [a |-> 5, b |-> 5, c |-> 0]
     ELSE /\ IF rlen = 0
             THEN ix' = ReadyIn /\ iomode' = ModeReadyIn(ModeRecv)
             ELSE ix' = [a |-> 5, b |-> 5, c |-> rlen] /\ iomode' = ModeRecv
          /\ UNCHANGED <<err, hsVars>>
  /\ UNCHANGED <<incrypt, shutdownRecv, outVars, maxFrag, appdata, alert>>

(* Part of a protected record.                                             *)
RecvCipherPart(n) ==
  /\ Open /\ ix.a >= 5 /\ incrypt /\ n \in Portions(RecvRecLen) /\ n < ix.c
  /\ iomode' = ModeRecv
  /\ ix' = [a |-> ix.a + n, b |-> ix.a + n, c |-> ix.c - n]
  /\ UNCHANGED <<err, rtin, incrypt, shutdownRecv, outVars, maxFrag,
                 appdata, alert, hsVars>>

(* Payload i of the current record became readable.                        *)
Deliver(i) ==
  IF rtin = APPDATA
  THEN IF appdata = 0 THEN Fail("ERROR") /\ ix' = i
       ELSE /\ IF appdata = 1 THEN ix' = i /\ iomode' = ModeRecv
               ELSE /\ ix' = AckIn(i, i.b - i.a)
                    /\ iomode' = AckInMode(i, i.b - i.a, ModeRecv)
            /\ UNCHANGED <<err, hsVars>>
  ELSE IF rtin \in RecTypes
  THEN ix' = i /\ iomode' = ModeRecv /\ Jump(0) /\ UNCHANGED err
  ELSE Fail("ERROR") /\ ix' = i

(* Clear data is readable as it comes.                                     *)
RecvClear(n) ==
  /\ Open /\ ix.a >= 5 /\ ~incrypt /\ n \in Portions(RecvRecLen)
  /\ Deliver([a |-> 5, b |-> ix.a + n, c |-> ix.c - n])
  /\ UNCHANGED <<rtin, incrypt, shutdownRecv, outVars, maxFrag,
                 appdata, alert>>

(* The end of a protected record: it is decrypted, or refused ("bad").     *)
RecvCipherEnd(bad) ==
  /\ Open /\ ix.a >= 5 /\ incrypt /\ ix.c \in 1 .. RecvRecLen
  /\ LET len == ix.a + ix.c - 5 - InPre - InPost
         i == [a |-> 5 + InPre, b |-> 5 + InPre + len, c |-> 0]
     IN  IF bad THEN Fail("ERROR") /\ ix' = i
         ELSE IF len = 0
         THEN /\ ix' = ReadyIn /\ iomode' = ModeReadyIn(ModeRecv)
              /\ UNCHANGED <<err, hsVars>>
         ELSE Deliver(i)
  /\ UNCHANGED <<rtin, incrypt, shutdownRecv, outVars, maxFrag,
                 appdata, alert>>

-----------------------------------------------------------------------------
(* The other calls of the application.                                     *)

(* br_ssl_engine_sendrec_ack: n bytes of the record were sent.             *)
SendRecAck(n) ==
  /\ Open /\ n \in Portions(SendRecLen)
  /\ LET sent == ox.a + n = ox.c IN
     /\ IF sent
        THEN /\ ox' = ReadyOut(outenc, maxFrag)
             /\ iomode' = ModeReadyOut(iomode)
        ELSE /\ ox' = Move(ox, ox.a + n, ox.a + n)
             /\ UNCHANGED iomode
     /\ IF sent /\ (rtout # APPDATA \/ appdata # 1)
        THEN Jump(0) ELSE UNCHANGED hsVars
  /\ UNCHANGED <<err, inVars, rtout, outenc, maxFrag, appdata, alert>>

SendAppLenAnyTime == SendPldLen(iomode, ox)   \* mutant: application_data unread
SendAppLen == IF appdata = 1 THEN SendPldLen(iomode, ox) ELSE 0

(* br_ssl_engine_sendapp_ack: the application wrote n bytes of data.       *)
SendAppAck(n) ==
  /\ Open /\ n \in 1 .. SendAppLen
  /\ ox' = AckOut(Written(ox, APPDATA, outenc), n, rtout, outenc)
  /\ iomode' = AckOutMode(iomode)
  /\ UNCHANGED <<err, inVars, rtout, outenc, maxFrag, appdata, alert, hsVars>>

RecvAppLen ==
  IF appdata = 1 /\ rtin = APPDATA THEN RecvPldLen(iomode, ix) ELSE 0

(* br_ssl_engine_recvapp_ack: the application read n bytes of data.        *)
RecvAppAck(n) ==
  /\ Open /\ n \in 1 .. RecvAppLen
  /\ ix' = AckIn(ix, n) /\ iomode' = AckInMode(ix, n, iomode)
  /\ UNCHANGED <<err, rtin, incrypt, shutdownRecv, outVars, maxFrag,
                 appdata, alert, hsVars>>

(* br_ssl_engine_flush.                                                    *)
Flush(force) ==
  /\ Open /\ appdata = 1
  /\ ox' = Seal(ox, rtout, outenc, force)
  /\ UNCHANGED <<iomode, err, inVars, rtout, outenc, maxFrag, appdata, alert,
                 hsVars>>

(* br_ssl_engine_close: unread application data is dropped.                *)
Close ==
  /\ Open
  /\ IF RecvAppLen > 0
     THEN /\ ix' = AckIn(ix, RecvAppLen)
          /\ iomode' = AckInMode(ix, RecvAppLen, iomode)
     ELSE UNCHANGED <<ix, iomode>>
  /\ Jump(1)
  /\ UNCHANGED <<err, rtin, incrypt, shutdownRecv, outVars, maxFrag,
                 appdata, alert>>

(* br_ssl_engine_renegotiate, when it does not return 0.                   *)
Renegotiate ==
  /\ Open /\ ~NoReneg /\ RecvAppLen = 0
  /\ Jump(2)
  /\ UNCHANGED <<iomode, err, inVars, outVars, maxFrag, appdata, alert>>

(* br_ssl_engine_fail(BR_ERR_IO), called by the owner of the transport.    *)
IoFail ==
  /\ Open /\ Fail("ERROR")
  /\ UNCHANGED <<inVars, outVars, maxFrag, appdata, alert>>

-----------------------------------------------------------------------------
(* jump_handshake.                                                         *)

(* Before the coroutine runs: what it may read, and room to write.         *)
HsEnter ==
  /\ pc = "jump"
  /\ LET pld == RecvPldLen(iomode, ix)
         in == IF rtin = APPDATA THEN 0 ELSE pld
         out == IF HasPld(ox) THEN 0 ELSE SendPldLen(iomode, ox)
     IN  h' = [in0 |-> in, in |-> in, out |-> out, put |-> 0]
  /\ pc' = "resume"
  /\ UNCHANGED <<iomode, err, inVars, outVars, maxFrag, appdata, alert,
                 action, todo, cnr>>

JumpAgainUnread(read) == h.in = 0   \* mutant: runs again without progress
(* After it yielded: account for what it wrote and read, and run it again  *)
(* when it read all there was.                                             *)
JumpAgain(read) == read > 0 /\ h.in = 0

HsReturn ==
  /\ pc = "yield"
  /\ LET n == h.in0 - h.in
         mode == IF h.put > 0 THEN AckOutMode(iomode) ELSE iomode
     IN  /\ ox' = IF h.put > 0 THEN AckOut(ox, h.put, rtout, outenc) ELSE ox
         /\ ix' = IF n > 0 THEN AckIn(ix, n) ELSE ix
         /\ iomode' = IF n > 0 THEN AckInMode(ix, n, mode) ELSE mode
         /\ pc' = IF JumpAgain(n) THEN "jump" ELSE "idle"
  /\ action' = 0 /\ h' = Idle
  /\ UNCHANGED <<err, rtin, incrypt, shutdownRecv, rtout, outenc, maxFrag,
                 appdata, alert, todo, cnr>>

-----------------------------------------------------------------------------
(* The coroutine: what follows the return of co (pc = "resume").           *)

StartClose(received) ==
  /\ appdata' = IF appdata = 1 /\ ~received THEN 2 ELSE 0
  /\ todo' = DoClose /\ cnr' = received /\ pc' = "run"

(* wait-co, when the call is a close.                                      *)
HsClose ==
  /\ pc = "resume" /\ ~Closing /\ action = 1
  /\ StartClose(FALSE)
  /\ UNCHANGED <<iomode, err, inVars, outVars, maxFrag, alert, action, h>>

(* wait-co and wait-for-close, when alert bytes came.                      *)
HsAlerts ==
  /\ pc = "resume" /\ h.in > 0 /\ rtin = ALERT
  /\ IF Closing THEN ~cnr ELSE action # 1
  /\ pc' = "alerts"
  /\ UNCHANGED <<iomode, err, inVars, outVars, maxFrag, appdata, alert,
                 action, h, todo, cnr>>

(* process-alert-byte.  byte: "warning" and "fatal" are levels;            *)
(* "close_notify", "no_renegotiation" and "other" are descriptions.        *)
HsAlertByte(byte) ==
  /\ pc = "alerts" /\ h.in > 0
  /\ byte \in IF alert = 0 THEN {"warning", "fatal"}
              ELSE {"close_notify", "no_renegotiation", "other"}
  /\ IF alert = 2 \/ byte = "no_renegotiation"
     THEN Fail("ERROR") /\ UNCHANGED <<alert, appdata>>
     ELSE /\ alert' = CASE byte = "warning" -> 1
                        [] byte = "fatal" -> 2
                        [] OTHER -> 0
          /\ h' = [h EXCEPT !.in = @ - 1]
          /\ cnr' = (cnr \/ byte = "close_notify")
          /\ UNCHANGED <<iomode, err, appdata, pc, action, todo>>
  /\ UNCHANGED <<inVars, outVars, maxFrag>>

(* What wait-co returns to the main loop: 0x10 asks for a renegotiation.   *)
WantReneg == action = 2 /\ appdata = 1

(* The program that waited goes on, after wait-co found no input.          *)
Continue ==
  /\ IF todo = <<>> /\ WantReneg THEN todo' = OnRenegotiate /\ pc' = "run"
     ELSE UNCHANGED todo /\ pc' = IF todo = <<>> THEN "yield" ELSE "run"
  /\ UNCHANGED <<iomode, err, action, h, cnr>>

(* process-alerts returns to wait-co or to wait-for-close.                 *)
HsAlertsEnd ==
  /\ pc = "alerts" /\ h.in = 0
  /\ shutdownRecv' = (shutdownRecv \/ cnr)
  /\ IF Closing
     THEN appdata' = 0 /\ pc' = "run" /\ UNCHANGED <<iomode, err, action, h, todo, cnr>>
     ELSE IF cnr THEN StartClose(TRUE) /\ UNCHANGED <<iomode, err, action, h>>
     ELSE Continue /\ UNCHANGED appdata
  /\ UNCHANGED <<ix, rtin, incrypt, outVars, maxFrag, alert>>

CcsRefusedInMain == todo = <<>>   \* mutant: wait-for-handshake lets CCS in
(* The main loop and wait-for-handshake accept no ChangeCipherSpec.        *)
CcsRefused == todo = <<>> \/ At("read")

(* wait-co without alert bytes; the program that waited checks the type of *)
(* what came, except where it drops wait-co's result.                      *)
HsGoOn ==
  /\ pc = "resume" /\ ~Closing /\ action # 1 /\ ~(h.in > 0 /\ rtin = ALERT)
  /\ LET ccs == h.in > 0 /\ rtin = CCS IN
     IF ccs /\ CcsRefused THEN Fail("ERROR")
     ELSE IF todo = <<>> /\ h.in > 0
     THEN /\ todo' = OnHandshakeData /\ pc' = "run"
          /\ UNCHANGED <<iomode, err, action, h, cnr>>
     ELSE Continue
  /\ UNCHANGED <<inVars, outVars, maxFrag, appdata, alert>>

(* wait-for-close without alert bytes: the input is discarded.             *)
HsDiscard ==
  /\ pc = "resume" /\ Closing /\ ~(~cnr /\ h.in > 0 /\ rtin = ALERT)
  /\ h' = IF cnr THEN h ELSE [h EXCEPT !.in = 0]
  /\ pc' = "run"
  /\ UNCHANGED <<iomode, err, inVars, outVars, maxFrag, appdata, alert,
                 action, todo, cnr>>

-----------------------------------------------------------------------------
(* The coroutine: one instruction (pc = "run").                            *)

Running(op) == pc = "run" /\ At(op)
Next1 == todo' = Tail(todo)
Yield == pc' = "yield"

CloseDoneAlone == h.out > 0   \* mutant: does not wait for the peer
(* do-close's last loop: a close_notify was received, and ours was sent    *)
(* since the output buffer is free again.                                  *)
CloseDone == cnr /\ h.out > 0

HsYield ==
  /\ pc = "run"
  /\ \/ todo = <<>>
     \/ At("read") /\ h.in = 0
     \/ At("readCcs") /\ h.in = 0
     \/ At("write") /\ h.out = 0
     \/ At("room") /\ h.out = 0
     \/ At("writeCcs") /\ h.out = 0
     \/ At("closeRoom") /\ h.out = 0
     \/ At("closeWait") /\ ~CloseDone
  /\ Yield
  /\ UNCHANGED <<iomode, err, inVars, outVars, maxFrag, appdata, alert,
                 action, h, todo, cnr>>

(* do-handshake's first and last lines, and the words between that only    *)
(* set a field.                                                            *)
HsSet ==
  /\ \/ Running("begin") /\ appdata' = 0 /\ rtout' = HANDSHAKE
     \/ Running("noapp") /\ appdata' = 0 /\ UNCHANGED rtout
     \/ Running("type") /\ rtout' = Head(todo).n /\ UNCHANGED appdata
     \/ Running("end") /\ appdata' = 1 /\ rtout' = APPDATA
  /\ Next1
  /\ UNCHANGED <<iomode, err, inVars, ox, outenc, maxFrag, alert,
                 pc, action, h, cnr>>

(* can-output? holds.                                                      *)
HsRoom ==
  /\ Running("room") \/ Running("closeRoom")
  /\ h.out > 0
  /\ Next1
  /\ UNCHANGED <<iomode, err, inVars, outVars, maxFrag, appdata, alert,
                 pc, action, h, cnr>>

(* What may be read stays; the room left and the bytes written change.     *)
Offer(out, put) == h' = [in0 |-> h.in0, in |-> h.in, out |-> out, put |-> put]

Put(n, type) ==
  /\ Offer(h.out - n, h.put + n)
  /\ ox' = Written(ox, type, outenc)

(* write8, write-blob: as many bytes as there is room for.                 *)
HsWrite ==
  /\ Running("write") /\ h.out > 0
  /\ LET n == Head(todo).n
         k == Least(n, h.out)
     IN  /\ Put(k, rtout)
         /\ todo' = IF k = n THEN Tail(todo) ELSE <<I("write", n - k)>> \o Tail(todo)
  /\ UNCHANGED <<iomode, err, inVars, rtout, outenc, maxFrag, appdata, alert,
                 pc, action, cnr>>

(* send-alert, up to its flush-record.                                     *)
HsAlertOut ==
  /\ Running("alert")
  /\ Put(Least(2, h.out), ALERT)
  /\ rtout' = ALERT
  /\ Next1
  /\ UNCHANGED <<iomode, err, inVars, outenc, maxFrag, appdata, alert,
                 pc, action, cnr>>

(* br_ssl_engine_flush_record, from the registers o with n bytes written.  *)
FlushRecord(o, n, type) ==
  LET p == IF n > 0 THEN AckOut(o, n, type, outenc) ELSE o
  IN  IF HasPld(p) THEN Seal(p, type, outenc, FALSE) ELSE p
FlushMode(n) == IF n > 0 THEN AckOutMode(iomode) ELSE iomode

HsFlush ==
  /\ Running("flush")
  /\ ox' = FlushRecord(ox, h.put, rtout)
  /\ iomode' = FlushMode(h.put)
  /\ Offer(SendPldLen(iomode', ox'), 0)
  /\ Next1
  /\ UNCHANGED <<err, inVars, rtout, outenc, maxFrag, appdata, alert,
                 pc, action, cnr>>

(* write-CCS-Finished once there is room: the ChangeCipherSpec is written  *)
(* and flushed, and the output protection switched on.                     *)
HsWriteCcs ==
  /\ Running("writeCcs") /\ h.out > 0
  /\ rtout' = CCS
  /\ ox' = FlushRecord(Written(ox, CCS, outenc), h.put + 1, CCS)
  /\ iomode' = FlushMode(h.put + 1)
  /\ Offer(SendPldLen(iomode', ox'), 0)
  /\ outenc' = TRUE
  /\ Next1
  /\ UNCHANGED <<err, inVars, maxFrag, appdata, alert, pc, action, cnr>>

(* read8-nc, read-blob: bytes are taken as they come.  The message they    *)
(* complete may be refused ("bad").                                        *)
HsRead(bad) ==
  /\ Running("read") /\ h.in > 0
  /\ LET n == Head(todo).n
         k == Least(n, h.in)
         done == k = n
     IN  /\ bad => done
         /\ IF bad THEN Fail("ERROR")
            ELSE /\ h' = [h EXCEPT !.in = @ - k]
                 /\ todo' = IF done THEN Tail(todo)
                            ELSE <<I("read", n - k)>> \o Tail(todo)
                 /\ UNCHANGED <<iomode, err, pc, action, cnr>>
  /\ UNCHANGED <<inVars, outVars, maxFrag, appdata, alert>>

MoreIncoming(i) == i > 0 \/ ~RecvRecFinished

(* read-CCS-Finished, up to the switch of the input protection.            *)
HsReadCcs(bad) ==
  /\ Running("readCcs") /\ h.in > 0
  /\ IF rtin # CCS \/ bad \/ MoreIncoming(h.in - 1)
     THEN Fail("ERROR") /\ UNCHANGED incrypt
     ELSE /\ h' = [h EXCEPT !.in = @ - 1]
          /\ incrypt' = TRUE
          /\ Next1
          /\ UNCHANGED <<iomode, err, pc, action, cnr>>
  /\ UNCHANGED <<ix, rtin, shutdownRecv, outVars, maxFrag, appdata, alert>>

(* more-incoming-bytes? if ERR_UNEXPECTED fail                             *)
HsNoMore ==
  /\ Running("nomore")
  /\ IF MoreIncoming(h.in) THEN Fail("ERROR")
     ELSE Next1 /\ UNCHANGED <<iomode, err, pc, action, h, cnr>>
  /\ UNCHANGED <<inVars, outVars, maxFrag, appdata, alert>>

(* read-client-frag: the ClientHello may ask for a shorter fragment length.*)
WindowAfterFragStale(f) == h.out   \* mutant: the window keeps its length
WindowAfterFrag(f) == Least(h.out, f)

HsFrag(f) ==
  /\ Running("frag")
  /\ IF f < maxFrag
     THEN /\ maxFrag' = f
          /\ ox' = ShrinkOut(ox, f)
          /\ Offer(WindowAfterFrag(f), h.put)
     ELSE UNCHANGED <<maxFrag, ox, h>>
  /\ Next1
  /\ UNCHANGED <<iomode, err, inVars, rtout, outenc, appdata, alert,
                 pc, action, cnr>>

HsNoFrag ==
  /\ Running("frag")
  /\ Next1
  /\ UNCHANGED <<iomode, err, inVars, outVars, maxFrag, appdata, alert,
                 pc, action, h, cnr>>

(* read-ClientHello, once the message is read: the client expects an       *)
(* answer, so that a refusal is sent as an alert.                          *)
HsRefuse ==
  /\ Running("nomore") /\ Role = "server"
  /\ todo' = FailAlert
  /\ UNCHANGED <<iomode, err, inVars, outVars, maxFrag, appdata, alert,
                 pc, action, h, cnr>>

(* read-ServerHello and read-ClientHello tell whether a session resumes.   *)
HsBranch ==
  /\ Running("branch")
  /\ todo' \in {FullHandshake, Resumption}
  /\ UNCHANGED <<iomode, err, inVars, outVars, maxFrag, appdata, alert,
                 pc, action, h, cnr>>

(* fail-alert's last line, and do-close's.                                 *)
HsEnd ==
  /\ \/ Running("fail") /\ Fail("ERROR")
     \/ Running("closeWait") /\ CloseDone /\ Fail("OK")
  /\ UNCHANGED <<inVars, outVars, maxFrag, appdata, alert>>

-----------------------------------------------------------------------------
HsStep ==
  \/ HsEnter \/ HsReturn
  \/ HsClose \/ HsAlerts \/ HsAlertsEnd \/ HsGoOn \/ HsDiscard
  \/ \E byte \in {"warning", "fatal", "close_notify", "no_renegotiation", "other"} :
       HsAlertByte(byte)
  \/ HsYield \/ HsSet \/ HsRoom \/ HsWrite \/ HsAlertOut \/ HsFlush \/ HsWriteCcs
  \/ \E bad \in BOOLEAN : HsRead(bad) \/ HsReadCcs(bad)
  \/ HsNoMore \/ HsNoFrag \/ HsRefuse \/ HsBranch \/ HsEnd
  \/ \E f \in FragSizes : HsFrag(f)

(* The transport delivers bytes of the record it has begun ...             *)
RecvBody ==
  \/ \E n \in Portions(RecvRecLen) : RecvCipherPart(n) \/ RecvClear(n)
  \/ \E bad \in BOOLEAN : RecvCipherEnd(bad)
(* ... or bytes of a header.                                               *)
RecvHead ==
  \/ \E n \in Portions(RecvRecLen) : RecvHeaderPart(n)
  \/ \E type \in RecTypes \union {0}, rlen \in RecLens, bad \in BOOLEAN :
       RecvHeader(type, rlen, bad)

SendRec == \E n \in Portions(SendRecLen) : SendRecAck(n)

AppStep ==
  \/ \E n \in 1 .. SendAppLen : SendAppAck(n)
  \/ \E n \in 1 .. RecvAppLen : RecvAppAck(n)
  \/ \E force \in Forces : Flush(force)
  \/ Close \/ Renegotiate \/ Reset \/ IoFail

Next == HsStep \/ RecvBody \/ RecvHead \/ SendRec \/ AppStep

Spec == Init /\ [][Next]_vars

(* A call that jumped runs to its end.  The caller's loop (run_until in    *)
(* ssl_io.c) attends to the transport again and again, whatever else it    *)
(* calls in between, and the transport takes what there is to send and     *)
(* delivers the rest of a record it has begun.  Nothing makes the peer     *)
(* begin a record, nor the application call.                               *)
Fairness ==
  /\ WF_vars(HsStep)
  /\ SF_vars(SendRec)
  /\ SF_vars(RecvBody \/ (ix.a > 0 /\ RecvHead))

FairSpec == Spec /\ Fairness
-----------------------------------------------------------------------------
Ops == {"begin", "noapp", "type", "end", "room", "closeRoom", "write", "alert",
        "flush", "writeCcs", "read", "readCcs", "nomore", "frag", "branch",
        "fail", "closeWait"}
Instr == {i \in [op : Ops, n : Nat] : i.op = "type" => i.n \in RecTypes}
InRegs == [a : Nat, b : Nat, c : Nat]
Header == [type : RecTypes \union {0}, enc : BOOLEAN, len : Nat]
OutRegs == [a : Nat, b : Nat, c : Nat,
            kinds : SUBSET ((RecTypes \union {0}) \X BOOLEAN), hdr : Header]
Window == [in0 : Nat, in : Nat, out : Nat, put : Nat]

(* Type correctness: registers are natural numbers (in C they are size_t   *)
(* and would wrap), flags are flags.                                       *)
TypeOK ==
  /\ iomode \in {"INOUT", "IN", "OUT", "FAILED"} /\ err \in {"OK", "ERROR"}
  /\ ix \in InRegs /\ rtin \in RecTypes \union {0}
  /\ incrypt \in BOOLEAN /\ shutdownRecv \in BOOLEAN
  /\ ox \in OutRegs /\ rtout \in RecTypes \union {0} /\ outenc \in BOOLEAN
  /\ maxFrag \in Nat
  /\ appdata \in 0 .. 2 /\ alert \in 0 .. 2
  /\ pc \in {"idle", "jump", "resume", "alerts", "run", "yield"}
  /\ action \in 0 .. 2 /\ h \in Window
  /\ todo \in Seq(Instr) /\ cnr \in BOOLEAN

(* The contents of the two buffers, as the registers describe them.        *)
InEmpty == ix = ReadyIn
Gathering(o) == o.a # o.b            \* an open record accepts payload
OutEmpty == Gathering(ox) /\ ox.a = ox.c
Record(o) == o.hdr # NoHdr           \* a sealed record is being sent

(* Every index stays inside its buffer: incoming bytes, the ciphertext of  *)
(* the record being sent, the ciphertext that sealing the open record now  *)
(* would produce, and what the coroutine was offered but not yet reported. *)
(* (br_ssl_engine_recvrec_ack, sendpld_ack, sendpld_flush, make_ready_out, *)
(* the hbuf_in and hbuf_out windows of jump_handshake)                     *)
NoOverrun ==
  iomode # "FAILED" =>
    /\ ix.a <= ix.b /\ ix.b + (IF incrypt /\ ix.a = ix.b THEN ix.c ELSE 0) <= IBufLen
    /\ IF Gathering(ox)
       THEN /\ ox.c >= 5 + Pre(outenc) /\ ox.c <= ox.a
            /\ ox.a <= ox.b /\ ox.b + Post(outenc) <= OBufLen
       ELSE ox.a < ox.c /\ ox.c <= OBufLen
    /\ h.in <= h.in0 /\ (h.in0 > 0 => h.in0 <= ix.b - ix.a)
    /\ h.put + h.out > 0 => Gathering(ox) /\ ox.a + h.put + h.out <= ox.b

(* A shared buffer holds data of one direction only: in input/output mode  *)
(* it is empty both ways, in input mode nothing is pending on output, and  *)
(* in output mode nothing on input (ssl_engine.c:130-133).                 *)
SharedBufferExclusive ==
  Shared => /\ iomode = "INOUT" => InEmpty /\ OutEmpty
            /\ iomode = "IN" => OutEmpty
            /\ iomode = "OUT" => InEmpty

(* With a shared buffer the coroutine is never offered bytes to read and   *)
(* room to write at once (ssl_engine.c:1072).                              *)
OneWindowWhenShared == Shared => ~(h.in > 0 /\ h.out + h.put > 0)

(* Receiving is never stuck: an engine that expects record bytes has room  *)
(* for at least one (ssl_engine.c:579-587).                                *)
ReceivingHasRoom ==
  iomode # "FAILED" /\ Receiving(iomode) /\ ix.a = ix.b /\ ~shutdownRecv
    => RecvRecLen > 0

(* A sealed record carries only bytes that were written for its type and   *)
(* under its protection: a type change or a ChangeCipherSpec never catches *)
(* bytes of the previous kind in the buffer (wait-rectype-out, send-alert, *)
(* write-CCS-Finished, do-close).                                          *)
SealedAsWritten ==
  Record(ox) => ox.kinds \subseteq {<<ox.hdr.type, ox.hdr.enc>>}

(* No record exceeds the fragment length agreed with the peer, although    *)
(* the length may shrink while the coroutine holds a window into the       *)
(* buffer (set-max-frag-len, br_ssl_engine_new_max_frag_len).              *)
SealedWithinFragment == Record(ox) => ox.hdr.len <= maxFrag

(* Application data is accepted and delivered only when both directions    *)
(* are protected (do-handshake's last lines, both orders of the CCS).      *)
AppDataProtected == appdata # 0 => incrypt /\ outenc

(* The handshake code takes bytes of handshake records only                *)
(* (ssl_hs_common.t0:506-509).                                             *)
HandshakeReadsHandshake == Running("read") /\ h.in > 0 => rtin = HANDSHAKE

(* Between calls an open engine can do something                           *)
(* (bearssl_ssl.h:1990 says a zero state means uninitialised).             *)
StateNotZero ==
  Open => SendRecLen > 0 \/ RecvRecLen > 0 \/ SendAppLen > 0 \/ RecvAppLen > 0

(* The close_notify is the last record: once it is sealed, nothing else is *)
(* (do-close).                                                             *)
CloseNotifyIsLast ==
  [][At("closeWait") => ox'.hdr \in {ox.hdr, NoHdr}]_vars

(* The engine ends without an error only when the closure ran both ways:   *)
(* a close_notify was sent, to its last byte, and one was received.        *)
CleanClose ==
  [][iomode # "FAILED" /\ iomode' = "FAILED" /\ err' = "OK"
       => At("closeWait") /\ shutdownRecv /\ ~Record(ox)]_vars

(* Every call returns: the loop of jump_handshake ends.                    *)
CallReturns == pc # "idle" ~> pc = "idle"

(* A close in ready state sends a close_notify: it is sealed, or the       *)
(* engine ends or is reset, with no further help from the application or   *)
(* from the peer (bearssl_ssl.h:2211-2213).                                *)
CloseNotifySent ==
  (pc = "resume" /\ action = 1 /\ ~Closing /\ appdata = 1)
    ~> (At("closeWait") \/ iomode = "FAILED" \/ (pc = "jump" /\ todo = DoHandshake))
=============================================================================
