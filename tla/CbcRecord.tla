----------------------------- MODULE CbcRecord -----------------------------
(***************************************************************************)
(* Records protected by a block cipher in CBC mode and HMAC                *)
(* (ssl_rec_cbc.c): cbc_encrypt of one end and cbc_decrypt of the other,   *)
(* which looks for the padding and the MAC without showing where they are. *)
(* A sequence number, a type and a version are one byte; 16384 is MaxPlain *)
(* and the 256 bytes of padding are 8, the values of a byte here.          *)
(***************************************************************************)
EXTENDS StreamCalls, SequencesExt

CONSTANTS
  CbcBlock, BlockEncrypt(_), BlockDecrypt(_),  (* the block cipher         *)
  MaxPlain, MaxOutOverhead,
  BufSizes,        (* bytes of the output buffer                           *)
  PlainSizes,      (* bytes of a plaintext                                 *)
  Flaws,           (* of a record: a place counted from its end, and what  *)
                   (* is added to the byte there; <<0, 0>> is none         *)
  MaxRecords

VARIABLE cbc       (* the two ends and the records between them            *)

PadValues == 8
AppData == 7
MacKey == Key(3)
RoundDown(n) == n - (n % CbcBlock)

NoCbc == [phase |-> "none"]
CbcInit == cbc = NoCbc

-----------------------------------------------------------------------------
(* The cipher's run: one block after the other, the last one kept as iv.   *)
XorBlocks(x, y) == [i \in 1 .. CbcBlock |-> XorTable[x[i], y[i]]]
RunEncrypt(iv, data) ==
  Loop(Len(data) \div CbcBlock, [iv |-> iv, out |-> <<>>],
    LAMBDA s, i : LET b == BlockEncrypt(XorBlocks(s.iv, Block(data, CbcBlock, i)))
                  IN  [iv |-> b, out |-> s.out \o b])
RunDecrypt(iv, data) ==
  Loop(Len(data) \div CbcBlock, [iv |-> iv, out |-> <<>>],
    LAMBDA s, i : LET b == Block(data, CbcBlock, i)
                  IN  [iv |-> b, out |-> s.out \o XorBlocks(s.iv, BlockDecrypt(b))])

(* What the MAC is computed over, before the plaintext.                    *)
MacHeader(seq, type, len) == <<seq % 8, type, 3, len \div 8, len % 8>>
MacInit(h) == HmacInit(h, KeyInit(h, MacKey), h.hlen)

(* cbc_max_plaintext: where in the buffer the plaintext starts, and the    *)
(* most it may be.                                                         *)
FirstRecord(mac) == RoundDown(mac + CbcBlock + 1)
MaxPlaintext(explicit, mac, size) ==
  LET start == 5 + IF explicit THEN CbcBlock ELSE 4 + FirstRecord(mac)
      len == RoundDown(size - start) - (1 + mac)
  IN  [start |-> start, len |-> IF len > MaxPlain THEN MaxPlain ELSE len]

(* cbc_encrypt for one record, without the split.  The IV of a record is   *)
(* made from its number, and encrypted like the rest.                      *)
Padding(p) == [i \in 1 .. p + 1 |-> p]
PadLength(n) == CbcBlock - (n % CbcBlock) - 1
RecordIV(h, seq) == ZeroPadded(HmacOut(h, HmacUpdate(h, MacInit(h), <<seq % 8>>)), CbcBlock)
RecordMac(h, seq, type, data) ==
  HmacOut(h, HmacUpdate(h, HmacUpdate(h, MacInit(h), MacHeader(seq, type, Len(data))), data))
Sealed(seq, type, r) == [c |-> [seq |-> seq + 1, iv |-> r.iv], record |-> [type |-> type, bytes |-> r.out]]
SealOne(c, explicit, h, type, data) ==
  Sealed(c.seq, type,
    RunEncrypt(c.iv, (IF explicit THEN RecordIV(h, c.seq) ELSE <<>>) \o data
                     \o RecordMac(h, c.seq, type, data) \o Padding(PadLength(Len(data) + h.hlen))))

(* Without explicit IVs one byte of application data goes first, in a      *)
(* record of its own before the plaintext's place.                         *)
Splits(explicit, type, data) == ~explicit /\ Len(data) > 1 /\ type = AppData
After(first, rest) == [c |-> rest.c, out |-> <<first.record, rest.record>>]
SealRest(first, h, type, data) == After(first, SealOne(first.c, FALSE, h, type, data))
Alone(r) == [c |-> r.c, out |-> <<r.record>>]
CbcEncrypt(c, explicit, h, type, data) ==
  IF Splits(explicit, type, data)
  THEN SealRest(SealOne(c, FALSE, h, type, Take(data, 1)), h, type, Drop(data, 1))
  ELSE Alone(SealOne(c, explicit, h, type, data))
(* What of the record is before the plaintext's place.                     *)
Before(explicit, h, type, data) ==
  IF Splits(explicit, type, data) THEN 5 + 4 + FirstRecord(h.hlen)
  ELSE 5 + IF explicit THEN CbcBlock ELSE 0

-----------------------------------------------------------------------------
CheckLength(explicit, mac, rlen) ==
  LET more == IF explicit THEN CbcBlock ELSE 0
  IN  /\ RoundDown(CbcBlock + mac) + more <= rlen
      /\ rlen <= RoundDown(MaxPlain + PadValues + mac) + more

(* cond_rotate, for each bit of the count from the highest.                *)
Rotated(s, count) ==
  Loop(3, s, LAMBDA t, i :
    LET rc == 2 ^ (3 - i)
    IN  IF (count \div rc) % 2 = 1 THEN [u \in 1 .. Len(t) |-> t[((u - 1 + rc) % Len(t)) + 1]] ELSE t)

(* cbc_decrypt behind the cipher: buf is the plaintext with its MAC and    *)
(* padding.  The lengths that follow from its own are public, those that   *)
(* follow from its last byte are not: the loops run over the public ones.  *)
MinLenLate(h, buf) ==        \* mutant: one value of the padding less
  IF h.hlen + PadValues < Len(buf) THEN Len(buf) - PadValues + 1 ELSE h.hlen
MinLen(h, buf) == IF h.hlen + PadValues < Len(buf) THEN Len(buf) - PadValues ELSE h.hlen
PaddingGood(buf, minLen, len, pad) ==
  \A u \in minLen .. Len(buf) - 2 : u < len \/ buf[u + 1] = pad

(* The bytes from plain to len, each in the slot that it meets.            *)
Extracted(buf, mac, from, plain) ==
  [i \in 1 .. mac |->
    LET here == {u \in from .. Len(buf) - 2 : plain <= u /\ u < plain + mac /\ (u - from) % mac = i - 1}
    IN  IF here = {} THEN 0 ELSE buf[(CHOOSE u \in here : TRUE) + 1]]
MacOfRecord(buf, mac, from, plain) ==
  Rotated(Extracted(buf, mac, from, plain),
          IF plain < Len(buf) - 1 THEN (plain - from) % mac ELSE 0)
MacMade(h, seq, type, buf, from, plain) ==
  HmacOutCT(h, HmacUpdate(h, MacInit(h), MacHeader(seq, type, plain)),
            Take(buf, Len(buf) - 1 - h.hlen), plain, from)

Unpadded(h, seq, type, buf, minLen, len, pad) ==
  [good |-> /\ pad <= Len(buf) - 1 - minLen
            /\ PaddingGood(buf, minLen, len, pad)
            /\ MacOfRecord(buf, h.hlen, minLen - h.hlen, len - h.hlen)
                 = MacMade(h, seq, type, buf, minLen - h.hlen, len - h.hlen)
            /\ len - h.hlen <= MaxPlain,
   data |-> Take(buf, len - h.hlen)]
Unpad(h, seq, type, buf, minLen, pad) ==
  Unpadded(h, seq, type, buf, minLen,
           IF pad <= Len(buf) - 1 - minLen THEN Len(buf) - 1 - pad ELSE minLen, pad)

Opened(c, iv, u) == [c |-> [seq |-> c.seq + 1, iv |-> iv], good |-> u.good, data |-> u.data]
Plaintext(explicit, out) == IF explicit THEN Drop(out, CbcBlock) ELSE out
UnpadAll(h, seq, type, buf) == Unpad(h, seq, type, buf, MinLen(h, buf), buf[Len(buf)])
CbcDecrypt(c, explicit, h, record) ==
  Opened(c, RunDecrypt(c.iv, record.bytes).iv,
         UnpadAll(h, c.seq, record.type, Plaintext(explicit, RunDecrypt(c.iv, record.bytes).out)))

-----------------------------------------------------------------------------
StartCbc(explicit, h, size) ==
  /\ cbc = NoCbc
  /\ LET c == [seq |-> 0, iv |-> IF explicit THEN Zeros(CbcBlock) ELSE Data(0, CbcBlock)]
     IN  cbc' = [phase |-> "open", explicit |-> explicit, h |-> h, size |-> size,
                 out |-> c, in |-> c, sealed |-> 0, wire |-> <<>>, good |-> TRUE,
                 sent |-> <<>>, got |-> <<>>, from |-> 0, to |-> 0]

Lengths(records) == FoldLeft(LAMBDA n, r : n + 5 + Len(r.bytes), 0, records)

(* The engine seals what it has put in the buffer: never more than its     *)
(* largest fragment, which leaves room for the most a record may add.      *)
SealCbc(type, n) ==
  /\ cbc.phase = "open" /\ cbc.sealed < MaxRecords /\ cbc.good
  /\ n <= MaxPlaintext(cbc.explicit, cbc.h.hlen, cbc.size).len /\ n + MaxOutOverhead <= cbc.size
  /\ \E data \in {Data(Len(cbc.sent), Len(cbc.sent) + n)} :
     \E r \in {CbcEncrypt(cbc.out, cbc.explicit, cbc.h, type, data)} :
     \E from \in {MaxPlaintext(cbc.explicit, cbc.h.hlen, cbc.size).start
                   - Before(cbc.explicit, cbc.h, type, data)} :
       cbc' = [cbc EXCEPT !.out = r.c, !.wire = @ \o r.out, !.sealed = @ + 1, !.sent = @ \o data,
                          !.from = from, !.to = from + Lengths(r.out)]

(* Another implementation: more padding than needed, or one byte of the    *)
(* plaintext, the MAC or the padding not what it should be (a lost or      *)
(* doubled record, another key).                                           *)
SealOther(n, more, flaw) ==
  /\ cbc.phase = "open" /\ cbc.sealed < MaxRecords /\ cbc.good
  /\ LET h == cbc.h
         data == Data(Len(cbc.sent), Len(cbc.sent) + n)
         p == CbcBlock - ((n + h.hlen) % CbcBlock) - 1 + more * CbcBlock
         at == n + h.hlen + p + 2 - flaw[1]
         iv == IF cbc.explicit THEN Data(n, n + CbcBlock) ELSE <<>>
     IN  /\ p < PadValues /\ at > 0
         /\ \E mac \in {HmacOf(h, MacKey, MacHeader(cbc.out.seq, AppData, n) \o data)} :
            \E plain \in {data \o mac \o Padding(p)} :
            \E wrong \in {[i \in 1 .. Len(plain) |-> (plain[i] + IF i = at THEN flaw[2] ELSE 0) % 8]} :
            \E r \in {RunEncrypt(cbc.out.iv, iv \o wrong)} :
              cbc' = [cbc EXCEPT !.out = [seq |-> cbc.out.seq + 1, iv |-> r.iv], !.sealed = @ + 1,
                                 !.sent = @ \o data, !.good = flaw[2] = 0 /\ n <= MaxPlain,
                                 !.wire = Append(@, [type |-> AppData, bytes |-> r.out])]

OpenCbc ==
  /\ cbc.phase = "open" /\ cbc.wire # <<>>
  /\ \E r \in {CbcDecrypt(cbc.in, cbc.explicit, cbc.h, Head(cbc.wire))} :
       cbc' = IF CheckLength(cbc.explicit, cbc.h.hlen, Len(Head(cbc.wire).bytes)) /\ r.good
                THEN [cbc EXCEPT !.in = r.c, !.wire = Tail(@), !.got = @ \o r.data]
                ELSE [cbc EXCEPT !.phase = "failed"]

CbcNext ==
  \/ \E explicit \in BOOLEAN, h \in Hashes, size \in BufSizes : StartCbc(explicit, h, size)
  \/ \E type \in {AppData, 6}, n \in PlainSizes : SealCbc(type, n)
  \/ \E n \in PlainSizes, more \in {0, 1}, flaw \in Flaws : SealOther(n, more, flaw)
  \/ OpenCbc

-----------------------------------------------------------------------------
(* The record as TLS defines it: the last byte is repeated as many times   *)
(* as it says, and what is before the MAC has this MAC.                    *)
RecordText(h, seq, type, data, p) ==
  data \o HmacOf(h, MacKey, MacHeader(seq, type, Len(data)) \o data) \o Padding(p)
Whole(h, seq, type, buf, p, n) ==
  IF 0 <= n /\ n <= MaxPlain /\ buf = RecordText(h, seq, type, Take(buf, n), p)
  THEN <<TRUE, Take(buf, n)>> ELSE <<FALSE>>
WholeOf(h, seq, type, buf) ==
  Whole(h, seq, type, buf, buf[Len(buf)], Len(buf) - (buf[Len(buf)] + 1) - h.hlen)
OpenOf(c, explicit, h, record) ==
  WholeOf(h, c.seq, record.type, Plaintext(explicit, RunDecrypt(c.iv, record.bytes).out))
Answer(r) == IF r.good THEN <<TRUE, r.data>> ELSE <<FALSE>>

(* Every record is opened to what it holds, and refused exactly when its   *)
(* padding or its MAC is wrong, whatever its length and the place of the   *)
(* padding; what one end seals the other opens, split or not; and a sealed *)
(* record stays inside the buffer (cbc_decrypt, cbc_encrypt,               *)
(* cbc_max_plaintext).                                                     *)
RecordOpened ==
  cbc.phase # "none" =>
  /\ 0 <= cbc.from /\ cbc.to <= cbc.size
  /\ cbc.good => cbc.phase = "open" /\ IsPrefix(cbc.got, cbc.sent)
                 /\ (cbc.wire = <<>> => cbc.got = cbc.sent)
  /\ cbc.wire # <<>> =>
       Answer(CbcDecrypt(cbc.in, cbc.explicit, cbc.h, Head(cbc.wire)))
         = OpenOf(cbc.in, cbc.explicit, cbc.h, Head(cbc.wire))
=============================================================================
