------------------------------ MODULE Streams ------------------------------
(***************************************************************************)
(* What hashes a string in calls of any length: the hash functions with    *)
(* their padding (the update and out of src/hash/sha2small.c, the others   *)
(* are alike), several of them at once (multihash.c), HMAC and its variant *)
(* that hides the length (src/mac), HKDF and SHAKE (src/kdf).  A hash      *)
(* function is a record: bs bytes of a block, lb of the length in it, hlen *)
(* of the output, and the initial state iv.                                *)
(***************************************************************************)
EXTENDS Bytes

CONSTANTS
  Hashes,            \* the hash functions
  Compress(_, _, _), \* one block into the state of one of them
  MultiBlock,        \* bytes of multihash's buffer
  Rate, Permute(_),  \* SHAKE
  MaxChunks,         \* the number of the chunk HKDF refuses
  KeySizes, StreamSizes, StreamPieces, OutSizes

ASSUME StreamsAssumption ==
  /\ \A h \in Hashes : MultiBlock % h.bs = 0 /\ h.lb < h.bs /\ h.hlen = Len(h.iv)
  /\ Rate > 1 /\ MaxChunks > 1

VARIABLE
  stream   \* the computation: its kind, what was given, its context and its output

Least(a, b) == IF a < b THEN a ELSE b
Data(from, to) == [i \in 1 .. to - from |-> (3 * (i + from) * (i + from) + i + from) % 8]

-----------------------------------------------------------------------------
(* update: pieces go to buf, and a full buf into the state.                *)
Fill(ptr, buf, bs, data, s, Full(_, _)) ==
  Loop((ptr + Len(data) + bs - 1) \div bs, [s |-> s, buf |-> buf, ptr |-> ptr, at |-> 0],
    LAMBDA l, i :
      LET clen == Least(bs - l.ptr, Len(data) - l.at)
          b == Put(l.buf, l.ptr, SubSeq(data, l.at + 1, l.at + clen))
          full == l.ptr + clen = bs
      IN  [s |-> IF full THEN Full(l.s, b) ELSE l.s, buf |-> b,
           ptr |-> (l.ptr + clen) % bs, at |-> l.at + clen])

HashInit(h) == [val |-> h.iv, buf |-> Zeros(h.bs), count |-> 0]
SetState(h, val, count) == [val |-> val, buf |-> Zeros(h.bs), count |-> count]
HashUpdate(h, c, data) ==
  LET l == Fill(c.count % h.bs, c.buf, h.bs, data, c.val, LAMBDA v, b : Compress(h, v, b))
  IN  [val |-> l.s, buf |-> l.buf, count |-> c.count + Len(data)]

(* The number of bits, in the last two bytes of the block.                 *)
BitLen(n) == <<(n * 3) \div 8, (n * 3) % 8>>
HashOut(h, c) ==
  LET ptr == (c.count % h.bs) + 1
      held == Append(Take(c.buf, ptr - 1), 4)
      limit == h.bs - h.lb
      val == IF ptr > limit THEN Compress(h, c.val, held \o Zeros(h.bs - ptr)) ELSE c.val
      start == IF ptr > limit THEN Zeros(limit) ELSE held \o Zeros(limit - ptr)
  IN  Compress(h, val, start \o Zeros(h.lb - 2) \o BitLen(c.count))

-----------------------------------------------------------------------------
(* Several hash functions behind one buffer.                               *)
MultiInit == [val |-> [h \in Hashes |-> h.iv], buf |-> Zeros(MultiBlock), count |-> 0]
MultiUpdate(c, data) ==
  LET ptr == c.count % MultiBlock
      start == c.count - ptr
      full(s, b) == [start |-> s.start + MultiBlock,
                     val |-> [h \in Hashes |->
                       HashUpdate(h, SetState(h, s.val[h], s.start), b).val]]
      l == Fill(ptr, c.buf, MultiBlock, data, [start |-> start, val |-> c.val], full)
  IN  [val |-> l.s.val, buf |-> l.buf, count |-> c.count + Len(data)]
MultiOut(c, h) ==
  LET ptr == c.count % MultiBlock
  IN  HashOut(h, HashUpdate(h, SetState(h, c.val[h], c.count - ptr), Take(c.buf, ptr)))

-----------------------------------------------------------------------------
(* HMAC.  The pads 0x36 and 0x5C are 3 and 5.                              *)
ProcessKey(h, key, bb) ==
  LET tmp == [i \in 1 .. Len(key) |-> XorTable[key[i], bb]]
             \o [i \in 1 .. h.bs - Len(key) |-> bb]
  IN  HashUpdate(h, HashInit(h), tmp).val
KeyInit(h, key) ==
  LET k == IF Len(key) > h.bs THEN HashOut(h, HashUpdate(h, HashInit(h), key)) ELSE key
  IN  [ksi |-> ProcessKey(h, k, 3), kso |-> ProcessKey(h, k, 5)]
HmacInit(h, kc, outLen) ==
  [dig |-> SetState(h, kc.ksi, h.bs), kso |-> kc.kso,
   outLen |-> IF outLen > 0 THEN Least(outLen, h.hlen) ELSE h.hlen]
HmacUpdate(h, c, data) == [c EXCEPT !.dig = HashUpdate(h, @, data)]
Outer(h, c, inner) ==
  Take(HashOut(h, HashUpdate(h, SetState(h, c.kso, h.bs), inner)), c.outLen)
HmacOut(h, c) == Outer(h, c, HashOut(h, c.dig))

(* br_hmac_outCT: len bytes of data, which are between minLen and all of   *)
(* them, are hashed last; the padding is made here, and the state kept is  *)
(* the one at the end of the block kz.                                     *)
LastByteEarly(kr, len, h) ==     \* mutant: the byte 0x80 is not counted
  ((kr + len + h.lb + h.bs - 1) \div h.bs) * h.bs - 1 - kr
LastByte(kr, len, h) == ((kr + len + h.lb + 1 + h.bs - 1) \div h.bs) * h.bs - 1 - kr
HmacOutCT(h, c, data, len, minLen) ==
  LET known == ((c.dig.count + minLen) \div h.bs) * h.bs
      zlen == IF known > c.dig.count THEN known - c.dig.count ELSE 0
      dig == HashUpdate(h, c.dig, Take(data, zlen))
      l == len - zlen
      maxLen == Len(data) - zlen
      kr == dig.count % h.bs
      kz == LastByte(kr, l, h)
      kl == kz - 1
      bits == BitLen(c.dig.count + len)
      step(s, i) ==
        LET u == i - 1
            v == (kr + u) % h.bs
            d == IF u < maxLen THEN data[zlen + i] ELSE 0
            e == IF v >= h.bs - 2 THEN bits[v - (h.bs - 2) + 1] ELSE 0
            x == IF u < l THEN d ELSE IF u = l THEN 4 ELSE IF u < kl THEN 0 ELSE e
            g == HashUpdate(h, s.dig, <<x>>)
        IN  [dig |-> g, inner |-> IF v = h.bs - 1 /\ u = kz THEN g.val ELSE s.inner]
      s == Loop(LastByte(kr, maxLen, h) + 1, [dig |-> dig, inner |-> Zeros(h.hlen)], step)
  IN  Outer(h, c, s.inner)

-----------------------------------------------------------------------------
(* HKDF.  br_hkdf_produce gives less than was asked when it comes to the   *)
(* chunk that has no number.                                               *)
HkdfInit(h, salt) == HmacInit(h, KeyInit(h, salt), 0)
HkdfFlip(h, c) ==
  [prk |-> KeyInit(h, HmacOut(h, c)), buf |-> <<>>, ptr |-> h.hlen, chunk |-> 0]
HkdfChunk(h, c, info, x) ==
  HmacOut(h, HmacUpdate(h, HmacInit(h, c.prk, 0), (IF x # 1 THEN c.buf ELSE <<>>) \o info \o <<x>>))
HkdfProduce(h, c, info, len) ==
  Loop((c.ptr + len) \div h.hlen + 1, [c |-> c, out |-> <<>>, short |-> FALSE],
    LAMBDA s, i :
      LET next == s.c.ptr = h.hlen
          chunk == s.c.chunk + 1
          d == IF next THEN [s.c EXCEPT !.chunk = chunk, !.ptr = 0,
                                        !.buf = HkdfChunk(h, s.c, info, chunk % MaxChunks)]
               ELSE s.c
          clen == Least(h.hlen - d.ptr, len - Len(s.out))
      IN  IF s.short \/ Len(s.out) = len THEN s
          ELSE IF next /\ chunk = MaxChunks THEN [s EXCEPT !.c.chunk = chunk, !.short = TRUE]
          ELSE [c |-> [d EXCEPT !.ptr = @ + clen], short |-> FALSE,
                out |-> s.out \o SubSeq(d.buf, d.ptr + 1, d.ptr + clen)])

-----------------------------------------------------------------------------
(* SHAKE, its state taken as Rate bytes and a capacity; 1F, 80 and 9F are  *)
(* 1, 4 and 5.                                                             *)
ShakeInit == [a |-> Zeros(Rate + 2), dbuf |-> Zeros(Rate), dptr |-> 0]
XorBlock(a, b) == XorBytes(Take(a, Rate), b) \o Drop(a, Rate)
ShakeInject(c, data) ==
  LET l == Fill(c.dptr, c.dbuf, Rate, data, c.a, LAMBDA a, b : Permute(XorBlock(a, b)))
  IN  [a |-> l.s, dbuf |-> l.buf, dptr |-> l.ptr]
ShakeFlip(c) ==
  LET dbuf == IF c.dptr + 1 = Rate THEN Put(c.dbuf, c.dptr, <<5>>)
              ELSE Put(c.dbuf, c.dptr, <<1>> \o Zeros(Rate - c.dptr - 2) \o <<4>>)
  IN  [a |-> XorBlock(c.a, dbuf), dbuf |-> dbuf, dptr |-> Rate]
ShakeProduce(c, len) ==
  Loop((c.dptr + len) \div Rate + 1, [c |-> c, out |-> <<>>],
    LAMBDA s, i :
      LET a == Permute(s.c.a)
          d == IF s.c.dptr = Rate THEN [a |-> a, dbuf |-> Take(a, Rate), dptr |-> 0] ELSE s.c
          clen == Least(Rate - d.dptr, len - Len(s.out))
      IN  IF Len(s.out) = len THEN s
          ELSE [c |-> [d EXCEPT !.dptr = @ + clen],
                out |-> s.out \o SubSeq(d.dbuf, d.dptr + 1, d.dptr + clen)])
=============================================================================
