-------------------------------- MODULE Aead --------------------------------
(***************************************************************************)
(* GCM, CCM and EAX (src/aead): a nonce, associated data in calls of any   *)
(* length, flip, a message in calls of any length, encrypted or decrypted  *)
(* in place, and the tag.  The block functions are parameters.  Each       *)
(* context keeps one block of unprocessed or half-used bytes, and what the *)
(* calls compute must not depend on where they are cut.                    *)
(***************************************************************************)
EXTENDS Bytes

CONSTANTS
  BS,           \* bytes of a block
  Cipher(_),    \* the block cipher under the key
  GhashStep(_, _),  \* one block into GHASH
  Nonces,       \* nonces of GCM and EAX
  CcmNonces,    \* nonces of CCM: they leave the counter one byte or two
  Sizes,        \* how much associated data, and how long a message
  Pieces,       \* how much one call is given
  Modes,
  EaxAnyPiece   \* whether EAX takes associated data in calls of any length

ASSUME AeadAssumption ==
  /\ BS \in Nat \ {0, 1, 2} /\ Sizes \subseteq Nat /\ Pieces \subseteq Nat
  /\ Modes \subseteq {"gcm", "ccm", "eax", "eax_pre", "eax_post"}
  /\ EaxAnyPiece \in BOOLEAN
  /\ \A n \in CcmNonces : Len(n) \in {BS - 3, BS - 2}

VARIABLE
  aead   \* the computation: what was asked for and given, its context, its results

-----------------------------------------------------------------------------
(* The counter is the last byte of GCM's block, all of the block otherwise. *)
Increment(block) ==
  LET i == CHOOSE i \in 1 .. BS : (i = 1 \/ block[i] # 7) /\ \A j \in i + 1 .. BS : block[j] = 7
  IN  [j \in 1 .. BS |-> IF j > i THEN 0 ELSE IF j = i THEN (block[j] + 1) % 8 ELSE block[j]]
NextCounter(mode, block) ==
  IF mode = "gcm" THEN [block EXCEPT ![BS] = (@ + 1) % 8] ELSE Increment(block)

(* CTR over data; and CBC-MAC over whole blocks.                           *)
Ctr(mode, ctr, data) ==
  Loop((Len(data) + BS - 1) \div BS, [ctr |-> ctr, out |-> <<>>],
       LAMBDA s, i : [ctr |-> NextCounter(mode, s.ctr),
                      out |-> s.out \o XorBytes(Block(data, BS, i), Cipher(s.ctr))])
CbcMac(mac, data) ==
  Loop(Len(data) \div BS, mac, LAMBDA y, i : Cipher(XorBytes(Block(data, BS, i), y)))
(* GHASH pads the last block with zeros.                                   *)
Ghash(y, data) ==
  Loop((Len(data) + BS - 1) \div BS, y,
       LAMBDA z, i : GhashStep(z, ZeroPadded(Block(data, BS, i), BS)))
LengthBlock(a, c) == Zeros(BS - 4) \o <<a \div 8, a % 8, c \div 8, c % 8>>

(* Bytes of a block against what is left of the stream: buf keeps the      *)
(* encrypted bytes (GCM, EAX) or the plain ones (CCM).                     *)
Streamed(buf, ptr, data, kept, encrypt) ==
  LET out == XorBytes(data, SubSeq(buf, ptr + 1, ptr + Len(data)))
      same == (kept = "cipher") = encrypt
  IN  [out |-> out, buf |-> Put(buf, ptr, IF same THEN out ELSE data)]

-----------------------------------------------------------------------------
(* GCM                                                                     *)
GcmReset(nonce) ==
  LET ty == Ghash(Ghash(Zeros(BS), nonce), LengthBlock(0, Len(nonce)))
      j0 == IF Len(nonce) = BS - 1 THEN nonce \o <<1>> ELSE ty
  IN  [j0 |-> j0, ctr |-> NextCounter("gcm", j0), y |-> Zeros(BS), buf |-> Zeros(BS),
       aad |-> 0, msg |-> 0]

GcmInject(c, data) ==
  LET ptr == c.aad % BS
      clen == BS - ptr
      rest == IF ptr = 0 THEN data ELSE Drop(data, clen)
      dlen == Len(rest) - (Len(rest) % BS)
      y == IF ptr = 0 THEN c.y ELSE Ghash(c.y, Put(c.buf, ptr, Take(data, clen)))
  IN  IF ptr # 0 /\ Len(data) < clen
      THEN [c EXCEPT !.buf = Put(@, ptr, data), !.aad = @ + Len(data)]
      ELSE [c EXCEPT !.y = Ghash(y, Take(rest, dlen)), !.buf = Put(@, 0, Drop(rest, dlen)),
                     !.aad = @ + Len(data)]

GcmFlip(c) ==
  IF c.aad % BS = 0 THEN c ELSE [c EXCEPT !.y = Ghash(@, Take(c.buf, c.aad % BS))]

GcmRun(c, data, encrypt) ==
  LET ptr == c.msg % BS
      clen == IF Len(data) < BS - ptr THEN Len(data) ELSE BS - ptr
      first == Streamed(c.buf, ptr, Take(data, clen), "cipher", encrypt)
      rest == IF ptr = 0 THEN data ELSE Drop(data, clen)
      dlen == Len(rest) - (Len(rest) % BS)
      full == Ctr("gcm", c.ctr, Take(rest, dlen))
      y == Ghash(IF ptr = 0 THEN c.y ELSE Ghash(c.y, first.buf),
                 IF encrypt THEN full.out ELSE Take(rest, dlen))
      fresh == Ctr("gcm", full.ctr, Zeros(BS))
      last == Streamed(fresh.out, 0, Drop(rest, dlen), "cipher", encrypt)
      done == [c EXCEPT !.msg = @ + Len(data)]
      head == IF ptr = 0 THEN <<>> ELSE first.out
  IN  IF ptr # 0 /\ ptr + clen < BS
      THEN [c |-> [done EXCEPT !.buf = first.buf], out |-> head]
      ELSE IF dlen = Len(rest)
      THEN [c |-> [done EXCEPT !.buf = IF ptr = 0 THEN @ ELSE first.buf,
                               !.y = y, !.ctr = full.ctr],
            out |-> head \o full.out]
      ELSE [c |-> [done EXCEPT !.buf = last.buf, !.y = y, !.ctr = fresh.ctr],
            out |-> head \o full.out \o last.out]

GcmTag(c) ==
  LET y == IF c.msg % BS = 0 THEN c.y ELSE Ghash(c.y, Take(c.buf, c.msg % BS))
  IN  XorBytes(Ghash(y, LengthBlock(c.aad, c.msg)), Cipher(c.j0))

-----------------------------------------------------------------------------
(* CCM: the lengths are part of the first block.  The tag has BS bytes.    *)
CcmReset(nonce, alen, mlen) ==
  LET q == BS - 1 - Len(nonce)
      flags == (IF alen > 0 THEN 4 ELSE 0) + (q - 1)
      length == IF q = 1 THEN <<mlen % 8>> ELSE <<mlen \div 8, mlen % 8>>
      header == IF alen > 0 THEN <<alen \div 8, alen % 8>> ELSE <<>>
      first == Ctr("ccm", <<q - 1>> \o nonce \o Zeros(q), Zeros(BS))
  IN  [mac |-> CbcMac(Zeros(BS), <<flags>> \o nonce \o length),
       buf |-> Put(Zeros(BS), 0, header), ptr |-> Len(header),
       ctr |-> first.ctr, mask |-> first.out]
CcmFits(nonce, mlen) == Len(nonce) = BS - 2 => mlen < 8

CcmInject(c, data) ==
  LET clen == BS - c.ptr
      rest == IF c.ptr = 0 THEN data ELSE Drop(data, clen)
      ptr == Len(rest) % BS
      mac == IF c.ptr = 0 THEN c.mac ELSE CbcMac(c.mac, Put(c.buf, c.ptr, Take(data, clen)))
  IN  IF c.ptr # 0 /\ clen > Len(data)
      THEN [c EXCEPT !.buf = Put(@, c.ptr, data), !.ptr = @ + Len(data)]
      ELSE [c EXCEPT !.mac = CbcMac(mac, Take(rest, Len(rest) - ptr)),
                     !.buf = Put(@, 0, Drop(rest, Len(rest) - ptr)), !.ptr = ptr]

CcmPadded(c) ==
  IF c.ptr = 0 THEN c.mac ELSE CbcMac(c.mac, Take(c.buf, c.ptr) \o Zeros(BS - c.ptr))
CcmFlipKeeps(c) == [c EXCEPT !.mac = CcmPadded(c)]   \* mutant: ptr is not reset
CcmFlip(c) == [c EXCEPT !.mac = CcmPadded(c), !.ptr = 0]

CcmRun(c, data, encrypt) ==
  LET clen == IF BS - c.ptr > Len(data) THEN Len(data) ELSE BS - c.ptr
      first == Streamed(c.buf, c.ptr, Take(data, clen), "plain", encrypt)
      rest == IF c.ptr = 0 THEN data ELSE Drop(data, clen)
      ptr == Len(rest) % BS
      full == Ctr("ccm", c.ctr, Take(rest, Len(rest) - ptr))
      mac == CbcMac(IF c.ptr = 0 THEN c.mac ELSE CbcMac(c.mac, first.buf),
                    IF encrypt THEN Take(rest, Len(rest) - ptr) ELSE full.out)
      fresh == Ctr("ccm", full.ctr, Zeros(BS))
      last == Streamed(fresh.out, 0, Drop(rest, Len(rest) - ptr), "plain", encrypt)
      head == IF c.ptr = 0 THEN <<>> ELSE first.out
  IN  IF c.ptr # 0 /\ c.ptr + clen < BS
      THEN [c |-> [c EXCEPT !.buf = first.buf, !.ptr = @ + clen], out |-> head]
      ELSE IF ptr = 0
      THEN [c |-> [c EXCEPT !.ptr = 0, !.mac = mac, !.ctr = full.ctr],
            out |-> head \o full.out]
      ELSE [c |-> [c EXCEPT !.ptr = ptr, !.mac = mac, !.ctr = fresh.ctr, !.buf = last.buf],
            out |-> head \o full.out \o last.out]

CcmTag(c) == XorBytes(CcmPadded(c), c.mask)
=============================================================================
