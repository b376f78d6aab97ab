---------------------------- MODULE AeadStream ----------------------------
(* EAX, which may not process a block before it knows whether it is the    *)
(* last, and the calls to the three modes as a state machine.              *)
EXTENDS Aead

(* Bytes have three bits, so the polynomial is cut to them.                *)
Double(block) ==
  LET cc == IF block[1] >= 4 THEN 3 ELSE 0
      z(i) == ((block[i] * 2) % 8) + IF i < BS /\ block[i + 1] >= 4 THEN 1 ELSE 0
  IN  [i \in 1 .. BS |-> IF i = BS THEN XorTable[(block[i] * 2) % 8, cc] ELSE z(i)]
L2 == Double(Cipher(Zeros(BS)))
L4 == Double(L2)

FirstBlock(val) == Put(Zeros(BS), BS - 1, <<val>>)
OmacStart(c, val) == [c EXCEPT !.mac = Zeros(BS), !.buf = FirstBlock(val), !.ptr = BS]

DoPadAlike(c) ==       \* mutant: a full last block is padded with L4 as well
  [c EXCEPT !.mac = CbcMac(@, XorBytes(IF c.ptr = BS THEN c.buf
                                       ELSE Put(Zeros(BS), 0, Take(c.buf, c.ptr) \o <<4>>), L4))]
DoPad(c) ==
  LET last == IF c.ptr = BS THEN XorBytes(c.buf, L2)
              ELSE XorBytes(Put(Zeros(BS), 0, Take(c.buf, c.ptr) \o <<4>>), L4)
  IN  [c EXCEPT !.mac = CbcMac(@, last)]

(* The last block of data stays in buf.                                    *)
LastPart(len) == IF len % BS = 0 THEN BS ELSE len % BS
DoCbcMacChunk(c, data) ==
  LET ptr == LastPart(Len(data))
      mac == IF c.ptr = BS THEN CbcMac(c.mac, c.buf) ELSE c.mac
  IN  IF data = <<>> THEN c
      ELSE [c EXCEPT !.mac = CbcMac(mac, Take(data, Len(data) - ptr)),
                     !.buf = Put(@, 0, Drop(data, Len(data) - ptr)), !.ptr = ptr]

EaxZero == [mac |-> Zeros(BS), buf |-> Zeros(BS), ptr |-> 0, nonce |-> Zeros(BS),
            head |-> Zeros(BS), ctr |-> Zeros(BS), captured |-> FALSE]
(* What br_eax_capture keeps: the states after the three first blocks.     *)
Capture(val) == CbcMac(Zeros(BS), FirstBlock(val))

EaxNonce(start, nonce) ==
  LET c == DoPad(DoCbcMacChunk(start, nonce)) IN [c EXCEPT !.nonce = c.mac]
EaxReset(nonce) == OmacStart(EaxNonce(OmacStart(EaxZero, 0), nonce), 1)
EaxFromCapture(nonce) ==
  EaxNonce(IF nonce = <<>> THEN OmacStart(EaxZero, 0)
           ELSE [EaxZero EXCEPT !.mac = Capture(0)], nonce)
EaxResetPreAad(nonce) ==
  [EaxFromCapture(nonce) EXCEPT !.mac = Capture(1), !.ptr = 0, !.ctr = Capture(2),
                                !.captured = TRUE]
EaxResetPostAad(nonce, head) ==
  LET c == EaxFromCapture(nonce)
  IN  [c EXCEPT !.ctr = c.nonce, !.head = head, !.mac = Capture(2), !.ptr = 0]

(* A block completed here reaches DoCbcMacChunk with the old ptr.          *)
EaxInject(c, data) ==
  LET clen == BS - c.ptr
  IN  IF c.ptr = BS THEN DoCbcMacChunk(c, data)
      ELSE IF Len(data) <= clen
      THEN [c EXCEPT !.buf = Put(@, c.ptr, data), !.ptr = @ + Len(data)]
      ELSE DoCbcMacChunk([c EXCEPT !.buf = Put(@, c.ptr, Take(data, clen))],
                         Drop(data, clen))

EaxFlip(c) ==
  LET p == DoPad(c)
      h == [p EXCEPT !.head = p.mac, !.ctr = p.nonce]
  IN  IF c.captured THEN [h EXCEPT !.mac = c.ctr, !.ptr = 0] ELSE OmacStart(h, 2)

EaxRun(c, data, encrypt) ==
  LET partial == c.ptr \notin {0, BS}
      clen == IF Len(data) <= BS - c.ptr THEN Len(data) ELSE BS - c.ptr
      first == Streamed(c.buf, c.ptr, Take(data, clen), "cipher", encrypt)
      rest == IF partial THEN Drop(data, clen) ELSE data
      ptr == LastPart(Len(rest))
      full == Ctr("eax", c.ctr, Take(rest, Len(rest) - ptr))
      held == IF partial THEN first.buf ELSE c.buf
      mac == CbcMac(IF c.ptr = 0 THEN c.mac ELSE CbcMac(c.mac, held),
                    IF encrypt THEN full.out ELSE Take(rest, Len(rest) - ptr))
      fresh == Ctr("eax", full.ctr, Zeros(BS))
      last == Streamed(fresh.out, 0, Drop(rest, Len(rest) - ptr), "cipher", encrypt)
  IN  IF data = <<>> THEN [c |-> c, out |-> <<>>]
      ELSE IF partial /\ Len(data) <= clen
      THEN [c |-> [c EXCEPT !.buf = first.buf, !.ptr = @ + clen], out |-> first.out]
      ELSE [c |-> [c EXCEPT !.mac = mac, !.ctr = fresh.ctr, !.buf = last.buf, !.ptr = ptr],
            out |-> (IF partial THEN first.out ELSE <<>>) \o full.out \o last.out]

EaxTag(c) == XorBytes(DoPad(c).mac, XorBytes(c.nonce, c.head))

-----------------------------------------------------------------------------
(* What the modes are, on whole strings.                                   *)
Omac(val, data) ==
  LET all == FirstBlock(val) \o data
      full == Len(all) % BS = 0
      head == Len(all) - LastPart(Len(all))
      last == ZeroPadded(Drop(all, head) \o (IF full THEN <<>> ELSE <<4>>), BS)
  IN  CbcMac(Zeros(BS), Take(all, head) \o XorBytes(last, IF full THEN L2 ELSE L4))

FirstCounter(s) ==
  CASE s.mode = "gcm" -> NextCounter("gcm", GcmReset(s.nonce).j0)
    [] s.mode = "ccm" -> Increment(<<BS - 2 - Len(s.nonce)>> \o s.nonce \o Zeros(BS - 1 - Len(s.nonce)))
    [] OTHER -> Omac(0, s.nonce)
Crypt(s, msg) == Ctr(s.mode, FirstCounter(s), msg).out

TagOf(s, aad, plain) ==
  LET sealed == Crypt(s, plain)
      r == CcmReset(s.nonce, Len(aad), Len(plain))
  IN  CASE s.mode = "gcm" ->
             XorBytes(Ghash(Zeros(BS), ZeroPadded(aad, BS) \o ZeroPadded(sealed, BS)
                                         \o LengthBlock(Len(aad), Len(sealed))),
                      Cipher(GcmReset(s.nonce).j0))
        [] s.mode = "ccm" ->
             XorBytes(CbcMac(r.mac, ZeroPadded(Take(r.buf, r.ptr) \o aad, BS)
                                      \o ZeroPadded(plain, BS)), r.mask)
        [] OTHER -> XorBytes(Omac(0, s.nonce), XorBytes(Omac(1, aad), Omac(2, sealed)))

-----------------------------------------------------------------------------
Aad(n) == [i \in 1 .. n |-> (5 * i + 1) % 8]
Message(n) == [i \in 1 .. n |-> (3 * i * i + 2) % 8]

NoAead == [mode |-> "none"]
AeadInit == aead = NoAead

(* A computation is asked for, within what the mode supports.              *)
Begin(mode, encrypt, nonce, alen, mlen) ==
  LET c == CASE mode = "gcm" -> GcmReset(nonce)
             [] mode = "ccm" -> CcmReset(nonce, alen, mlen)
             [] mode = "eax" -> EaxReset(nonce)
             [] mode = "eax_pre" -> EaxResetPreAad(nonce)
             [] OTHER -> EaxResetPostAad(nonce, EaxFlip(EaxInject(EaxReset(<<1>>), Aad(alen))).head)
      s == [mode |-> mode, nonce |-> nonce]
  IN  /\ aead = NoAead
      /\ mode = "ccm" => CcmFits(nonce, mlen)
      /\ mode = "eax_pre" => alen > 0 /\ mlen > 0
      /\ mode = "eax_post" => mlen > 0
      /\ aead' = [mode |-> mode, encrypt |-> encrypt, nonce |-> nonce, c |-> c,
                  phase |-> IF mode = "eax_post" THEN "run" ELSE "aad",
                  aad |-> Aad(alen), msg |-> Message(mlen), tag |-> <<>>,
                  in |-> IF encrypt THEN Message(mlen) ELSE Crypt(s, Message(mlen)),
                  given |-> IF mode = "eax_post" THEN alen ELSE 0, out |-> <<>>]

Inject(n) ==
  LET data == SubSeq(aead.aad, aead.given + 1, aead.given + n)
      whole == EaxAnyPiece \/ aead.c.ptr = BS \/ n <= BS - aead.c.ptr
  IN  /\ aead.mode # "none" /\ aead.phase = "aad" /\ aead.given + n <= Len(aead.aad)
      /\ aead.mode \in {"eax", "eax_pre"} => whole
      /\ aead' = [aead EXCEPT !.given = @ + n,
                   !.c = CASE aead.mode = "gcm" -> GcmInject(@, data)
                           [] aead.mode = "ccm" -> CcmInject(@, data)
                           [] OTHER -> EaxInject(@, data)]

Flip ==
  /\ aead.mode # "none" /\ aead.phase = "aad" /\ aead.given = Len(aead.aad)
  /\ aead' = [aead EXCEPT !.phase = "run",
               !.c = CASE aead.mode = "gcm" -> GcmFlip(@)
                       [] aead.mode = "ccm" -> CcmFlip(@)
                       [] OTHER -> EaxFlip(@)]

Run(n) ==
  LET data == SubSeq(aead.in, Len(aead.out) + 1, Len(aead.out) + n)
      r == CASE aead.mode = "gcm" -> GcmRun(aead.c, data, aead.encrypt)
             [] aead.mode = "ccm" -> CcmRun(aead.c, data, aead.encrypt)
             [] OTHER -> EaxRun(aead.c, data, aead.encrypt)
  IN  /\ aead.mode # "none" /\ aead.phase = "run" /\ Len(aead.out) + n <= Len(aead.in)
      /\ aead' = [aead EXCEPT !.c = r.c, !.out = @ \o r.out]

GetTag ==
  /\ aead.mode # "none" /\ aead.phase = "run" /\ Len(aead.out) = Len(aead.in)
  /\ aead' = [aead EXCEPT !.phase = "done",
               !.tag = CASE aead.mode = "gcm" -> GcmTag(aead.c)
                         [] aead.mode = "ccm" -> CcmTag(aead.c)
                         [] OTHER -> EaxTag(aead.c)]

AeadNext ==
  \/ \E mode \in Modes, encrypt \in BOOLEAN, alen \in Sizes, mlen \in Sizes :
       \E nonce \in (IF mode = "ccm" THEN CcmNonces ELSE Nonces) :
         Begin(mode, encrypt, nonce, alen, mlen)
  \/ \E n \in Pieces : Inject(n) \/ Run(n)
  \/ Flip
  \/ GetTag
AeadSpec == AeadInit /\ [][AeadNext]_aead

(* What a computation gives depends on the nonce, the data and the message *)
(* and never on the lengths of the calls: the bytes that came out are the  *)
(* first ones of the message sealed, or opened again, and the tag is that  *)
(* of the mode (gcm.c, ccm.c and eax.c keep bytes between calls).          *)
AeadIgnoresPieces ==
  aead.mode # "none" =>
    /\ aead.out = Take(IF aead.encrypt THEN Crypt(aead, aead.msg) ELSE aead.msg, Len(aead.out))
    /\ aead.phase = "done" => aead.tag = TagOf(aead, aead.aad, aead.msg)
=============================================================================
