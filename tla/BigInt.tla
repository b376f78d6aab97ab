------------------------------- MODULE BigInt -------------------------------
(***************************************************************************)
(* The big integers of the library (src/int/i31_*.c): carry chains over    *)
(* words of W bits kept in slots of W + 1 bits, a header that encodes the  *)
(* bit length, and on top of them reduction, Montgomery multiplication,    *)
(* exponentiation and division.  In the code W = 31 and a byte has 8 bits; *)
(* here both shrink together, so that four bytes still fill a slot.        *)
(***************************************************************************)
EXTENDS Bytes

CONSTANTS W, B, MaxWindow

ASSUME BigIntAssumption ==
  /\ B \in Nat \ {0} /\ W + 1 = 4 * B
  /\ MaxWindow \in 1 .. B

Base == 2 ^ W
Slot == 2 ^ (W + 1)
Low(z) == z % Base                 \* & 0x7FFFFFFF
Carry(z) == (z % Slot) \div Base   \* >> 31 of a 32-bit value
Signed(z) == ((z + Slot * Base) % (2 * Slot * Base)) - Slot * Base
Bit(b) == IF b THEN 1 ELSE 0

Words(bits) == (bits + W) \div (W + 1)
BitLength(n) == CHOOSE k \in 0 .. W + 1 : n < 2 ^ k /\ (k = 0 \/ n >= 2 ^ (k - 1))

(* The carry chains: word i of the result is the low part of Z(i, cc).     *)
Chain(n, c, Z(_, _)) ==
  Loop(n, [w |-> <<>>, cc |-> c],
       LAMBDA s, i : LET z == Z(i, s.cc)
                     IN  [w |-> Append(s.w, Low(z)), cc |-> z \div Base])

-----------------------------------------------------------------------------
Zero(bits) == [bits |-> bits, w |-> [i \in 1 .. Words(bits) |-> 0]]

AddChain(a, b) == Chain(Words(a.bits), 0, LAMBDA i, cc : a.w[i] + b.w[i] + cc)
SubChain(a, b) == Chain(Words(a.bits), 0, LAMBDA i, cc : a.w[i] - b.w[i] + cc)
AddCarry(a, b) == AddChain(a, b).cc
SubBorrow(a, b) == -SubChain(a, b).cc
AddIf(a, b, ctl) == IF ctl THEN [a EXCEPT !.w = AddChain(a, b).w] ELSE a
SubIf(a, b, ctl) == IF ctl THEN [a EXCEPT !.w = SubChain(a, b).w] ELSE a

IsZero(x) == \A i \in 1 .. Words(x.bits) : x.w[i] = 0

(* The header of words: index of the last nonzero one, its bit length.     *)
HeaderOf(w) ==
  LET top == Loop(Len(w), [tw |-> 0, twk |-> 0], LAMBDA s, i :
               IF s.tw = 0 THEN [tw |-> w[Len(w) + 1 - i], twk |-> Len(w) - i] ELSE s)
  IN  top.twk * (W + 1) + BitLength(top.tw)

RightShift(x, count) ==
  LET n == Words(x.bits)
      word(i) == IF i < n THEN Low(x.w[i + 1] * 2 ^ (W - count)) ELSE 0
  IN  [x EXCEPT !.w = [i \in 1 .. n |-> word(i) + x.w[i] \div 2 ^ count]]

MulAcc(d, a, b) ==
  LET alen == Words(a.bits)
      dl == (a.bits % (W + 1)) + (b.bits % (W + 1))
      row(w, u) ==
        LET c == Chain(alen, 0, LAMBDA v, cc : w[u + v - 1] + b.w[u] * a.w[v] + cc)
        IN  SubSeq(w, 1, u - 1) \o c.w \o <<c.cc>>
  IN  [bits |-> (a.bits \div (W + 1) + b.bits \div (W + 1)) * (W + 1) + dl
                  + Bit(dl >= W),
       w |-> Loop(Words(b.bits), d.w, row)]

-----------------------------------------------------------------------------
(* br_divrem: hi:lo divided by d, one bit of the quotient at a time.       *)
LastBit(s, d) ==
  IF s.lo >= d \/ s.hi # 0 THEN [q |-> s.q + 1, r |-> (s.lo - d) % Slot]
  ELSE [q |-> s.q, r |-> s.lo]
DivRem(hi, lo, d) ==
  LET step(s, i) ==
        LET k == W + 1 - i
            w == (s.hi * 2 ^ i + s.lo \div 2 ^ k) % Slot
        IN  IF w >= d \/ s.hi \div 2 ^ k # 0
            THEN [hi |-> ((w - d) % Slot) \div 2 ^ i,
                  lo |-> (s.lo - d * 2 ^ k) % Slot, q |-> s.q + 2 ^ k]
            ELSE s
  IN  LastBit(Loop(W, [hi |-> IF hi = d THEN 0 ELSE hi, lo |-> lo, q |-> 0], step), d)

EstimateTooHigh(a0, a1, b0) ==     \* mutant: the quotient is not lowered
  IF a0 = b0 THEN Base - 1 ELSE DivRem(a0 \div 2, a1 + (a0 % 2) * Base, b0).q
(* The estimated quotient: at most one off, in either direction.           *)
Lowered(g) == IF g = 0 THEN 0 ELSE g - 1
Estimate(a0, a1, b0) ==
  IF a0 = b0 THEN Base - 1 ELSE Lowered(DivRem(a0 \div 2, a1 + (a0 % 2) * Base, b0).q)

(* The words of moved - q * m; the carry tells by how much q was wrong.    *)
SubProduct(moved, q, m) ==
  LET step(s, u) ==
        LET zl == m.w[u] * q + s.cc
            nxw == moved[u] - Low(zl)
        IN  [w |-> Append(s.w, Low(nxw)), cc |-> zl \div Base + Carry(nxw),
             tb |-> IF Low(nxw) = m.w[u] THEN s.tb ELSE Low(nxw) > m.w[u]]
  IN  Loop(Len(moved), [w |-> <<>>, cc |-> 0, tb |-> TRUE], step)
Corrected(s, x, m) ==
  LET hi == x.w[Words(m.bits)]
      over == s.cc > hi
  IN  SubIf(AddIf([x EXCEPT !.w = s.w], m, over), m, ~over /\ (s.tb \/ s.cc < hi))

(* x * 2^W + z modulo m.                                                   *)
MulAddSmall(x, z, m) ==
  LET n == Words(m.bits)
      mblr == m.bits % (W + 1)
      high(w) == IF mblr = 0 THEN w[n]
                 ELSE Low(w[n] * 2 ^ (W - mblr) + w[n - 1] \div 2 ^ mblr)
      moved == <<z>> \o SubSeq(x.w, 1, n - 1)
  IN  IF m.bits = 0 THEN x
      ELSE IF m.bits <= W
      THEN [x EXCEPT !.w[1] = DivRem(@ \div 2, (@ % 2) * Base + z, m.w[1]).r]
      ELSE Corrected(SubProduct(moved, Estimate(high(x.w), high(moved), high(m.w)), m), x, m)

Reduce(a, m) ==
  LET mlen == Words(m.bits)
      alen == Words(a.bits)
      top == [bits |-> m.bits,
              w |-> SubSeq(a.w, alen - mlen + 2, alen) \o <<0>>]
  IN  IF m.bits = 0 THEN Zero(0)
      ELSE IF a.bits < m.bits
      THEN [bits |-> m.bits, w |-> [i \in 1 .. mlen |-> IF i <= alen THEN a.w[i] ELSE 0]]
      ELSE Loop(alen - mlen + 1, top,
                LAMBDA x, i : MulAddSmall(x, a.w[alen - mlen + 2 - i], m))
=============================================================================
