----------------------------- MODULE BigIntMod -----------------------------
(***************************************************************************)
(* Big integers, continued: bytes to words and back, Montgomery products,  *)
(* exponentiation with a window, and division by an extended binary GCD    *)
(* that decides on the top words of its operands only.                     *)
(***************************************************************************)
EXTENDS BigInt

-----------------------------------------------------------------------------
(* n bytes, byte(1) the lowest, as words; the bits that fill no word stay  *)
(* in acc.  An accumulator of one slot loses bits that it takes again from *)
(* the byte itself.                                                        *)
Unpack(n, byte(_)) ==
  Loop(n, [w |-> <<>>, acc |-> 0, len |-> 0],
       LAMBDA s, i :
         LET acc == (s.acc + byte(i) * 2 ^ s.len) % Slot
             len == s.len + B
         IN  IF len < W THEN [s EXCEPT !.acc = acc, !.len = len]
             ELSE [w |-> Append(s.w, Low(acc)), len |-> len - W,
                   acc |-> byte(i) \div 2 ^ (B - (len - W))])

Decode(src) ==
  LET s == Unpack(Len(src), LAMBDA i : src[Len(src) + 1 - i])
      w == IF s.len # 0 THEN Append(s.w, s.acc) ELSE s.w
  IN  [bits |-> HeaderOf(w), w |-> w]

(* The words that the bit length announces.                                *)
Announced(x, bits) ==
  [bits |-> bits, w |-> [i \in 1 .. Words(bits) |-> IF i <= Len(x.w) THEN x.w[i] ELSE 0]]

DecodeMod(src, m) ==
  LET mlen == Words(m.bits)
      tlen == 4 + IF 4 * mlen < Len(src) THEN Len(src) ELSE 4 * mlen
      s == Unpack(tlen, LAMBDA i : IF i <= Len(src) THEN src[Len(src) + 1 - i] ELSE 0)
      order(r, v) ==
        IF v > mlen THEN IF s.w[v] = 0 THEN r ELSE 1
        ELSE IF s.w[v] = m.w[v] THEN r ELSE IF s.w[v] > m.w[v] THEN 1 ELSE -1
      fits == Loop(Len(s.w), 0, order) = -1
  IN  [ok |-> fits, x |-> [bits |-> m.bits,
         w |-> [v \in 1 .. mlen |-> IF fits THEN s.w[v] ELSE 0]]]

LastBits(s, m) ==
  IF s.len = 0 THEN s.x
  ELSE MulAddSmall(RightShift(s.x, W - s.len), Low(s.acc + s.x.w[1] * 2 ^ s.len), m)
DecodeReduce(src, m) ==
  LET len == Len(src)
      rbits == (m.bits % (W + 1)) + W * (m.bits \div (W + 1))
      k == (rbits + B - 1) \div B - 1
      step(s, i) ==
        LET v == src[k + i]
            left == s.len - (W - B)
        IN  IF s.len < W - B
            THEN [s EXCEPT !.acc = s.acc * 2 ^ B + v, !.len = s.len + B]
            ELSE [x |-> MulAddSmall(s.x, s.acc * 2 ^ (B - left) + v \div 2 ^ left, m),
                  acc |-> v % 2 ^ left, len |-> left]
  IN  IF m.bits = 0 THEN Zero(0)
      ELSE IF k >= len THEN Announced(Decode(src), m.bits)
      ELSE LastBits(Loop(len - k, [x |-> Announced(Decode(SubSeq(src, 1, k)), m.bits),
                                   acc |-> 0, len |-> 0], step), m)

BytesOf(z, n) == [i \in 1 .. n |-> (z \div 2 ^ (B * (n - i))) % 2 ^ B]
Encode(x, len) ==
  LET step(s, k) ==
        LET w == IF k <= Words(x.bits) THEN x.w[k] ELSE 0
            n == IF len - Len(s.out) >= 4 THEN 4 ELSE len - Len(s.out)
            z == (s.acc + w * 2 ^ s.len) % Slot
        IN  IF Len(s.out) = len THEN s
            ELSE IF s.len = 0 THEN [s EXCEPT !.acc = w, !.len = W]
            ELSE [acc |-> w \div 2 ^ (W - (s.len - 1)), len |-> s.len - 1,
                  out |-> BytesOf(z, n) \o s.out]
  IN  IF Words(x.bits) = 0 THEN [i \in 1 .. len |-> 0]
      ELSE Loop(2 * len + 2, [acc |-> 0, len |-> 0, out |-> <<>>], step).out

-----------------------------------------------------------------------------
(* -1/x modulo 2^W, by Newton's iteration; 0 when x is even.               *)
NInv(x) ==
  LET y == Loop(4, (2 - x) % Slot, LAMBDA y, i : (y * (2 - y * x)) % Slot)
  IN  IF x % 2 = 1 THEN Low(-y) ELSE 0

(* The last subtraction: the extra word says that d is at least m.         *)
MontyFinish(s, m) ==
  LET d == [bits |-> m.bits, w |-> s.d]
  IN  SubIf(d, m, s.dh # 0 \/ SubBorrow(d, m) = 0)
MontyRow(c, dh) == [d |-> Append(Tail(c.w), Low(dh + c.cc)), dh |-> (dh + c.cc) \div Base]

MontyMul(x, y, m, m0i) ==
  LET n == Words(m.bits)
      step(s, u) ==
        LET xu == x.w[u]
            f == Low(Low(s.d[1] + Low(xu * y.w[1])) * m0i)
        IN  MontyRow(Chain(n, 0, LAMBDA v, r : s.d[v] + xu * y.w[v] + f * m.w[v] + r), s.dh)
  IN  MontyFinish(Loop(n, [d |-> Zero(m.bits).w, dh |-> 0], step), m)

ToMonty(x, m) == Loop(Words(m.bits), x, LAMBDA y, i : MulAddSmall(y, 0, m))
FromMonty(x, m, m0i) ==
  LET n == Words(m.bits)
      step(y, u) ==
        LET f == Low(y.w[1] * m0i)
            c == Chain(n, 0, LAMBDA v, cc : y.w[v] + f * m.w[v] + cc)
        IN  [y EXCEPT !.w = Append(Tail(c.w), c.cc)]
      y == Loop(n, x, step)
  IN  SubIf(y, m, SubBorrow(y, m) = 0)

ModPow(x, e, m, m0i) ==
  LET bit(k) == (e[Len(e) - k \div B] \div 2 ^ (k % B)) % 2
      step(s, i) ==
        [x |-> IF bit(i - 1) = 1 THEN MontyMul(s.x, s.t, m, m0i) ELSE s.x,
         t |-> MontyMul(s.t, s.t, m, m0i)]
      one == [Zero(m.bits) EXCEPT !.w[1] = 1]
  IN  Loop(B * Len(e), [x |-> one, t |-> ToMonty(x, m)], step).x

(* The next win bits of the exponent, or the last ones.                    *)
NextBits(s, e, win) ==
  LET more == s.len < win /\ s.at < Len(e)
      cut(acc, len, k) ==
        [acc |-> acc % 2 ^ (len - k), len |-> len - k, k |-> k, at |-> s.at + Bit(more),
         bits |-> (acc \div 2 ^ (len - k)) % 2 ^ k]
      take(acc, len) == cut(acc, len, IF len < win THEN len ELSE win)
  IN  IF more THEN take(s.acc * 2 ^ B + e[s.at + 1], s.len + B) ELSE take(s.acc, s.len)

Windowed(xm, e, m, m0i, win) ==
  LET one == MulAddSmall([Zero(m.bits) EXCEPT !.w[Words(m.bits)] = 1], 0, m)
      times(y, p) == MontyMul(y, p, m, m0i)
      power == Loop(2 ^ win - 2, <<xm>>, LAMBDA t, i : Append(t, times(t[i], xm)))
      square(x, k) == Loop(k, x, LAMBDA y, j : times(y, y))
      next(x, b, table) ==
        [acc |-> b.acc, len |-> b.len, at |-> b.at,
         x |-> IF b.bits = 0 THEN square(x, b.k) ELSE times(square(x, b.k), table[b.bits])]
      step(table) ==
        Loop(B * Len(e), [x |-> one, acc |-> 0, len |-> 0, at |-> 0], LAMBDA s, i :
          IF s.len = 0 /\ s.at = Len(e) THEN s ELSE next(s.x, NextBits(s, e, win), table))
  IN  FromMonty(step(power).x, m, m0i)

(* With room for 2^win + 1 temporaries, win bits of the exponent at a time. *)
ModPowOpt(x, e, m, m0i, twlen) ==
  LET size == Words(m.bits) + 1
      mwlen == size + (size % 2)
      win == CHOOSE k \in 1 .. MaxWindow :
               /\ k = 1 \/ (2 ^ k + 1) * mwlen <= twlen
               /\ \A j \in k + 1 .. MaxWindow : (2 ^ j + 1) * mwlen > twlen
  IN  IF twlen < 2 * mwlen THEN [ok |-> FALSE, x |-> x]
      ELSE [ok |-> TRUE, x |-> Windowed(ToMonty(x, m), e, m, m0i, win)]
=============================================================================
