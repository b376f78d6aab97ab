----------------------------- MODULE BigIntDiv -----------------------------
(***************************************************************************)
(* Modular division (src/int/i31_moddiv.c).  Each round takes W steps of a *)
(* binary GCD on the two top words and the low word of a and b, collects   *)
(* them as factors, and applies these to all of a, b and to u, v modulo m. *)
(***************************************************************************)
EXTENDS BigIntMod

(* Words of a two's complement value, the last of which may use all bits.  *)
CondNegate(a, ctl) ==
  IF ~ctl THEN [i \in 1 .. Len(a) |-> Low(a[i])]
  ELSE Chain(Len(a), 1, LAMBDA i, cc : Base - 1 - Low(a[i]) + cc).w

(* a + m when a is negative, a - m when a is at least m, else a.           *)
FinishMod(a, m, neg) ==
  LET less == Loop(Len(a), 0, LAMBDA cc, k : Carry(a[k] - m[k] - cc)) = 1
      sub(k) == IF neg THEN Base - 1 - m[k] ELSE IF less THEN 0 ELSE m[k]
  IN  Loop(Len(a), [w |-> <<>>, cc |-> Bit(neg)],
           LAMBDA s, k : LET aw == a[k] - sub(k) - s.cc
                         IN  [w |-> Append(s.w, Low(aw)), cc |-> Carry(aw)]).w

(* (a * p + b * q + m * f) / 2^W: the low word is dropped, the carry is    *)
(* signed and becomes the top word.                                        *)
Shifted(s) == [w |-> Append(Tail(s.w), s.cc % Slot), neg |-> s.cc < 0]
Combine(a, b, p, q, m, f) ==
  LET step(s, z) == [w |-> Append(s.w, Low(z)), cc |-> z \div Base]
  IN  Shifted(Loop(Len(a), [w |-> <<>>, cc |-> 0], LAMBDA s, k :
        step(s, Signed(a[k] * p + b[k] * q + m[k] * f + s.cc))))

CoReduce(a, b, p, q) ==
  LET abs(c) == [c EXCEPT !.w = CondNegate(@, c.neg)] IN abs(Combine(a, b, p, q, a, 0))

CoReduceMod(u, v, p, q, m, m0i) ==
  LET finish(c) == FinishMod(c.w, m, c.neg)
  IN  finish(Combine(u, v, p, q, m, Low((u[1] * p + v[1] * q) * m0i)))

-----------------------------------------------------------------------------
(* The two top words of a and b, or the only one.                          *)
TopWords(a, b) ==
  LET used == {i \in 1 .. Len(a) : a[i] # 0 \/ b[i] # 0}
      j == IF used = {} THEN 1 ELSE CHOOSE i \in used : \A k \in used : k <= i
      high(x) == IF j = 1 THEN x[1] ELSE x[j] * Base + x[j - 1]
  IN  [a |-> high(a), b |-> high(b)]

Negated(x, b) == IF b THEN -x ELSE x

(* One of the W steps: bit i - 1 of the low words decides.                 *)
GcdStep(s, i) ==
  LET odd(x) == (x \div 2 ^ (i - 1)) % 2 = 1
      ab == odd(s.alo) /\ odd(s.blo) /\ s.ahi > s.bhi
      ba == odd(s.alo) /\ odd(s.blo) /\ ~(s.ahi > s.bhi)
      ca == ab \/ ~odd(s.alo)
      d == [alo |-> s.alo - Bit(ab) * s.blo, blo |-> s.blo - Bit(ba) * s.alo,
            ahi |-> s.ahi - Bit(ab) * s.bhi, bhi |-> s.bhi - Bit(ba) * s.ahi,
            pa |-> s.pa - Bit(ab) * s.qa, pb |-> s.pb - Bit(ab) * s.qb,
            qa |-> s.qa - Bit(ba) * s.pa, qb |-> s.qb - Bit(ba) * s.pb]
  IN  IF ca THEN [d EXCEPT !.ahi = @ \div 2, !.alo = @ % Slot,
                           !.blo = (2 * @) % Slot, !.qa = 2 * @, !.qb = 2 * @]
      ELSE [d EXCEPT !.bhi = @ \div 2, !.blo = @ % Slot,
                     !.alo = (2 * @) % Slot, !.pa = 2 * @, !.pb = 2 * @]

Factors(a, b) ==
  LET top == TopWords(a, b)
  IN  Loop(W, [alo |-> a[1], blo |-> b[1], ahi |-> top.a, bhi |-> top.b,
               pa |-> 1, pb |-> 0, qa |-> 0, qb |-> 1], GcdStep)

Round(s, m, m0i) ==
  LET mod(p, q, neg) == CoReduceMod(s.u, s.v, Negated(p, neg), Negated(q, neg), m, m0i)
      apply(f, a, b) == [a |-> a.w, b |-> b.w,
                         u |-> mod(f.pa, f.pb, a.neg), v |-> mod(f.qa, f.qb, b.neg)]
      all(f) == apply(f, CoReduce(s.a, s.b, f.pa, f.pb), CoReduce(s.a, s.b, f.qa, f.qb))
  IN  all(Factors(s.a, s.b))

(* x / y modulo m.                                                         *)
ModDiv(x, y, m, m0i) ==
  LET n == Words(m.bits)
      num == 2 * (m.bits - m.bits \div (W + 1)) + (W - 1)
      result(s) ==
        [ok |-> /\ (s.a[1] | s.b[1]) = 1
                /\ \A k \in 2 .. n : s.a[k] = 0 /\ s.b[k] = 0,
         x |-> [bits |-> x.bits, w |-> [k \in 1 .. n |-> s.u[k] | s.v[k]]]]
  IN  result(Loop(num \div (W - 1),
                  [a |-> y.w, b |-> m.w, u |-> x.w, v |-> Zero(m.bits).w],
                  LAMBDA t, i : Round(t, m.w, m0i)))
=============================================================================
