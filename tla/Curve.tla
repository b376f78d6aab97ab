-------------------------------- MODULE Curve --------------------------------
(***************************************************************************)
(* Elliptic curves (src/ec/ec_prime_i31.c) and ECDSA on them               *)
(* (ecdsa_i31_*.c).  A coordinate is a number modulo p: that the i31       *)
(* integers compute with numbers is what Numbers checks, so that the       *)
(* Montgomery form and the encodings of a number are left out here.  A     *)
(* curve is y^2 = x^3 - 3x + b, with a generator g of prime order n; an    *)
(* encoded point says whether it has the right length.                     *)
(***************************************************************************)
EXTENDS BigIntDiv

CONSTANT Curves

ASSUME CurveAssumption ==
  /\ B % 2 = 0
  /\ \A c \in Curves : c.p < 2 * c.n /\ c.n < 2 * c.p

ValueOf(bytes) == Loop(Len(bytes), 0, LAMBDA v, i : v * 2 ^ B + bytes[i])
BytesFor(n) == BytesOf(n, CHOOSE k \in 0 .. n : 2 ^ (B * k) > n /\ \A j \in 0 .. k - 1 : 2 ^ (B * j) <= n)
InverseMod(a, m) == IF a % m = 0 THEN 0 ELSE CHOOSE d \in 1 .. m - 1 : (a * d) % m = 1

-----------------------------------------------------------------------------
(* Jacobian coordinates: the point (x / z^2, y / z^3), or infinity.        *)
Infinity == [x |-> 0, y |-> 0, z |-> 0]

Doubled(a, m, s, p) ==
  [x |-> (m * m - 2 * s) % p,
   y |-> (m * (3 * s - m * m) - 8 * ((a.y * a.y * a.y) % p) * a.y) % p,
   z |-> (2 * a.y * a.z) % p]
PointDouble(a, p) ==
  Doubled(a, (3 * (a.x + a.z * a.z) * (a.x - a.z * a.z)) % p, (4 * a.x * a.y * a.y) % p, p)

(* The flag is clear when r is zero: the points are equal, or one of them  *)
(* is infinity, and the sum is not the one computed.                       *)
Added(a, b, u1, s1, h, r, p) ==
  LET x == (r * r - h * h * h - 2 * u1 * h * h) % p
  IN  [flag |-> r # 0,
       sum |-> [x |-> x, y |-> (r * (u1 * h * h - x) - s1 * h * h * h) % p, z |-> (h * a.z * b.z) % p]]
AddedTo(a, b, u1, s1, p) ==
  Added(a, b, u1, s1, (b.x * a.z * a.z - u1) % p, (b.y * ((a.z * a.z * a.z) % p) - s1) % p, p)
PointAdd(a, b, p) == AddedTo(a, b, (a.x * b.z * b.z) % p, (a.y * ((b.z * b.z * b.z) % p)) % p, p)

(* Two bits of the multiplier at a time.  "qz" is set until one is not     *)
(* zero, because infinity cannot be added to.                              *)
Window(k, i) == (k[(2 * i - 2) \div B + 1] \div 2 ^ (B - 2 - ((2 * i - 2) % B))) % 4
LadderStep(q, qz, bits, t, p) ==
  IF bits = 0 THEN [q |-> q, qz |-> qz]
  ELSE [q |-> IF qz THEN t[bits] ELSE PointAdd(q, t[bits], p).sum, qz |-> FALSE]
Ladder(multiples, k, p) ==
  Loop((B * Len(k)) \div 2, [q |-> Infinity, qz |-> TRUE], LAMBDA s, i :
    With(PointDouble(s.q, p), LAMBDA twice :
      With(PointDouble(twice, p), LAMBDA q : LadderStep(q, s.qz, Window(k, i), multiples, p)))).q
PointMul(a, k, p) ==
  With(PointDouble(a, p), LAMBDA a2 :
    With(<<a, a2, PointAdd(a, a2, p).sum>>, LAMBDA multiples : Ladder(multiples, k, p)))

OnCurve(x, y, c) == (x * x * x - 3 * x + c.b - y * y) % c.p = 0
DecodedTo(e, x, y, c) ==
  [ok |-> e.x < c.p /\ e.y < c.p /\ e.head = 4 /\ OnCurve(x, y, c), a |-> [x |-> x, y |-> y, z |-> 1]]
PointDecode(e, c) ==
  DecodedTo(e, IF e.x < c.p THEN e.x ELSE 0, IF e.y < c.p THEN e.y ELSE 0, c)
Encoded(a, zi, p) ==
  [fits |-> TRUE, head |-> 4, x |-> (a.x * zi * zi) % p, y |-> (a.y * ((zi * zi * zi) % p)) % p]
PointEncode(a, p) == With(InverseMod(a.z, p), LAMBDA zi : Encoded(a, zi, p))

-----------------------------------------------------------------------------
ApiMul(e, k, c) ==
  IF ~e.fits THEN [ok |-> FALSE, e |-> e]
  ELSE With(PointDecode(e, c), LAMBDA d :
         With(PointMul(d.a, k, c.p), LAMBDA q : [ok |-> d.ok, e |-> PointEncode(q, c.p)]))
ApiMulGen(k, c) == ApiMul(c.g, k, c).e

(* x*A + y*B.  Equal products are doubled, opposite ones an error.         *)
SumOf(ok, s, q, p) ==
  [ok |-> ok /\ ~(s.sum.z = 0 /\ s.flag),
   e |-> PointEncode(IF s.sum.z = 0 /\ ~s.flag THEN PointDouble(q, p) ELSE s.sum, p)]
ApiMulAdd(e, f, x, y, c) ==
  IF ~e.fits THEN [ok |-> FALSE, e |-> e]
  ELSE With([a |-> PointDecode(e, c), b |-> PointDecode(f, c)], LAMBDA d :
         With([a |-> PointMul(d.a.a, x, c.p), b |-> PointMul(d.b.a, y, c.p)], LAMBDA m :
           With(PointAdd(m.a, m.b, c.p), LAMBDA s :
             SumOf(d.a.ok /\ f.fits /\ d.b.ok, s, m.b, c.p))))

-----------------------------------------------------------------------------
(* ECDSA                                                                   *)
BitsOf(n) == CHOOSE k \in 1 .. n : 2 ^ (k - 1) <= n /\ n < 2 ^ k
OrderLen(c) == Len(BytesFor(c.n))

(* The first bits of a string, as many as n has.                           *)
Bits2Int(string, n) ==
  LET bits == BitsOf(n)
      more == B * Len(string) - bits
  IN  IF more > 0
      THEN ValueOf(Take(string, (bits + B - 1) \div B)) \div 2 ^ (more % B) ELSE ValueOf(string)
SubOnce(v, n) == IF v >= n THEN v - n ELSE v

(* br_ec_keygen: strings from the random generator, the first bits of them *)
(* cleared, until one is below the order and not zero.                     *)
Masked(string, c) ==
  [string EXCEPT ![1] = @ % 2 ^ BitsOf(BytesFor(c.n)[1])]
KeyGood(string, c) == ValueOf(Masked(string, c)) \in 1 .. c.n - 1
KeyGen(string, c) == ValueOf(Masked(string, c))

(* br_ecdsa_i31_sign_raw, with the k that the generator gives after those  *)
(* that are refused.                                                       *)
Nonce(string, c) == Bits2Int(string, c.n)
NonceGood(string, c) == Nonce(string, c) \in 1 .. c.n - 1
EcdsaOf(x, m, k, r, n) ==
  [ok |-> TRUE, r |-> r, s |-> ((m + x * r) * InverseMod(k, n)) % n]
EcdsaSign(x, hash, string, c) ==
  IF x \notin 1 .. c.n - 1 THEN [ok |-> FALSE, r |-> 0, s |-> 0]
  ELSE With(ApiMulGen(BytesOf(Nonce(string, c), OrderLen(c)), c), LAMBDA e :
         EcdsaOf(x, SubOnce(Bits2Int(hash, c.n), c.n), Nonce(string, c), SubOnce(e.x, c.n), c.n))

(* br_ecdsa_i31_vrfy_raw                                                   *)
EcdsaVerify(q, r, s, hash, c) ==
  /\ q.fits /\ r < c.n /\ s < c.n /\ s # 0
  /\ \E w \in {InverseMod(s, c.n)}, m \in {SubOnce(Bits2Int(hash, c.n), c.n)} :
     \E u \in {ApiMulAdd(q, c.g, BytesOf((r * w) % c.n, OrderLen(c)), BytesOf((m * w) % c.n, OrderLen(c)), c)} :
       u.ok /\ SubOnce(u.e.x, c.n) = r

-----------------------------------------------------------------------------
(* The group, by affine coordinates: what the points should be.            *)
None == [x |-> -1, y |-> -1]
Chord(a, b, l, p) ==
  LET x == (l * l - a.x - b.x) % p IN [x |-> x, y |-> (l * (a.x - x) - a.y) % p]
GroupSum(a, b, p) ==
  IF a = None THEN b ELSE IF b = None THEN a
  ELSE IF a.x = b.x /\ (a.y + b.y) % p = 0 THEN None
  ELSE With(IF a = b THEN (3 * a.x * a.x - 3) * InverseMod(2 * a.y, p)
            ELSE (b.y - a.y) * InverseMod(b.x - a.x, p), LAMBDA l : Chord(a, b, l % p, p))
Multiple(k, a, p) == Loop(k, None, LAMBDA s, i : GroupSum(s, a, p))
Affine(e) == [x |-> e.x, y |-> e.y]
GoodPoint(e, c) == e.fits /\ e.head = 4 /\ e.x < c.p /\ e.y < c.p /\ OnCurve(e.x, e.y, c)
ProductsSum(e, f, x, y, p) ==
  With(<<Multiple(x, Affine(e), p), Multiple(y, Affine(f), p)>>, LAMBDA m : GroupSum(m[1], m[2], p))
(* The signature as the standard defines it, with the first bits of the    *)
(* hash value as a number.                                                 *)
FirstBits(string, n) ==
  ValueOf(string) \div 2 ^ (IF B * Len(string) > BitsOf(n) THEN B * Len(string) - BitsOf(n) ELSE 0)
GoodSignature(q, r, s, hash, c) ==
  /\ GoodPoint(q, c) /\ r \in 1 .. c.n - 1 /\ s \in 1 .. c.n - 1
  /\ \E w \in {InverseMod(s, c.n)} :
     \E u \in {ProductsSum(q, c.g, (r * w) % c.n, (FirstBits(hash, c.n) * w) % c.n, c.p)} :
       u # None /\ u.x % c.n = r
=============================================================================
