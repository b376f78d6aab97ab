------------------------------ MODULE Numbers ------------------------------
(***************************************************************************)
(* The big integers as their callers use them: a modulus and a number are  *)
(* decoded from bytes, any sequence of operations is applied to the        *)
(* number, and the result is encoded.  RSA (src/rsa/rsa_i31_*.c) is one    *)
(* such sequence, with the Chinese remainders of the two factors; a point  *)
(* of a curve times a number and a signature by ECDSA are others.          *)
(***************************************************************************)
EXTENDS Curve

CONSTANTS
  Moduli,       \* the moduli
  Operands(_),  \* the numbers used with one of them
  Exponents,    \* exponents, as strings of bytes
  TLen,         \* words of the temporary arrays
  MaxCalls,     \* calls applied to one number
  Keys,         \* RSA keys: p, q, e, dp, dq and iq
  Points(_),    \* encoded points, good and bad, for one of the Curves
  Multipliers(_),
  Sums(_),      \* two points and their multipliers
  Strings,      \* hash values, and what the random generator gives
  Signatures(_) \* a point, two numbers and a hash value to verify

VARIABLE
  num   \* the modulus, the number and what it should be; or a computation of RSA or ECDSA

-----------------------------------------------------------------------------
(* Strings of bytes of B bits, the highest first, for integers.            *)
(* Long enough for a and for n, and one byte more.                         *)
Padded(a, n) == BytesOf(a, Len(BytesFor(IF a > n THEN a ELSE n)) + 1)
OfInt(n, bits) == [bits |-> bits, w |-> [i \in 1 .. Words(bits) |-> (n \div Base ^ (i - 1)) % Base]]
PowerMod(x, e, n) ==
  Loop(B * Len(e), 1 % n, LAMBDA v, i :
    LET bit == (e[(i - 1) \div B + 1] \div 2 ^ (B - 1 - ((i - 1) % B))) % 2
    IN  IF bit = 1 THEN (((v * v) % n) * x) % n ELSE (v * v) % n)

-----------------------------------------------------------------------------
(* The buffers of RSA: an even number of words for a value of len bytes.   *)
FactorWords(len) == LET k == 1 + (B * len + W - 1) \div W IN k + (k % 2)

RsaPublic(x, key) ==
  LET n == BytesFor(key.p * key.q)
      raised(a, m, m0i) ==
        [ok |-> m0i % 2 = 1 /\ a.ok,
         x |-> Encode(ModPowOpt(a.x, BytesFor(key.e), m, m0i, TLen - 2 * FactorWords(Len(n))).x, Len(x))]
      r(m) == raised(DecodeMod(x, m), m, NInv(m.w[1]))
  IN  IF Len(x) # Len(n) THEN [ok |-> FALSE, x |-> x] ELSE r(Decode(n))

(* s1 - t2 modulo p.                                                       *)
Difference(s1, t2, mp) == AddIf(SubIf(s1, t2, TRUE), mp, SubBorrow(s1, t2) = 1)

(* The bytes of x as a number are below those of n.                        *)
Below(x, n) ==
  Loop(Len(x), 0, LAMBDA r, i : Bit(x[Len(x) + 1 - i] < n[Len(x) + 1 - i] + r)) = 1

(* The number of len bytes that is s1 modulo p and s2 modulo q.            *)
Joined(s1, s2, mp, mq, p0i, iq, len) ==
  LET diff == ToMonty(Difference(s1.x, Reduce(s2.x, mp), mp), mp)
  IN  [ok |-> s1.ok /\ s2.ok, x |-> Encode(MulAcc(s2.x, mq, MontyMul(diff, iq, mp, p0i)), len)]

RsaPrivate(x, key) ==
  LET longer == IF key.p > key.q THEN key.p ELSE key.q
      fwlen == FactorWords(Len(BytesFor(longer)))
      power(mf, m0i, d, room) == ModPowOpt(DecodeReduce(x, mf), BytesFor(d), mf, m0i, room)
      result(mq, mp, q0i, p0i) ==
        Joined(power(mp, p0i, key.dp, TLen - 4 * fwlen), power(mq, q0i, key.dq, TLen - 3 * fwlen),
               mp, mq, p0i, DecodeReduce(BytesFor(key.iq), mp), Len(x))
      r(mq, mp) ==
        [result(mq, mp, NInv(mq.w[1]), NInv(mp.w[1])) EXCEPT
           !.ok = /\ @ /\ (NInv(mp.w[1]) * NInv(mq.w[1])) % 2 = 1
                  /\ Below(x, Encode(MulAcc(Zero(mq.bits), mq, mp), Len(x)))]
  IN  IF 6 * fwlen > TLen THEN [ok |-> FALSE, x |-> x]
      ELSE r(Decode(BytesFor(key.q)), Decode(BytesFor(key.p)))

-----------------------------------------------------------------------------
NoNumber == [kind |-> "none", n |-> 0]
NumInit == num = NoNumber

Choose(n) ==
  /\ num = NoNumber
  /\ LET m == Decode(BytesFor(n))
     IN  num' = [kind |-> "modular", n |-> n, m |-> m, x |-> Zero(m.bits), v |-> 0,
                 ok |-> TRUE, fits |-> TRUE, left |-> MaxCalls]

Calling == num.kind = "modular" /\ num.ok /\ num.left > 0
Odd == num.n % 2 = 1 /\ num.n > 1
M0i == NInv(num.m.w[1])
Now(x, v) == num' = [num EXCEPT !.x = x, !.v = v, !.left = @ - 1]
(* A call that answers whether it could: after a refusal the number is     *)
(* not used any more.                                                      *)
NowIf(ok, x, fits, v) ==
  num' = [num EXCEPT !.ok = ok, !.fits = fits, !.x = x, !.v = v,
                     !.left = IF ok THEN @ - 1 ELSE 0]
(* x / y modulo n.                                                         *)
Quotient(x, y, n) == CHOOSE d \in 0 .. n - 1 : (d * y - x) % n = 0

Load(a) ==
  /\ Calling
  /\ \E d \in {DecodeMod(Padded(a, num.n), num.m)} :
       NowIf(d.ok, d.x, a < num.n, IF a < num.n THEN a ELSE 0)
LoadReduced(a) ==
  /\ Calling
  /\ Now(DecodeReduce(Padded(a, num.n), num.m), a % num.n)
LoadAndReduce(a) ==
  /\ Calling
  /\ Now(Reduce(Decode(BytesFor(a)), num.m), a % num.n)
Append1(z) ==
  /\ Calling
  /\ Now(MulAddSmall(num.x, z, num.m), (num.v * Base + z) % num.n)
SubMod(y) ==
  /\ Calling
  /\ Now(Difference(num.x, OfInt(y, num.m.bits), num.m), (num.v + num.n - y) % num.n)
AddMod(y) ==
  /\ Calling
  /\ \E b \in {OfInt(y, num.m.bits)} : \E a \in {AddIf(num.x, b, TRUE)} :
       Now(SubIf(a, num.m, AddCarry(num.x, b) # 0 \/ SubBorrow(a, num.m) = 0), (num.v + y) % num.n)
Enter ==
  /\ Calling
  /\ Now(ToMonty(num.x, num.m), (num.v * Base ^ Words(num.m.bits)) % num.n)
Leave ==
  /\ Calling /\ Odd
  /\ Now(FromMonty(num.x, num.m, M0i), Quotient(num.v, Base ^ Words(num.m.bits), num.n))
Multiply(y) ==
  /\ Calling /\ Odd
  /\ Now(MontyMul(num.x, OfInt(y, num.m.bits), num.m, M0i),
         Quotient((num.v * y) % num.n, Base ^ Words(num.m.bits), num.n))
Power(e) ==
  /\ Calling /\ Odd
  /\ Now(ModPow(num.x, e, num.m, M0i), PowerMod(num.v, e, num.n))
PowerOpt(e, twlen) ==
  /\ Calling /\ Odd
  /\ \E r \in {ModPowOpt(num.x, e, num.m, M0i, twlen)},
        size \in {2 * ((Words(num.m.bits) + 2) \div 2)} :
       NowIf(r.ok, r.x, twlen >= 2 * size, PowerMod(num.v, e, num.n))
Divide(y) ==
  /\ Calling /\ Odd
  /\ \E r \in {ModDiv(num.x, OfInt(y, num.m.bits), num.m, M0i)} :
     LET prime == \A d \in 2 .. num.n : num.n % d = 0 => y % d # 0
     IN  NowIf(r.ok, r.x, prime, IF prime THEN Quotient(num.v, y, num.n) ELSE 0)

(* An RSA operation, of the owner of the key or of anybody.                *)
Rsa(owner, key, a) ==
  /\ num = NoNumber
  /\ LET n == key.p * key.q
         x == BytesOf(a, Len(BytesFor(n)))
     IN  /\ ValueOf(x) = a
         /\ \E r \in {IF owner THEN RsaPrivate(x, key) ELSE RsaPublic(x, key)} :
            num' = [kind |-> "rsa", owner |-> owner, n |-> n, e |-> BytesFor(key.e), v |-> a,
                     x |-> ValueOf(r.x), ok |-> r.ok]

(* Points of a curve; and a key, generated or given, that signs a hash     *)
(* value, and what is verified.                                            *)
MulPoint(c, e, x) ==
  /\ num = NoNumber
  /\ num' = [kind |-> "mul", c |-> c, a |-> e, x |-> x,
             r |-> ApiMul(e, BytesOf(x, OrderLen(c) + (x % 2)), c)]
MulAddPoints(c, e, f, x, y) ==
  /\ num = NoNumber
  /\ num' = [kind |-> "muladd", c |-> c, a |-> e, b |-> f, x |-> x, y |-> y,
             r |-> ApiMulAdd(e, f, BytesOf(x, OrderLen(c)), BytesOf(y, OrderLen(c)), c)]
SetKey(c, x) == num' = [kind |-> "key", c |-> c, x |-> x]
GenerateKey(c, string) ==
  /\ num = NoNumber /\ Len(string) = OrderLen(c) /\ KeyGood(string, c)
  /\ SetKey(c, KeyGen(string, c))
GivenKey(c, x) == num = NoNumber /\ SetKey(c, x)
Sign(hash, string) ==
  /\ num.kind = "key" /\ Len(string) = OrderLen(num.c) /\ NonceGood(string, num.c)
  /\ \E sig \in {EcdsaSign(num.x, hash, string, num.c)} :
       num' = [kind |-> "signed", c |-> num.c, x |-> num.x, hash |-> hash, sig |-> sig]
PublicKey(c, x) == ApiMulGen(BytesOf(x, OrderLen(c)), c)
Verify(c, q, r, s, hash) ==
  num' = [kind |-> "verified", c |-> c, q |-> q, r |-> r, s |-> s, hash |-> hash,
          ok |-> EcdsaVerify(q, r, s, hash, c)]
VerifyOwn ==
  /\ num.kind = "signed" /\ num.sig.ok
  /\ Verify(num.c, PublicKey(num.c, num.x), num.sig.r, num.sig.s, num.hash)
VerifyOther(c, q, r, s, hash) == num = NoNumber /\ Verify(c, q, r, s, hash)

CurveNext ==
  \/ \E c \in Curves :
       \/ \E e \in Points(c), x \in Multipliers(c) : MulPoint(c, e, x)
       \/ \E t \in Sums(c) : MulAddPoints(c, t[1], t[2], t[3], t[4])
       \/ \E string \in Strings : GenerateKey(c, string)
       \/ \E x \in Multipliers(c) : GivenKey(c, x)
       \/ \E t \in Signatures(c) : VerifyOther(c, t[1], t[2], t[3], t[4])
  \/ \E hash, string \in Strings : Sign(hash, string)
  \/ VerifyOwn

NumNext ==
  \/ CurveNext
  \/ \E n \in Moduli : Choose(n)
  \/ num.kind = "modular" /\ \E a \in Operands(num.n) :
       Load(a) \/ LoadReduced(a) \/ LoadAndReduce(a)
  \/ num.kind = "modular" /\ \E y \in Operands(num.n) :
       y < num.n /\ (AddMod(y) \/ SubMod(y) \/ Multiply(y) \/ Divide(y) \/ Append1(y % Base))
  \/ Enter \/ Leave
  \/ \E e \in Exponents : Power(e) \/ \E room \in {3, 4, 7, TLen} : PowerOpt(e, room)
  \/ \E owner \in BOOLEAN, key \in Keys : \E a \in Operands(key.p * key.q) : Rsa(owner, key, a)
NumSpec == NumInit /\ [][NumNext]_num

(* After any sequence of calls the number is the one that arithmetic       *)
(* modulo n gives, below n and with no bit out of its words, and its bytes *)
(* are those of that integer; a call refuses exactly when it cannot be     *)
(* done.  RSA's private operation, by the remainders modulo the factors,   *)
(* undoes the public one, and both refuse numbers that are not below n     *)
(* (src/int/i31_*.c, src/rsa/rsa_i31_*.c).  Multiples and sums of points   *)
(* are those of the group, for multipliers that are not zero and below the *)
(* order, and are refused if a point is not on the curve or the sum is     *)
(* infinity; a signature is made and accepted exactly when it is one, for  *)
(* every hash value and r that are not zero modulo the order: muladd gives *)
(* no error for a multiplier of zero (src/ec/ec_prime_i31.c:790-812).      *)
NumbersExact ==
  CASE num.kind = "none" -> TRUE
    [] num.kind = "modular" ->
         /\ num.ok = num.fits
         /\ num.ok => /\ num.x = OfInt(num.v, num.m.bits)
                      /\ ValueOf(Encode(num.x, Len(BytesFor(num.n)) + 5)) = num.v
    [] num.kind = "rsa" ->
         /\ num.ok = (num.v < num.n)
         /\ num.ok => IF num.owner THEN num.x < num.n /\ PowerMod(num.x, num.e, num.n) = num.v
                      ELSE num.x = PowerMod(num.v, num.e, num.n)
    [] num.kind = "mul" ->
         /\ num.r.ok = GoodPoint(num.a, num.c)
         /\ num.r.ok /\ num.x \in 1 .. num.c.n - 1 =>
              Affine(num.r.e) = Multiple(num.x, Affine(num.a), num.c.p)
    [] num.kind = "muladd" ->
         {num.x, num.y} \subseteq 1 .. num.c.n - 1 =>
           LET good == GoodPoint(num.a, num.c) /\ GoodPoint(num.b, num.c)
               sum == ProductsSum(num.a, num.b, num.x, num.y, num.c.p)
           IN  IF good /\ sum # None THEN num.r.ok /\ Affine(num.r.e) = sum ELSE ~num.r.ok
    [] num.kind = "key" -> TRUE
    [] num.kind = "signed" ->
         /\ num.sig.ok = (num.x \in 1 .. num.c.n - 1)
         /\ num.sig.ok /\ num.sig.r # 0 /\ num.sig.s # 0 =>
              GoodSignature(PublicKey(num.c, num.x), num.sig.r, num.sig.s, num.hash, num.c)
    [] num.kind = "verified" ->
         num.r # 0 /\ FirstBits(num.hash, num.c.n) % num.c.n # 0 =>
           num.ok = GoodSignature(num.q, num.r, num.s, num.hash, num.c)
=============================================================================
