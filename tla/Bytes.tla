------------------------------- MODULE Bytes -------------------------------
(* Byte strings and loops, shared by the models of the library's           *)
(* algorithms.  A byte is an element of 0 .. 7: three of its bits.         *)
EXTENDS Integers, Sequences, Bitwise

Byte == 0 .. 7
XorTable == [p \in Byte \X Byte |-> p[1] ^^ p[2]]
XorBytes(x, y) == [i \in 1 .. Len(x) |-> XorTable[x[i], y[i]]]
Zeros(n) == [i \in 1 .. n |-> 0]
Take(s, n) == SubSeq(s, 1, n)
Drop(s, n) == SubSeq(s, n + 1, Len(s))

(* memcpy(s + at, x, len)                                                  *)
Put(s, at, x) == [i \in 1 .. Len(s) |-> IF i - at \in DOMAIN x THEN x[i - at] ELSE s[i]]

(* A loop over 1 .. n that carries a state.                                *)
Loop(n, s, Step(_, _)) ==
  LET at[i \in 0 .. n] == IF i = 0 THEN s ELSE Step(at[i - 1], i) IN at[n]

(* Op(v), with v computed once.                                            *)
With(v, Op(_)) == Loop(1, v, LAMBDA s, i : Op(s))

(* The blocks of a string, the last one as short as what is left.          *)
Block(s, size, i) == SubSeq(s, (i - 1) * size + 1,
                            IF i * size > Len(s) THEN Len(s) ELSE i * size)
Blocks(s, size) == [i \in 1 .. (Len(s) + size - 1) \div size |-> Block(s, size, i)]
ZeroPadded(s, size) == s \o Zeros((size - (Len(s) % size)) % size)
=============================================================================
