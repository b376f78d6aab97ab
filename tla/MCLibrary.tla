----------------------------- MODULE MCLibrary -----------------------------
(* Words of 7 bits, bytes of 2 bits for the numbers and of 3 bits for the  *)
(* strings, blocks of 4 bytes, and functions that mix their arguments in   *)
(* place of the ciphers and the compression functions.                     *)
EXTENDS Library

(* Bit lengths of one word, a multiple of a word and one more; top words   *)
(* that make the estimated quotient wrong; odd and even, prime and not.    *)
MCModuli == {3, 10, 63, 64, 65, 85, 127, 128, 129, 200, 255, 8191, 8192, 8193, 8319, 16129, 16383}
MCOperands(n) ==
  {a \in {0, 1, 2, n \div 2, n - 2, n - 1, n, n + 1, 127, 128, (n * 5) \div 7, 3 * n + 1} :
     a \in 0 .. 16383}
MCExponents == {<<>>, <<0>>, <<1>>, <<2, 3>>, <<0, 3, 1, 2>>}
MCKeys == {[p |-> 13, q |-> 7, e |-> 5, dp |-> 5, dq |-> 5, iq |-> 2],
           [p |-> 7, q |-> 101, e |-> 7, dp |-> 1, dq |-> 43, iq |-> 5]}

(* Orders above and below p, and a point with x = 0 on each.  Points of    *)
(* the curve, their opposites, and what is not one.                        *)
MCPoint(x, y) == [fits |-> TRUE, head |-> 4, x |-> x, y |-> y]
MCCurves == {[p |-> 23, b |-> 8, n |-> 31, g |-> MCPoint(1, 11)], [p |-> 31, b |-> 25, n |-> 23, g |-> MCPoint(9, 13)]}
MCPoints(c) ==
  {c.g, [c.g EXCEPT !.y = c.p - @], [c.g EXCEPT !.y = @ + 1], [c.g EXCEPT !.x = @ + c.p],
   [c.g EXCEPT !.head = 6], [c.g EXCEPT !.fits = FALSE]}
  \union {MCPoint(x, IF c.p = 23 THEN 10 ELSE 5) : x \in {0, c.p}}
MCMultipliers(c) == {0, 1, 2, 3, 4, 7, 11, 13, 16, 22, 30} \intersect (0 .. c.n)
MCStrings == {<<2>>, <<0, 0, 1>>, <<1, 2, 3>>, <<3, 1, 2>>, <<2, 3, 0>>, <<3, 3, 3>>, <<1, 3, 2, 3>>}
MCSums(c) ==
  {<<e, f, 1, 2>> : e, f \in MCPoints(c)}
  \union {<<e, c.g, x, y>> : e \in MCPoints(c), x, y \in {1, 3, 7, c.n - 7, c.n - 1, 0} }
MCSignatures(c) ==
  {<<c.g, r, s, hash>> : r \in 0 .. c.n, s \in {0, 1, 9, c.n}, hash \in {<<2>>, <<2, 3, 0>>, <<1, 3, 2, 3>>}}
  \union {<<q, 5, 7, <<2>>>> : q \in MCPoints(c)}

MCCipher(b) ==
  Take([i \in 1 .. BS |-> (5 * b[i] + 3 * b[(i % BS) + 1] + i * b[1] * b[2] + b[BS] * b[BS] + i) % 8], BS)
MCGhashStep(y, b) ==
  LET x == Take(XorBytes(y, b), BS)
  IN  Take([i \in 1 .. BS |-> (3 * x[i] + x[(i % BS) + 1] * x[i] + i * x[BS] + 2 * i) % 8], BS)
MCNonces == {<<>>, <<1, 2, 3>>, <<7, 1, 5, 2, 6>>}
MCCcmNonces == {<<5>>, <<2, 6>>}

MCHashes == {[bs |-> 4, lb |-> 2, hlen |-> 2, iv |-> <<1, 6>>],
             [bs |-> 8, lb |-> 4, hlen |-> 3, iv |-> <<2, 7, 5>>]}
MCCompress(h, v, b) ==
  LET next(s, i, j) == 3 * s[j] + s[(j % h.hlen) + 1] * s[j] + b[i] * (i + j) + b[i] * b[i] + j
  IN  Loop(h.bs, v, LAMBDA s, i : Take([j \in 1 .. h.hlen |-> next(s, i, j) % 8], h.hlen))
MCPermute(a) ==
  LET n == Rate + 2
  IN  Take([i \in 1 .. n |-> (3 * a[i] + a[(i % n) + 1] * a[i] + i * a[1] + a[n] + i) % 8], n)

(* A permutation of the blocks, and its inverse. *)
MCBlockEncrypt(b) == Take([i \in 1 .. CbcBlock |-> (3 * b[(i % CbcBlock) + 1] + i) % 8], CbcBlock)
MCBlockDecrypt(b) ==
  Take([i \in 1 .. CbcBlock |->
    LET j == IF i = 1 THEN CbcBlock ELSE i - 1 IN (3 * (b[j] + 8 - j)) % 8], CbcBlock)
(* Every value of the last byte, and a wrong byte in the padding, the MAC  *)
(* or the plaintext.                                                       *)
MCFlaws == {<<0, 0>>} \union {<<1, x>> : x \in 1 .. 7} \union {<<k, 1>> : k \in {2, 4, 5, 6, 9}}

(* Tags of both lengths, and the largest plaintext. *)
MCForms == {[mode |-> "gcm", tag |-> 16], [mode |-> "ccm", tag |-> 8], [mode |-> "ccm", tag |-> 16],
            [mode |-> "chapol", tag |-> 16]}
MCTexts == {[type |-> 23, data |-> "a", len |-> 20], [type |-> 22, data |-> "b", len |-> 0]}

(* Three names below the root R: a leaf S, and A and B, who issue. *)
MCKey(t, i) == [type |-> t, id |-> i, weak |-> FALSE]
MCNames == [S |-> MCKey("rsa", 1), A |-> MCKey("ec", 2), B |-> MCKey("rsa", 3), R |-> MCKey("rsa", 4)]
MCExt(kind) == [kind |-> kind, ca |-> TRUE, path |-> NoLimit, empty |-> FALSE, bits |-> {"certSign"},
               names |-> <<>>, critical |-> TRUE, qualified |-> TRUE]
MCCA == MCExt("basicConstraints")
MCCert(subject, issuer) ==
  [issuer |-> issuer, subject |-> subject, names |-> <<>>, dated |-> TRUE, key |-> MCNames[subject],
   exts |-> <<MCCA>>, alg |-> MCNames[issuer].type, by |-> MCNames[issuer].id, broken |-> 0]
MCServer == <<"a", ".", "c">>
MCOther == <<"*", ".", "a", ".", "c">>
MCWild == <<"*", ".", "c">>
(* One thing wrong, or unusual, with a certificate. *)
MCDeviations(c) ==
  {c, [c EXCEPT !.dated = FALSE], [c EXCEPT !.alg = "pss"], [c EXCEPT !.by = 9],
   [c EXCEPT !.alg = IF @ = "rsa" THEN "ec" ELSE "rsa"]}
  \union {[c EXCEPT !.key = k] : k \in {[c.key EXCEPT !.weak = TRUE], MCKey("dsa", 1), MCKey("ec", 1)}}
  \union {[c EXCEPT !.broken = s] : s \in 1 .. Stages}
  \union {[c EXCEPT !.exts = x] : x \in
    {<<>>, <<MCExt("other"), MCCA>>, <<MCCA, [MCExt("other") EXCEPT !.critical = FALSE]>>,
     <<MCExt("policies")>>, <<[MCExt("policies") EXCEPT !.qualified = FALSE], MCCA>>,
     <<[MCExt("policies") EXCEPT !.critical = FALSE]>>,
     <<MCExt("keyUsage"), MCExt("ignored"), MCCA>>, <<MCCA, [MCExt("keyUsage") EXCEPT !.bits = {"sign"}]>>,
     <<MCExt("keyUsage")>>, <<MCCA, [MCExt("keyUsage") EXCEPT !.empty = TRUE]>>}}
MCLeaves ==
  MCDeviations([MCCert("S", "A") EXCEPT !.names = <<MCServer>>])
  \union {[MCCert("S", "R") EXCEPT !.names = n, !.by = k] : n \in {<<>>, <<MCServer>>}, k \in {4, 9}}
  \union {[MCCert("S", "A") EXCEPT !.names = n, !.exts = x] :
     n \in {<<>>, <<MCServer>>, <<MCOther, MCWild>>},
     x \in {<<>>, <<[MCExt("subjectAltName") EXCEPT !.names = <<MCOther, <<"c">>>>]>>,
            <<[MCExt("subjectAltName") EXCEPT !.names = <<MCServer>>], MCExt("subjectAltName")>>,
            <<MCExt("subjectAltName"), [MCExt("subjectAltName") EXCEPT !.names = <<<<"*", ".">>, MCWild>>]>>}}
MCPath(c, p) == [c EXCEPT !.exts = <<[MCCA EXCEPT !.path = p]>>]
MCIssuers ==
  MCDeviations(MCCert("A", "R"))
  \union {MCPath(MCCert("A", "R"), 0), MCPath(MCCert("A", "B"), 0), MCCert("A", "B"), MCCert("B", "R"),
          [MCCert("A", "B") EXCEPT !.by = 9], [MCCert("A", "R") EXCEPT !.exts = <<[MCCA EXCEPT !.ca = FALSE]>>]}
MCRoots ==
  {MCPath(MCCert("B", "R"), p) : p \in 0 .. 2}
  \union {MCCert("A", "R"), [MCCert("B", "R") EXCEPT !.exts = <<MCCA, [MCExt("keyUsage") EXCEPT !.bits = {"sign"}]>>]}
MCOffered == <<MCLeaves, MCIssuers, MCRoots>>
MCTrustR == {[dn |-> "R", key |-> MCNames["R"], ca |-> TRUE], [dn |-> "B", key |-> MCKey("ec", 9), ca |-> TRUE]}
MCTrustS == {[dn |-> "S", key |-> MCNames["S"], ca |-> FALSE], [dn |-> "A", key |-> MCNames["A"], ca |-> FALSE],
             [dn |-> "R", key |-> MCKey("ec", 4), ca |-> TRUE]}
(* The second is left by a leaf without usages, signed by A, and an issuer *)
(* of which nothing came.                                                  *)
MCContexts ==
  {FreshContext(MCTrustR, {"rsa", "ec"}), FreshContext(MCTrustS, {"rsa"}),
   [FreshContext(MCTrustR, {"rsa"}) EXCEPT
      !.err = "TRUNCATED", !.num = 2, !.open = TRUE, !.next = "A", !.current = "S", !.saved = "A",
      !.pkey = MCNames["S"], !.signer = "ec", !.sig = 2]}
MCServerNames == {<<>>, MCServer, <<"c">>}
=============================================================================
