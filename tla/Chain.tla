------------------------------- MODULE Chain -------------------------------
(***************************************************************************)
(* Validation of a certificate chain by the "minimal" X.509 engine         *)
(* (x509_minimal.t0): certificates arrive one by one, end entity first, in *)
(* pieces, and a coroutine decodes them as the bytes come.  A certificate  *)
(* is a record of what the decoder looks at; its encoding is not modelled, *)
(* but a certificate may be malformed at any stage of the decoding.  Two   *)
(* names have the same hash only if they are equal, and a signature is     *)
(* named by the key that made it.                                          *)
(***************************************************************************)
EXTENDS Naturals, Sequences, SequencesExt

CONSTANTS
  Offered,          (* by place in the chain: the certificates that may come *)
  Contexts,         (* contexts set up, new or left by an earlier chain    *)
  ServerNames,      (* expected names; <<>> is none                        *)
  CertPieces        (* stages that one call of append brings               *)

VARIABLE chain      (* br_x509_minimal_context *)

Stages == 8         (* the last bytes of a certificate are those of stage 8 *)
NoLimit == 1000
NoKey == [type |-> "none", id |-> 0, weak |-> FALSE]
AllUsages == {"sign", "keyx"}
NoCert == [issuer |-> "", subject |-> "", names |-> <<>>, dated |-> FALSE, key |-> NoKey,
           exts |-> <<>>, alg |-> "", by |-> 0, broken |-> 0]

(* br_x509_minimal_init and the functions that set it up *)
FreshContext(anchors, verifiers) ==
  [pc |-> "ready", anchors |-> anchors, verifiers |-> verifiers, server |-> <<>>,
   err |-> "none", num |-> 0, open |-> FALSE, at |-> 0, cert |-> NoCert,
   next |-> "", current |-> "", saved |-> "", pkey |-> NoKey, usages |-> {},
   named |-> FALSE, seenBC |-> FALSE, signer |-> "", sig |-> 0,
   fed |-> <<>>]
NoChain == [FreshContext({}, {}) EXCEPT !.pc = "none"]
MaxCerts == Len(Offered)

(* Certificates have the fields that the decoder looks at, and a context   *)
(* set up has been given no certificate of the chain to come.              *)
IsName(s) == s \in Seq(ToSet(s))
IsExtension(e) ==
  /\ e.kind \in {"basicConstraints", "keyUsage", "subjectAltName", "policies", "ignored", "other"}
  /\ e.kind = "basicConstraints" => e.path \in Nat
  /\ e.kind = "subjectAltName" => IsName(e.names) /\ \A n \in ToSet(e.names) : IsName(n)
IsCertificate(crt) ==
  /\ IsName(crt.names) /\ \A n \in ToSet(crt.names) : IsName(n)
  /\ crt.exts \in Seq(ToSet(crt.exts)) /\ \A e \in ToSet(crt.exts) : IsExtension(e)
  /\ crt.broken \in Nat
ASSUME ChainAssumption ==
  /\ MaxCerts \in Nat /\ CertPieces \subseteq Nat
  /\ \A i \in 1 .. MaxCerts : \A crt \in Offered[i] : IsCertificate(crt)
  /\ \A name \in ServerNames : IsName(name)
  /\ \A c \in Contexts : /\ c = [f \in DOMAIN NoChain |-> c[f]]
                         /\ c.pc = "ready" /\ c.fed = <<>>

ChainInit == chain = NoChain

-----------------------------------------------------------------------------
Fail(c, e) == [c EXCEPT !.err = e]
EE(c) == c.num = 0

(* match-server-name: the name, or "*." and the name without its first     *)
(* component.                                                              *)
MatchServerName(found, name) ==
  LET dots == {i \in 1 .. Len(name) : name[i] = "."}
      u == CHOOSE i \in dots : \A j \in dots : i <= j
  IN  /\ name # <<>>
      /\ \/ found = name
         \/ /\ IsPrefix(<<"*", ".">>, found) /\ dots # {}
            /\ SubSeq(found, 3, Len(found)) = SubSeq(name, u + 1, Len(name))

(* verify_signature: "none", or what is wrong with the certificate whose   *)
(* algorithm and signature were read last.                                 *)
VerifySignature(c, key) ==
  IF key.type # c.signer THEN "WRONG_KEY_TYPE"
  ELSE IF key.type \notin c.verifiers THEN "UNSUPPORTED"
  ELSE IF c.sig # key.id THEN "BAD_SIGNATURE"
  ELSE "none"

ReadIssuer(c) == [c EXCEPT !.next = c.cert.issuer]

CheckValidity(c) == IF c.cert.dated THEN c ELSE Fail(c, "EXPIRED")

(* The issuer's name is kept for the next certificate only when the        *)
(* subject's is right.                                                     *)
ReadSubject(c) ==
  IF ~EE(c) /\ c.cert.subject # c.saved THEN Fail(c, "DN_MISMATCH")
  ELSE [c EXCEPT !.current = c.cert.subject, !.saved = c.next,
                 !.named = EE(c) /\ \E i \in 1 .. Len(c.cert.names) :
                                     MatchServerName(c.cert.names[i], c.server)]

(* The end entity's key is kept; another certificate's verifies the        *)
(* signature of the one before it.                                         *)
ReadPublicKey(c) ==
  LET key == c.cert.key
      s == [c EXCEPT !.seenBC = FALSE]
  IN  IF key.type \notin {"rsa", "ec"} THEN Fail(c, "UNSUPPORTED")
      ELSE IF key.weak THEN Fail(c, "WEAK_PUBLIC_KEY")
      ELSE IF EE(c) THEN [s EXCEPT !.pkey = key]
      ELSE [s EXCEPT !.err = VerifySignature(c, key)]

ProcessBasicConstraintsShort(c, e) ==   \* mutant: the end entity counts in the length
  IF ~e.ca \/ e.path < c.num THEN Fail(c, "NOT_CA") ELSE [c EXCEPT !.seenBC = TRUE]
ProcessBasicConstraints(c, e) ==
  IF ~e.ca \/ e.path + 1 < c.num THEN Fail(c, "NOT_CA") ELSE [c EXCEPT !.seenBC = TRUE]

ProcessKeyUsage(c, e) ==
  IF e.empty THEN Fail(c, "FORBIDDEN_KEY_USAGE")
  ELSE IF EE(c) THEN [c EXCEPT !.usages = e.bits \intersect AllUsages]
  ELSE IF "certSign" \in e.bits THEN c
  ELSE Fail(c, "FORBIDDEN_KEY_USAGE")

(* A Subject Alt Name takes the place of the Common Name and of the        *)
(* extension of this kind before it.                                       *)
ProcessSAN(c, e) ==
  [c EXCEPT !.named = \E i \in 1 .. Len(e.names) : MatchServerName(e.names[i], c.server)]

ProcessExtension(c, e) ==
  IF c.err # "none" THEN c
  ELSE CASE e.kind = "basicConstraints" -> IF EE(c) THEN c ELSE ProcessBasicConstraints(c, e)
         [] e.kind = "keyUsage" -> ProcessKeyUsage(c, e)
         [] e.kind = "subjectAltName" -> IF EE(c) THEN ProcessSAN(c, e) ELSE c
         [] e.kind = "policies" ->
              IF e.critical /\ e.qualified THEN Fail(c, "CRITICAL_EXTENSION") ELSE c
         [] e.kind = "ignored" -> c
         [] OTHER -> IF e.critical THEN Fail(c, "CRITICAL_EXTENSION") ELSE c

AfterExtensions(c, n) ==
  LET r[i \in Nat] == IF i = 0 THEN c ELSE ProcessExtension(r[i - 1], c.cert.exts[i]) IN r[n]
ReadExtensions(c) == AfterExtensions(c, Len(c.cert.exts))

(* check-direct-trust: an anchor that is no CA is the end entity itself,   *)
(* whoever signed it and whatever follows.                                 *)
DirectTrust(c) ==
  \E ta \in c.anchors : ~ta.ca /\ ta.dn = c.current /\ ta.key.type = c.pkey.type /\ ta.key.id = c.pkey.id

CheckTBS(c) ==
  IF EE(c) /\ ~c.named /\ c.server # <<>> THEN Fail(c, "BAD_SERVER_NAME")
  ELSE IF EE(c) /\ DirectTrust(c) THEN Fail(c, "ok")
  ELSE IF ~EE(c) /\ ~c.seenBC THEN Fail(c, "NOT_CA")
  ELSE c

ReadAlgorithm(c) ==
  IF c.cert.alg \notin {"rsa", "ec"} THEN Fail(c, "UNSUPPORTED") ELSE [c EXCEPT !.signer = c.cert.alg]

(* check-trust-anchor-CA: the issuer may be an anchor. *)
AnchorSigned(c) ==
  \E ta \in c.anchors : ta.ca /\ ta.dn = c.saved /\ VerifySignature(c, ta.key) = "none"

ReadSignature(c) ==
  LET s == [c EXCEPT !.sig = c.cert.by, !.open = FALSE]
  IN  IF AnchorSigned(s) THEN Fail(s, "ok") ELSE s

(* decode-certificate, from one point where it may wait for bytes to the   *)
(* next.                                                                   *)
DecodeStage(c, s) ==
  IF c.err # "none" THEN c
  ELSE IF c.cert.broken = s THEN Fail(c, "MALFORMED")
  ELSE LET d == [c EXCEPT !.at = s] IN
       CASE s = 1 -> ReadIssuer(d)
         [] s = 2 -> CheckValidity(d)
         [] s = 3 -> ReadSubject(d)
         [] s = 4 -> ReadPublicKey(d)
         [] s = 5 -> ReadExtensions(d)
         [] s = 6 -> CheckTBS(d)
         [] s = 7 -> ReadAlgorithm(d)
         [] s = 8 -> ReadSignature(d)
AfterStages(c, n) ==
  LET r[i \in Nat] == IF i = 0 THEN c ELSE DecodeStage(r[i - 1], c.at + i) IN r[n]

-----------------------------------------------------------------------------
(* xm_start_chain.  Of a context used before, the names, the signature and *)
(* the length of the last certificate stay.                                *)
StartChain(name) ==
  /\ chain.pc = "ready"
  /\ chain' = [chain EXCEPT !.pc = "chain", !.server = name, !.err = "none", !.num = 0, !.at = 0,
                            !.pkey = NoKey]

(* xm_start_cert: without bytes the chain is already wrong. *)
StartEmptyCert ==
  /\ chain.pc = "chain" /\ chain.err = "none" /\ chain.num < MaxCerts
  /\ chain' = [chain EXCEPT !.pc = "cert", !.err = "TRUNCATED"]

StartCert(crt) ==
  /\ chain.pc = "chain" /\ chain.err = "none"
  /\ chain' = [chain EXCEPT !.pc = "cert", !.open = TRUE, !.at = 0, !.cert = crt,
                            !.fed = Append(@, [cert |-> crt, got |-> 0])]

(* Once the outcome is known all calls but end_cert and end_chain return   *)
(* at once.                                                                *)
StartIgnoredCert ==
  /\ chain.pc = "chain" /\ chain.err # "none" /\ chain.num < MaxCerts
  /\ chain' = [chain EXCEPT !.pc = "cert"]

(* xm_append; the first bytes of a chain start the coroutine (main). *)
AppendBytes(k) ==
  /\ chain.pc = "cert" /\ chain.err = "none" /\ chain.at < Stages
  /\ LET to == IF chain.at + k < Stages THEN chain.at + k ELSE Stages
         c == [chain EXCEPT !.fed[Len(chain.fed)].got = to,
                            !.usages = IF chain.num + chain.at = 0 THEN AllUsages ELSE @]
     IN  chain' = AfterStages(c, to - chain.at)

(* xm_end_cert *)
EndCert ==
  /\ chain.pc = "cert"
  /\ chain' = [chain EXCEPT !.pc = "chain", !.num = @ + 1,
                            !.err = IF @ = "none" /\ chain.open THEN "TRUNCATED" ELSE @]

(* xm_end_chain *)
EndChain ==
  /\ chain.pc = "chain"
  /\ chain' = [chain EXCEPT !.pc = "ended",
                            !.err = IF @ # "none" THEN @
                                    ELSE IF chain.num = 0 THEN "EMPTY_CHAIN" ELSE "NOT_TRUSTED"]

SetUpChain ==
  /\ chain = NoChain
  /\ chain' \in Contexts

ChainNext ==
  \/ SetUpChain
  \/ \E n \in ServerNames : StartChain(n)
  \/ StartEmptyCert
  \/ chain.num < MaxCerts /\ \E crt \in Offered[chain.num + 1] : StartCert(crt)
  \/ StartIgnoredCert
  \/ \E k \in CertPieces : AppendBytes(k)
  \/ EndCert
  \/ EndChain

ChainSpec == ChainInit /\ [][ChainNext]_chain

-----------------------------------------------------------------------------
(* What a chain is worth, said of the certificates as they are.            *)
Reads(f, s) == f.got >= s /\ (f.cert.broken = 0 \/ f.cert.broken > s)
OfKind(crt, kind) == {i \in DOMAIN crt.exts : crt.exts[i].kind = kind}
All(crt, kind) == {crt.exts[i] : i \in OfKind(crt, kind)}
LastOf(crt, kind) ==
  crt.exts[CHOOSE i \in OfKind(crt, kind) : \A j \in OfKind(crt, kind) : j <= i]

NamesOf(crt) ==
  ToSet(IF OfKind(crt, "subjectAltName") = {} THEN crt.names ELSE LastOf(crt, "subjectAltName").names)
UsagesOf(crt) ==
  IF OfKind(crt, "keyUsage") = {} THEN AllUsages ELSE LastOf(crt, "keyUsage").bits \intersect AllUsages

(* A name stands for itself and, after "*.", for every name with one more  *)
(* component.                                                              *)
Denotes(found, name) ==
  \/ found = name
  \/ \E i \in 1 .. Len(name) :
       /\ "." \notin ToSet(SubSeq(name, 1, i - 1))
       /\ name[i] = "." /\ found = <<"*">> \o SubSeq(name, i, Len(name))

Dated(crt) == crt.dated /\ crt.key.type \in {"rsa", "ec"} /\ ~crt.key.weak
Harmless(e) ==
  \/ e.kind \in {"basicConstraints", "subjectAltName", "ignored"}
  \/ e.kind = "keyUsage" /\ ~e.empty
  \/ e.kind \in {"policies", "other"} /\ ~e.critical
  \/ e.kind = "policies" /\ ~e.qualified
Understood(crt) == \A e \in ToSet(crt.exts) : Harmless(e)
GoodLeaf(c, f) ==
  /\ Reads(f, 6) /\ Dated(f.cert) /\ Understood(f.cert)
  /\ c.server # <<>> => \E n \in NamesOf(f.cert) : Denotes(n, c.server)
GoodIssuer(f, below) ==
  /\ Dated(f.cert) /\ Understood(f.cert)
  /\ All(f.cert, "basicConstraints") # {}
  /\ \A e \in All(f.cert, "basicConstraints") : e.ca /\ e.path >= below
  /\ \A e \in All(f.cert, "keyUsage") : "certSign" \in e.bits

SignedWith(c, crt, key) ==
  crt.alg = key.type /\ key.type \in c.verifiers /\ crt.by = key.id
(* The first n certificates: each good, signed by the next.  Issuer i has  *)
(* i - 2 certificates of issuers below it.                                 *)
GoodPath(c, n) ==
  /\ \A i \in 1 .. n : Reads(c.fed[i], Stages) /\ c.fed[i].cert.alg \in {"rsa", "ec"}
  /\ GoodLeaf(c, c.fed[1])
  /\ \A i \in 2 .. n : /\ GoodIssuer(c.fed[i], i - 2)
                       /\ c.fed[i].cert.subject = c.fed[i - 1].cert.issuer
                       /\ SignedWith(c, c.fed[i - 1].cert, c.fed[i].cert.key)

Directly(c, crt) ==
  \E ta \in c.anchors : ~ta.ca /\ ta.dn = crt.subject /\ ta.key.type = crt.key.type /\ ta.key.id = crt.key.id
Anchored(c, crt) ==
  \E ta \in c.anchors : ta.ca /\ ta.dn = crt.issuer /\ SignedWith(c, crt, ta.key)
Trusted(c) ==
  \/ c.fed # <<>> /\ GoodLeaf(c, c.fed[1]) /\ Directly(c, c.fed[1].cert)
  \/ \E n \in 1 .. Len(c.fed) : GoodPath(c, n) /\ Anchored(c, c.fed[n].cert)

(* The outcome of a chain that has ended.                                  *)
Judged(c) ==
  /\ c.err = "ok" <=> Trusted(c)
  /\ c.err = "NOT_TRUSTED" <=> /\ c.fed # <<>> /\ ~Trusted(c) /\ GoodPath(c, Len(c.fed))
                              /\ c.num = Len(c.fed)
  /\ c.err \in {"ok", "NOT_TRUSTED"} =>
       c.pkey = c.fed[1].cert.key /\ c.usages = UsagesOf(c.fed[1].cert)

(* However the certificates are cut into pieces, and whatever an earlier   *)
(* chain left in the context, a chain is accepted exactly if it begins     *)
(* with a path of good certificates to an anchor, or with an end entity    *)
(* that is one.  "Not trusted" is said only of a chain that is good but    *)
(* for the anchor; in both cases the key and the usages returned are those *)
(* of the end entity (xm_end_chain, xm_get_pkey).                          *)
ChainAccepted == chain.pc = "ended" => Judged(chain)
=============================================================================
