--------------------------- MODULE LibraryProofs ---------------------------
(***************************************************************************)
(* Proofs about the chains and the records of Library.                     *)
(*                                                                         *)
(* Chain: at its end a chain is judged as its certificates deserve, for    *)
(* any certificates, anchors, expected names and pieces, and for any       *)
(* context that was set up or used before.  The invariant says what every  *)
(* stage of the decoding that has been passed means for the certificates,  *)
(* and what the context remembers of them.                                 *)
(*                                                                         *)
(* AeadRecord: whatever happens to records on their way, those that open   *)
(* are the first ones sealed, in order: for every form of protection,      *)
(* every text, and any number of records and faults.  The argument is that *)
(* a tag carries the number of its record, so that it never fits another,  *)
(* and that a tag that fits fixes the text.                                *)
(***************************************************************************)
EXTENDS Chain, AeadRecord, SequenceTheorems, FiniteSetTheorems, Induction, TLAPS

-----------------------------------------------------------------------------
(* The inductive invariant.                                                *)
Certificates == UNION {Offered[i] : i \in 1 .. MaxCerts}
GoodKey(key) == key.type \in {"rsa", "ec"} /\ ~key.weak
FitsIssuer(e, below) ==
  /\ e.kind = "basicConstraints" => e.ca /\ e.path >= below
  /\ e.kind = "keyUsage" => "certSign" \in e.bits
Named(c, names) == \E n \in names : Denotes(n, c.server)
(* The i-th certificate passes stage s of its decoding, said of the        *)
(* certificates as they are.                                               *)
Passed(c, i, s) ==
  LET crt == c.fed[i].cert
      before == c.fed[i - 1].cert
  IN  /\ crt.broken # s
      /\ s = 2 => crt.dated
      /\ s = 3 => i = 1 \/ crt.subject = before.issuer
      /\ s = 4 => GoodKey(crt.key) /\ (i = 1 \/ SignedWith(c, before, crt.key))
      /\ s = 5 => \A e \in ToSet(crt.exts) : Harmless(e) /\ (i = 1 \/ FitsIssuer(e, i - 2))
      /\ s = 6 => IF i = 1 THEN (c.server = <<>> \/ Named(c, NamesOf(crt))) /\ ~Directly(c, crt)
                  ELSE All(crt, "basicConstraints") # {}
      /\ s = 7 => crt.alg \in {"rsa", "ec"}
      /\ s = 8 => ~Anchored(c, crt)
PassedTo(c, n, s) ==
  \A i \in 1 .. n : \A t \in 1 .. Stages : i < n \/ t <= s => Passed(c, i, t)

(* The i-th certificate settles at stage s that the chain is good.         *)
Accepts(c, i, s) ==
  LET crt == c.fed[i].cert
  IN  /\ crt.broken # s
      /\ \/ s = 6 /\ i = 1 /\ (c.server = <<>> \/ Named(c, NamesOf(crt))) /\ Directly(c, crt)
         \/ s = 8 /\ Anchored(c, crt)

(* What the context holds of the certificate before the one being read,    *)
(* and of the end entity.                                                  *)
OfPrevious(c, crt) ==
  /\ c.at < 3 => c.saved = crt.issuer
  /\ c.at < 7 => c.signer = crt.alg
  /\ c.at < 8 => c.sig = crt.by
OfLeaf(c) == c.pkey = c.fed[1].cert.key /\ c.usages = UsagesOf(c.fed[1].cert)
(* What it holds of the one being read.                                    *)
OfCurrent(c, crt) ==
  /\ c.at >= 1 => c.next = crt.issuer
  /\ c.at >= 3 => c.current = crt.subject /\ c.saved = crt.issuer
  /\ c.at >= 7 => c.signer = crt.alg
  /\ c.at >= 8 => c.sig = crt.by
OfFirst(c, crt) ==
  /\ c.at >= 4 => c.pkey = crt.key
  /\ c.at >= 5 => c.usages = UsagesOf(crt)
  /\ c.server # <<>> => /\ c.at \in {3, 4} => c.named = Named(c, ToSet(crt.names))
                        /\ c.at >= 5 => c.named = Named(c, NamesOf(crt))
OfIssuer(c, crt) ==
  /\ c.at = 4 => c.seenBC = FALSE
  /\ c.at >= 5 => c.seenBC = (All(crt, "basicConstraints") # {})
Begun(c) == c.num = 0 /\ c.at < 5 => c.usages = AllUsages

Going(c) ==
  /\ c.err = "none" /\ c.num + 1 = Len(c.fed) /\ c.at \in 0 .. Stages
  /\ c.cert = c.fed[Len(c.fed)].cert /\ c.open = (c.at < Stages)
  /\ PassedTo(c, Len(c.fed), c.at)
  /\ OfCurrent(c, c.cert)
  /\ IF c.num = 0 THEN OfFirst(c, c.cert)
     ELSE OfIssuer(c, c.cert) /\ OfLeaf(c) /\ OfPrevious(c, c.fed[c.num].cert)

(* All the certificates given are good.                                    *)
AllGood(c) ==
  /\ c.num = Len(c.fed) /\ PassedTo(c, Len(c.fed), Stages)
  /\ \A i \in 1 .. Len(c.fed) : c.fed[i].got = Stages
  /\ c.num > 0 =>
       LET last == c.fed[c.num].cert
       IN  c.saved = last.issuer /\ c.signer = last.alg /\ c.sig = last.by /\ OfLeaf(c)

(* Decided at a stage of the last one.                                     *)
DecidedAt(c, s) ==
  /\ s <= c.fed[Len(c.fed)].got
  /\ PassedTo(c, Len(c.fed), s - 1) /\ ~Passed(c, Len(c.fed), s)
  /\ c.err = "ok" <=> Accepts(c, Len(c.fed), s)
Decided(c) ==
  /\ c.err \notin {"none", "NOT_TRUSTED"} /\ c.fed # <<>>
  /\ \E s \in 1 .. Stages : DecidedAt(c, s)
  /\ c.err = "ok" => OfLeaf(c)

(* Cut short: in the last one, or at a certificate without bytes.          *)
Cut(c, count) ==
  /\ c.err = "TRUNCATED"
  /\ \/ count > Len(c.fed) /\ PassedTo(c, Len(c.fed), Stages)
     \/ /\ c.fed # <<>> /\ c.fed[Len(c.fed)].got < Stages
        /\ PassedTo(c, Len(c.fed), c.fed[Len(c.fed)].got)

IsContext(c) ==
  /\ c = [f \in DOMAIN NoChain |-> c[f]]
  /\ c.num \in Nat
  /\ c.fed \in Seq([cert : Certificates, got : 0 .. Stages])
  /\ \A i \in 1 .. Len(c.fed) - 1 : c.fed[i].got = Stages
  /\ IsName(c.server)

Between(c) == (c.err = "none" /\ AllGood(c)) \/ Decided(c) \/ Cut(c, c.num)
Within(c) ==
  \/ Going(c) /\ (c.at > 0 => Begun(c)) /\ c.fed[Len(c.fed)].got = c.at
  \/ Decided(c)
  \/ Cut(c, c.num + 1)
Over(c) ==
  \/ c.err = "EMPTY_CHAIN" /\ c.num = 0 /\ c.fed = <<>>
  \/ c.err = "NOT_TRUSTED" /\ c.num > 0 /\ AllGood(c)
  \/ Decided(c)
  \/ Cut(c, c.num)
ChainInv(c) ==
  \/ c = NoChain
  \/ c.pc = "ready" /\ c \in Contexts
  \/ /\ IsContext(c)
     /\ \/ c.pc = "chain" /\ Between(c)
        \/ c.pc = "cert" /\ Within(c)
        \/ c.pc = "ended" /\ Over(c)

-----------------------------------------------------------------------------
(* Contexts as records.                                                    *)
Fields == {"pc", "anchors", "verifiers", "server", "err", "num", "open", "at", "cert", "next", "current",
           "saved", "pkey", "usages", "named", "seenBC", "signer", "sig", "fed"}
IsRecord(c) == c = [f \in Fields |-> c[f]]
Only(c, d, F) == IsRecord(d) /\ \A f \in Fields \ F : d[f] = c[f]

(* A context that is not set up has every field.                           *)
LEMMA NoChainFields == DOMAIN NoChain = Fields /\ IsRecord(NoChain)
BY DEF NoChain, FreshContext, Fields, IsRecord

(* One field of a record is set, the others stay.                          *)
LEMMA Update ==
  ASSUME NEW c, IsRecord(c), NEW g \in Fields, NEW v
  PROVE  Only(c, [c EXCEPT ![g] = v], {g}) /\ [c EXCEPT ![g] = v][g] = v
<1>1. DOMAIN c = Fields
  BY DEF IsRecord
<1> QED BY <1>1 DEF IsRecord, Only

(* fail sets the error and nothing else.                                   *)
LEMMA FailFacts ==
  ASSUME NEW c, IsRecord(c), NEW e
  PROVE  Only(c, Fail(c, e), {"err"}) /\ Fail(c, e).err = e
BY Update, "err" \in Fields DEF Fail, Fields

(* What a context has that is not touched by its decoder.                  *)
LEMMA OnlySame ==
  ASSUME NEW c, NEW d, NEW F, Only(c, d, F)
  PROVE  /\ IsRecord(d)
         /\ "pc" \notin F => d.pc = c.pc
         /\ "anchors" \notin F => d.anchors = c.anchors
         /\ "verifiers" \notin F => d.verifiers = c.verifiers
         /\ "server" \notin F => d.server = c.server
         /\ "err" \notin F => d.err = c.err
         /\ "num" \notin F => d.num = c.num
         /\ "open" \notin F => d.open = c.open
         /\ "at" \notin F => d.at = c.at
         /\ "cert" \notin F => d.cert = c.cert
         /\ "next" \notin F => d.next = c.next
         /\ "current" \notin F => d.current = c.current
         /\ "saved" \notin F => d.saved = c.saved
         /\ "pkey" \notin F => d.pkey = c.pkey
         /\ "usages" \notin F => d.usages = c.usages
         /\ "named" \notin F => d.named = c.named
         /\ "seenBC" \notin F => d.seenBC = c.seenBC
         /\ "signer" \notin F => d.signer = c.signer
         /\ "sig" \notin F => d.sig = c.sig
         /\ "fed" \notin F => d.fed = c.fed
BY DEF Only, Fields

-----------------------------------------------------------------------------
(* Names.                                                                  *)
LEMMA WildName ==
  ASSUME NEW S, NEW found \in Seq(S), NEW t \in Seq(S), "*" \in S, "." \in S
  PROVE  IsPrefix(<<"*", ".">>, found) /\ SubSeq(found, 3, Len(found)) = t
         <=> found = <<"*">> \o (<<".">> \o t)
<1> DEFINE w == <<"*">> \o (<<".">> \o t)
<1>1. /\ w \in Seq(S) /\ Len(w) = Len(t) + 2 /\ Len(t) \in Nat /\ Len(found) \in Nat
      /\ w[1] = "*" /\ w[2] = "." /\ \A i \in 3 .. Len(w) : w[i] = t[i - 2]
  <2>1. <<"*">> \in Seq(S) /\ <<".">> \in Seq(S) /\ Len(t) \in Nat /\ Len(found) \in Nat
    OBVIOUS
  <2> DEFINE u == <<".">> \o t
  <2>2. u \in Seq(S) /\ Len(u) = Len(t) + 1 /\ u[1] = "." /\ \A i \in 2 .. Len(u) : u[i] = t[i - 1]
    BY <2>1, ConcatProperties
  <2> HIDE DEF u
  <2>3. /\ <<"*">> \o u \in Seq(S) /\ Len(<<"*">> \o u) = Len(u) + 1 /\ (<<"*">> \o u)[1] = "*"
        /\ \A i \in 2 .. Len(u) + 1 : (<<"*">> \o u)[i] = u[i - 1]
    BY <2>1, <2>2, ConcatProperties
  <2>4. w = <<"*">> \o u
    BY DEF u
  <2> HIDE DEF w
  <2>5. w \in Seq(S) /\ Len(w) = Len(t) + 2 /\ w[1] = "*" /\ w[2] = "."
    BY <2>1, <2>2, <2>3, <2>4
  <2>6. ASSUME NEW i \in 3 .. Len(w) PROVE w[i] = t[i - 2]
    <3>1. i \in 2 .. Len(u) + 1 /\ i - 1 \in 2 .. Len(u) /\ (i - 1) - 1 = i - 2
      BY <2>1, <2>2, <2>5
    <3> QED BY <2>2, <2>3, <2>4, <3>1
  <2> QED BY <2>1, <2>5, <2>6
<1> HIDE DEF w
<1> DEFINE rest == SubSeq(found, 3, Len(found))
           star == <<"*", ".">>
<1>2. ASSUME Len(found) >= 2
      PROVE  rest \in Seq(S) /\ Len(rest) = Len(found) - 2 /\ \A i \in 1 .. Len(found) - 2 : rest[i] = found[i + 2]
  <2>1. \A i \in 3 .. Len(found) : found[i] \in S
    BY <1>1, ElementOfSeq
  <2>2. /\ rest \in Seq(S) /\ Len(rest) = (IF 3 <= Len(found) THEN Len(found) - 3 + 1 ELSE 0)
        /\ \A i \in 1 .. Len(found) - 3 + 1 : rest[i] = found[3 + i - 1]
    BY <1>1, <2>1, SubSeqProperties
  <2> HIDE DEF rest
  <2>3. Len(rest) = Len(found) - 2
    <3>1. Len(found) \in Nat /\ Len(found) >= 2 /\ Len(rest) = (IF 3 <= Len(found) THEN Len(found) - 3 + 1 ELSE 0)
      BY <1>1, <1>2, <2>2
    <3>2. PICK l \in Nat : l = Len(found)
      BY <3>1
    <3>3. PICK m : m = Len(rest)
      OBVIOUS
    <3>4. l >= 2 /\ m = IF 3 <= l THEN l - 3 + 1 ELSE 0
      BY <3>1, <3>2, <3>3, Zenon
    <3>5. m = l - 2
      BY <3>4
    <3> QED BY <3>2, <3>3, <3>5, Zenon
  <2>4. ASSUME NEW i \in 1 .. Len(found) - 2 PROVE rest[i] = found[i + 2]
    <3>1. i \in 1 .. Len(found) - 3 + 1 /\ 3 + i - 1 = i + 2
      BY <1>1
    <3> QED BY <2>2, <3>1
  <2> QED BY <2>2, <2>3, <2>4
<1>3. IsPrefix(star, found) <=> Len(found) >= 2 /\ found[1] = "*" /\ found[2] = "."
  <2>1. /\ Len(star) = 2 /\ SubSeq(star, 1, 2) \in Seq(S) /\ Len(SubSeq(star, 1, 2)) = 2
        /\ SubSeq(star, 1, 2)[1] = "*" /\ SubSeq(star, 1, 2)[2] = "."
    <3>1. \A i \in 1 .. 2 : star[i] \in S
      OBVIOUS
    <3>2. /\ SubSeq(star, 1, 2) \in Seq(S) /\ Len(SubSeq(star, 1, 2)) = 2
          /\ \A i \in 1 .. 2 : SubSeq(star, 1, 2)[i] = star[1 + i - 1]
      BY <3>1, SubSeqProperties
    <3> QED BY <3>2
  <2>2. ASSUME Len(found) >= 2
        PROVE  /\ SubSeq(found, 1, 2) \in Seq(S) /\ Len(SubSeq(found, 1, 2)) = 2
               /\ SubSeq(found, 1, 2)[1] = found[1] /\ SubSeq(found, 1, 2)[2] = found[2]
    <3>1. \A i \in 1 .. 2 : found[i] \in S
      BY <1>1, <2>2, ElementOfSeq
    <3>2. /\ SubSeq(found, 1, 2) \in Seq(S) /\ Len(SubSeq(found, 1, 2)) = 2
          /\ \A i \in 1 .. 2 : SubSeq(found, 1, 2)[i] = found[1 + i - 1]
      BY <3>1, SubSeqProperties
    <3> QED BY <3>2
  <2> HIDE DEF star
  <2>3. ASSUME Len(found) >= 2, found[1] = "*", found[2] = "." PROVE SubSeq(star, 1, 2) = SubSeq(found, 1, 2)
    <3>1. \A i \in 1 .. 2 : SubSeq(star, 1, 2)[i] = SubSeq(found, 1, 2)[i]
      BY <2>1, <2>2, <2>3
    <3> QED BY <2>1, <2>2, <2>3, <3>1, SeqEqual
  <2>4. IsPrefix(star, found) <=> 2 <= Len(found) /\ SubSeq(star, 1, 2) = SubSeq(found, 1, 2)
    BY <2>1 DEF IsPrefix
  <2> QED BY <1>1, <2>1, <2>2, <2>3, <2>4
<1> HIDE DEF rest
<1>4. ASSUME IsPrefix(star, found), rest = t PROVE found = w
  <2>1. Len(found) = Len(w)
    BY <1>1, <1>2, <1>3, <1>4
  <2>2. ASSUME NEW i \in 1 .. Len(found) PROVE found[i] = w[i]
    <3>1. CASE i \in 3 .. Len(w)
      <4>1. i - 2 \in 1 .. Len(found) - 2 /\ (i - 2) + 2 = i
        BY <1>1, <2>1, <3>1
      <4> QED BY <1>1, <1>2, <1>3, <1>4, <3>1, <4>1
    <3>2. CASE i \notin 3 .. Len(w)
      <4>1. i = 1 \/ i = 2
        BY <1>1, <2>1, <3>2
      <4> QED BY <1>1, <1>3, <1>4, <4>1
    <3> QED BY <3>1, <3>2
  <2> QED BY <1>1, <2>1, <2>2, SeqEqual
<1>5. ASSUME found = w PROVE IsPrefix(star, found) /\ rest = t
  <2>1. Len(found) >= 2 /\ IsPrefix(star, found)
    BY <1>1, <1>3, <1>5
  <2>2. rest \in Seq(S) /\ Len(rest) = Len(t)
    BY <1>1, <1>2, <1>5, <2>1
  <2>3. ASSUME NEW i \in 1 .. Len(rest) PROVE rest[i] = t[i]
    <3>1. i \in 1 .. Len(found) - 2 /\ i + 2 \in 3 .. Len(w) /\ (i + 2) - 2 = i
      BY <1>1, <1>5, <2>2
    <3> QED BY <1>1, <1>2, <1>5, <2>1, <3>1
  <2> QED BY <2>1, <2>2, <2>3, SeqEqual
<1> QED BY <1>4, <1>5 DEF rest, w

(* The decoder compares a name with "*." by the first dot; it is the one   *)
(* with no dot before it.                                                  *)
LEMMA MatchLemma ==
  ASSUME NEW found, IsName(found), NEW name, IsName(name), name # <<>>
  PROVE  MatchServerName(found, name) <=> Denotes(found, name)
<1> DEFINE S == ToSet(found) \union ToSet(name) \union {"*", "."}
           rest(i) == SubSeq(name, i, Len(name))
           dots == {i \in 1 .. Len(name) : name[i] = "."}
           first(i) == i \in dots /\ \A j \in dots : i <= j
<1>1. found \in Seq(S) /\ name \in Seq(S) /\ "*" \in S /\ "." \in S
  <2>1. ToSet(found) \subseteq S /\ ToSet(name) \subseteq S
    OBVIOUS
  <2> HIDE DEF S
  <2>2. found \in Seq(S) /\ name \in Seq(S)
    BY <2>1, SeqMonotonic DEF IsName
  <2> QED BY <2>2 DEF S
<1> HIDE DEF S
<1>2. Len(name) \in Nat /\ \A i \in 1 .. Len(name) : name[i] \in S
  BY <1>1, ElementOfSeq
<1>3. \A i \in 1 .. Len(name) + 1 : rest(i) \in Seq(S)
  <2> SUFFICES ASSUME NEW i \in 1 .. Len(name) + 1 PROVE rest(i) \in Seq(S)
    OBVIOUS
  <2>1. \A k \in i .. Len(name) : name[k] \in S
    BY <1>2
  <2> QED BY <1>2, <2>1, SubSeqProperties
<1>4. ASSUME NEW i \in dots
      PROVE  IsPrefix(<<"*", ".">>, found) /\ SubSeq(found, 3, Len(found)) = rest(i + 1)
             <=> found = <<"*">> \o rest(i)
  <2>1. rest(i) = <<name[i]>> \o rest(i + 1)
    <3>1. i \in 1 .. Len(name) /\ Len(name) \in i .. Len(name)
      BY <1>2
    <3> QED BY <1>1, <3>1, SubSeqRecursiveFirst
  <2>2. rest(i + 1) \in Seq(S)
    <3>1. i + 1 \in 1 .. Len(name) + 1
      BY <1>2
    <3> QED BY <1>3, <3>1
  <2>3. name[i] = "."
    OBVIOUS
  <2> DEFINE t == rest(i + 1)
  <2>4. /\ t \in Seq(S) /\ rest(i) = <<".">> \o t
    BY <2>1, <2>2, <2>3
  <2> HIDE DEF rest, t
  <2>5. IsPrefix(<<"*", ".">>, found) /\ SubSeq(found, 3, Len(found)) = t
        <=> found = <<"*">> \o (<<".">> \o t)
    BY <1>1, <2>4, WildName
  <2> QED BY <2>4, <2>5 DEF t
<1>5. ASSUME NEW i \in dots
      PROVE  "." \notin ToSet(SubSeq(name, 1, i - 1)) <=> first(i)
  <2> DEFINE p == SubSeq(name, 1, i - 1)
  <2>1. \A k \in 1 .. i - 1 : name[k] \in S
    BY <1>2
  <2>2. /\ p \in Seq(S) /\ Len(p) = (IF 1 <= i - 1 THEN (i - 1) - 1 + 1 ELSE 0)
        /\ \A k \in 1 .. (i - 1) - 1 + 1 : p[k] = name[1 + k - 1]
    BY <1>2, <2>1, SubSeqProperties
  <2> HIDE DEF p
  <2>3. DOMAIN p = 1 .. i - 1
    BY <1>2, <2>2, LenProperties
  <2>4. \A k \in 1 .. i - 1 : p[k] = name[k]
    BY <1>2, <2>2
  <2>5. "." \in ToSet(p) <=> \E k \in 1 .. i - 1 : name[k] = "."
    BY <2>3, <2>4 DEF ToSet
  <2>6. (\E k \in 1 .. i - 1 : name[k] = ".") <=> \E k \in dots : k < i
    BY <1>2
  <2>7. first(i) <=> ~\E k \in dots : k < i
    BY <1>2
  <2> QED BY <2>5, <2>6, <2>7 DEF p
<1> HIDE DEF rest
<1>6. dots # {} => \E i \in dots : first(i)
  <2>1. dots \in SUBSET Nat
    BY <1>2
  <2> HIDE DEF dots
  <2> QED BY <2>1, LeastMember
<1>7. \A i, j : first(i) /\ first(j) => i = j
  BY <1>2
<1> DEFINE u == CHOOSE i \in dots : \A j \in dots : i <= j
<1>8. dots # {} => first(u)
  <2> HIDE DEF dots
  <2> QED BY <1>6
<1>9. MatchServerName(found, name) <=>
        \/ found = name
        \/ IsPrefix(<<"*", ".">>, found) /\ dots # {} /\ SubSeq(found, 3, Len(found)) = rest(u + 1)
  BY DEF MatchServerName, rest
<1>10. Denotes(found, name) <=> found = name \/ \E i \in dots : first(i) /\ found = <<"*">> \o rest(i)
  <2>1. Denotes(found, name) <=>
          \/ found = name
          \/ \E i \in dots : "." \notin ToSet(SubSeq(name, 1, i - 1)) /\ found = <<"*">> \o rest(i)
    BY DEF Denotes, rest
  <2> HIDE DEF dots, first
  <2> QED BY <1>5, <2>1
<1>11. first(u) => u \in dots
  OBVIOUS
<1> HIDE DEF dots, first, u
<1>12. CASE dots = {}
  BY <1>9, <1>10, <1>12
<1>13. CASE dots # {}
  <2>1. u \in dots /\ first(u)
    BY <1>8, <1>11, <1>13
  <2>2. IsPrefix(<<"*", ".">>, found) /\ SubSeq(found, 3, Len(found)) = rest(u + 1)
        <=> found = <<"*">> \o rest(u)
    BY <1>4, <2>1
  <2>3. (\E i \in dots : first(i) /\ found = <<"*">> \o rest(i)) <=> found = <<"*">> \o rest(u)
    BY <1>7, <2>1
  <2> QED BY <1>9, <1>10, <1>13, <2>2, <2>3
<1> QED BY <1>12, <1>13

(* One of the names read matches the one expected.                         *)
LEMMA NamesMatch ==
  ASSUME NEW c, NEW names, IsName(names), \A n \in ToSet(names) : IsName(n),
         IsName(c.server), c.server # <<>>
  PROVE  (\E i \in 1 .. Len(names) : MatchServerName(names[i], c.server)) = Named(c, ToSet(names))
<1> DEFINE S == ToSet(names)
<1>1. names \in Seq(S)
  BY DEF IsName
<1>2. DOMAIN names = 1 .. Len(names)
  BY <1>1, LenProperties
<1>3. \A i \in 1 .. Len(names) : names[i] \in ToSet(names)
  BY <1>2 DEF ToSet
<1>4. \A n \in ToSet(names) : \E i \in 1 .. Len(names) : n = names[i]
  BY <1>2 DEF ToSet
<1>5. \A n \in ToSet(names) : MatchServerName(n, c.server) <=> Denotes(n, c.server)
  BY MatchLemma
<1>6. (\E i \in 1 .. Len(names) : MatchServerName(names[i], c.server)) <=> \E n \in ToSet(names) : Denotes(n, c.server)
  BY <1>3, <1>4, <1>5
<1> QED BY <1>6 DEF Named

-----------------------------------------------------------------------------
(* One stage of the decoder.                                               *)
Outcome(c, d, s) ==
  \/ d.err = "none" /\ Passed(c, Len(c.fed), s)
  \/ d.err \notin {"none", "ok", "NOT_TRUSTED"} /\ ~Passed(c, Len(c.fed), s) /\ ~Accepts(c, Len(c.fed), s)
  \/ d.err = "ok" /\ ~Passed(c, Len(c.fed), s) /\ Accepts(c, Len(c.fed), s)
StageFields == {"err", "at", "open", "next", "current", "saved", "pkey", "usages", "named", "seenBC",
                "signer", "sig"}
Kept(c, d) ==
  /\ OfCurrent(d, c.cert)
  /\ c.num = 0 => OfFirst(d, c.cert)
  /\ c.num > 0 => OfIssuer(d, c.cert) /\ OfLeaf(d) /\ OfPrevious(d, c.fed[c.num].cert)
StageDone(c, d, s) ==
  /\ Only(c, d, StageFields)
  /\ Outcome(c, d, s)
  /\ d.err = "none" => d.at = s /\ d.open = (s < Stages) /\ Kept(c, d) /\ Begun(d)
  /\ d.err = "ok" => OfLeaf(d)
Reading(c, s) == IsContext(c) /\ Going(c) /\ Begun(c) /\ c.at = s - 1

(* What is known when a stage of the decoding begins.                      *)
LEMMA ReadingFacts ==
  ASSUME NEW c, NEW s \in 1 .. Stages, Reading(c, s)
  PROVE  /\ IsRecord(c) /\ c.err = "none" /\ c.num \in Nat /\ Len(c.fed) = c.num + 1 /\ c.at = s - 1
         /\ c.cert = c.fed[Len(c.fed)].cert /\ c.open = (s - 1 < Stages)
         /\ c.cert = c.fed[c.num + 1].cert /\ (c.num = 0 => c.cert = c.fed[1].cert)
         /\ OfCurrent(c, c.cert) /\ (c.num = 0 => OfFirst(c, c.cert) /\ (s < 6 => c.usages = AllUsages))
         /\ c.num > 0 => OfIssuer(c, c.cert) /\ OfLeaf(c) /\ OfPrevious(c, c.fed[c.num].cert)
         /\ IsCertificate(c.cert) /\ IsName(c.server) /\ c.fed # <<>>
         /\ Stages = 8
<1>1. IsRecord(c)
  BY NoChainFields DEF Reading, IsContext, IsRecord
<1>2. c.fed \in Seq([cert : Certificates, got : 0 .. Stages]) /\ c.num \in Nat /\ Len(c.fed) = c.num + 1
  BY DEF Reading, IsContext, Going
<1>3. c.fed[Len(c.fed)] \in [cert : Certificates, got : 0 .. Stages] /\ c.fed # <<>>
  <2>1. Len(c.fed) \in 1 .. Len(c.fed) /\ c.fed # <<>>
    BY <1>2
  <2> QED BY <1>2, <2>1, ElementOfSeq
<1>4. c.cert = c.fed[Len(c.fed)].cert
  BY DEF Reading, Going
<1>5. c.cert \in Certificates
  BY <1>3, <1>4
<1>6. IsCertificate(c.cert)
  BY <1>5, ChainAssumption DEF Certificates
<1>7. /\ OfCurrent(c, c.cert) /\ (c.num = 0 => OfFirst(c, c.cert))
      /\ c.num > 0 => OfIssuer(c, c.cert) /\ OfLeaf(c) /\ OfPrevious(c, c.fed[c.num].cert)
      /\ c.err = "none" /\ c.at = s - 1 /\ c.open = (c.at < Stages)
  BY <1>2 DEF Reading, Going
<1>8. c.num = 0 /\ s < 6 => c.usages = AllUsages
  BY <1>2, <1>7 DEF Reading, Begun
<1>9. IsName(c.server)
  BY DEF Reading, IsContext
<1> QED BY <1>1, <1>2, <1>3, <1>4, <1>6, <1>7, <1>8, <1>9 DEF Stages

(* A stage first notes how far the decoder is.                             *)
LEMMA AtFacts ==
  ASSUME NEW c, NEW s \in 1 .. Stages, Reading(c, s), NEW e, e = [c EXCEPT !.at = s]
  PROVE  Only(c, e, {"at"}) /\ e.at = s
<1>1. IsRecord(c)
  BY ReadingFacts
<1>2. "at" \in Fields
  BY DEF Fields
<1> QED BY <1>1, <1>2, Update

(* An error that leaves the chain refused.                                 *)
LEMMA Refused ==
  ASSUME NEW c, NEW s \in 1 .. Stages, Reading(c, s), NEW e, Only(c, e, StageFields), NEW o,
         o \notin {"none", "ok", "NOT_TRUSTED"}, ~Passed(c, Len(c.fed), s), ~Accepts(c, Len(c.fed), s)
  PROVE  StageDone(c, Fail(e, o), s)
<1>1. IsRecord(e)
  BY DEF Only
<1>2. Only(e, Fail(e, o), {"err"}) /\ Fail(e, o).err = o
  BY <1>1, FailFacts
<1>3. Only(c, Fail(e, o), StageFields)
  BY <1>2 DEF Only, StageFields
<1> QED BY <1>2, <1>3 DEF StageDone, Outcome

(* A certificate whose encoding is wrong at this stage is refused.         *)
LEMMA Malformed ==
  ASSUME NEW c, NEW s \in 1 .. Stages, Reading(c, s), c.cert.broken = s
  PROVE  StageDone(c, DecodeStage(c, s), s)
<1>1. c.err = "none" /\ IsRecord(c) /\ c.cert = c.fed[Len(c.fed)].cert
  BY ReadingFacts
<1>2. DecodeStage(c, s) = Fail(c, "MALFORMED")
  BY <1>1 DEF DecodeStage
<1>3. ~Passed(c, Len(c.fed), s) /\ ~Accepts(c, Len(c.fed), s)
  BY <1>1 DEF Passed, Accepts
<1>4. Only(c, c, StageFields)
  BY <1>1 DEF Only
<1> QED BY <1>2, <1>3, <1>4, Refused

(* What is held of the end entity and of the certificate before.           *)
LEMMA HeldSame ==
  ASSUME NEW c, NEW s \in 1 .. Stages, Reading(c, s), c.num > 0, NEW d,
         d.pkey = c.pkey, d.usages = c.usages, d.fed = c.fed, d.at = s
  PROVE  /\ OfLeaf(d)
         /\ /\ s < 3 => d.saved = c.saved
            /\ s < 7 => d.signer = c.signer
            /\ s < 8 => d.sig = c.sig
            => OfPrevious(d, c.fed[c.num].cert)
<1>1. OfLeaf(c) /\ c.at = s - 1 /\ s \in Nat
  BY ReadingFacts DEF Stages
<1>2. OfLeaf(d)
  BY <1>1 DEF OfLeaf
<1> DEFINE crt == c.fed[c.num].cert
<1>3. OfPrevious(c, crt)
  BY ReadingFacts
<1> HIDE DEF crt
<1>4. /\ s < 3 => c.saved = crt.issuer
      /\ s < 7 => c.signer = crt.alg
      /\ s < 8 => c.sig = crt.by
  BY <1>1, <1>3 DEF OfPrevious
<1>5. /\ s < 3 => d.saved = c.saved
      /\ s < 7 => d.signer = c.signer
      /\ s < 8 => d.sig = c.sig
      => OfPrevious(d, crt)
  BY <1>4 DEF OfPrevious
<1> QED BY <1>2, <1>5 DEF crt

(* decode-certificate reads the issuer.                                    *)
LEMMA Stage1 ==
  ASSUME NEW c, Reading(c, 1), c.cert.broken # 1, NEW e, Only(c, e, {"at"}), e.at = 1
  PROVE  StageDone(c, ReadIssuer(e), 1)
<1> DEFINE d == ReadIssuer(e)
<1>0. 1 \in 1 .. Stages
  BY DEF Stages
<1>1. Only(e, d, {"next"}) /\ d.next = e.cert.issuer
  <2>1. IsRecord(e) /\ "next" \in Fields
    BY OnlySame DEF Fields
  <2> QED BY <2>1, Update DEF ReadIssuer
<1>2. Only(c, d, {"at", "next"})
  BY <1>1 DEF Only
<1>3. Only(c, d, StageFields)
  BY <1>2 DEF Only, StageFields
<1> HIDE DEF d
<1>4. d.next = c.cert.issuer /\ d.at = 1
  BY <1>1, OnlySame
<1>5. Passed(c, Len(c.fed), 1)
  BY <1>0, ReadingFacts DEF Passed
<1>6. Outcome(c, d, 1)
  BY <1>0, <1>2, <1>5, OnlySame, ReadingFacts DEF Outcome
<1>10. /\ d.saved = c.saved /\ d.signer = c.signer /\ d.sig = c.sig /\ d.fed = c.fed
       /\ d.pkey = c.pkey /\ d.usages = c.usages
  BY <1>2, OnlySame
<1>7. Kept(c, d)
  <2>1. OfCurrent(d, c.cert) /\ (c.num = 0 => OfFirst(d, c.cert))
    BY <1>4 DEF OfCurrent, OfFirst
  <2>2. c.num > 0 => OfIssuer(d, c.cert) /\ OfLeaf(d) /\ OfPrevious(d, c.fed[c.num].cert)
    BY <1>0, <1>4, <1>10, HeldSame DEF OfIssuer
  <2> QED BY <2>1, <2>2 DEF Kept
<1>8. Begun(d) /\ d.open = (1 < Stages) /\ d.err = "none"
  BY <1>0, <1>2, OnlySame, ReadingFacts DEF Begun
<1>9. d.err # "ok"
  BY <1>8
<1> QED BY <1>3, <1>4, <1>6, <1>7, <1>8, <1>9 DEF StageDone, d

(* It compares the validity with the time.                                 *)
LEMMA Stage2 ==
  ASSUME NEW c, Reading(c, 2), c.cert.broken # 2, NEW e, Only(c, e, {"at"}), e.at = 2
  PROVE  StageDone(c, CheckValidity(e), 2)
<1>0. 2 \in 1 .. Stages
  BY DEF Stages
<1>1. IsRecord(e) /\ e.cert = c.cert
  BY OnlySame
<1>2. Only(c, e, StageFields)
  BY DEF Only, StageFields
<1>3. CASE ~c.cert.dated
  <2>1. ~Passed(c, Len(c.fed), 2) /\ ~Accepts(c, Len(c.fed), 2)
    BY <1>0, <1>3, ReadingFacts DEF Passed, Accepts
  <2>2. CheckValidity(e) = Fail(e, "EXPIRED")
    BY <1>1, <1>3 DEF CheckValidity
  <2> QED BY <1>0, <1>2, <2>1, <2>2, Refused
<1>4. CASE c.cert.dated
  <2>1. CheckValidity(e) = e
    BY <1>1, <1>4 DEF CheckValidity
  <2>2. Passed(c, Len(c.fed), 2)
    BY <1>0, <1>4, ReadingFacts DEF Passed
  <2>3. Outcome(c, e, 2)
    BY <1>0, <2>2, OnlySame, ReadingFacts DEF Outcome
  <2>7. /\ e.saved = c.saved /\ e.signer = c.signer /\ e.sig = c.sig /\ e.fed = c.fed /\ e.num = c.num
        /\ e.pkey = c.pkey /\ e.usages = c.usages /\ e.next = c.next /\ e.err = c.err /\ e.open = c.open
    BY OnlySame
  <2>4. Kept(c, e)
    <3>1. OfCurrent(e, c.cert) /\ (c.num = 0 => OfFirst(e, c.cert))
      BY <1>0, <2>7, ReadingFacts DEF OfCurrent, OfFirst
    <3>2. c.num > 0 => OfIssuer(e, c.cert) /\ OfLeaf(e) /\ OfPrevious(e, c.fed[c.num].cert)
      BY <1>0, <2>7, HeldSame DEF OfIssuer
    <3> QED BY <3>1, <3>2 DEF Kept
  <2>5. Begun(e) /\ e.open = (2 < Stages) /\ e.err = "none"
    BY <1>0, <2>7, ReadingFacts DEF Begun
  <2>6. e.err # "ok"
    BY <2>5
  <2> QED BY <1>2, <2>1, <2>3, <2>4, <2>5, <2>6 DEF StageDone
<1> QED BY <1>3, <1>4

(* What it takes to pass, in terms of the context.                         *)
LEMMA PassedNow ==
  ASSUME NEW c, NEW s \in 1 .. Stages, Reading(c, s), c.cert.broken # s,
         NEW crt, crt = c.cert, NEW before, before = c.fed[c.num].cert
  PROVE  /\ Passed(c, Len(c.fed), s) <=>
              /\ s = 2 => crt.dated
              /\ s = 3 => c.num = 0 \/ crt.subject = before.issuer
              /\ s = 4 => GoodKey(crt.key) /\ (c.num = 0 \/ SignedWith(c, before, crt.key))
              /\ s = 5 => \A e \in ToSet(crt.exts) : Harmless(e) /\ (c.num = 0 \/ FitsIssuer(e, c.num - 1))
              /\ s = 6 => IF c.num = 0 THEN (c.server = <<>> \/ Named(c, NamesOf(crt))) /\ ~Directly(c, crt)
                          ELSE All(crt, "basicConstraints") # {}
              /\ s = 7 => crt.alg \in {"rsa", "ec"}
              /\ s = 8 => ~Anchored(c, crt)
         /\ Accepts(c, Len(c.fed), s) <=>
              \/ s = 6 /\ c.num = 0 /\ (c.server = <<>> \/ Named(c, NamesOf(crt))) /\ Directly(c, crt)
              \/ s = 8 /\ Anchored(c, crt)
<1>1. /\ Len(c.fed) = c.num + 1 /\ c.num \in Nat /\ c.cert = c.fed[Len(c.fed)].cert
  BY ReadingFacts
<1>2. /\ Len(c.fed) - 1 = c.num /\ Len(c.fed) - 2 = c.num - 1
      /\ Len(c.fed) = 1 <=> c.num = 0
  BY <1>1
<1> DEFINE n == Len(c.fed)
<1>3. c.fed[n].cert = crt /\ c.fed[n - 1].cert = before /\ n - 2 = c.num - 1 /\ (n = 1 <=> c.num = 0)
  BY <1>1, <1>2
<1> HIDE DEF n
<1>4. QED BY <1>3 DEF Passed, Accepts, n

(* It reads the subject, which must be the issuer of the one before.       *)
LEMMA Stage3 ==
  ASSUME NEW c, Reading(c, 3), c.cert.broken # 3, NEW e, Only(c, e, {"at"}), e.at = 3
  PROVE  StageDone(c, ReadSubject(e), 3)
<1> DEFINE d == ReadSubject(e)
<1>0. 3 \in 1 .. Stages
  BY DEF Stages
<1>1. IsRecord(e) /\ e.cert = c.cert /\ e.num = c.num /\ e.saved = c.saved /\ e.next = c.next /\ e.server = c.server
  BY OnlySame
<1>2. Only(c, e, StageFields)
  BY DEF Only, StageFields
<1> DEFINE crt == c.cert
           before == c.fed[c.num].cert
<1>3. c.num > 0 => c.saved = before.issuer
  BY <1>0, ReadingFacts DEF OfPrevious
<1>4. Passed(c, Len(c.fed), 3) <=> c.num = 0 \/ crt.subject = before.issuer
  BY <1>0, PassedNow
<1>5. ~Accepts(c, Len(c.fed), 3)
  BY <1>0, PassedNow
<1>6. CASE c.num # 0 /\ crt.subject # c.saved
  <2>1. ~Passed(c, Len(c.fed), 3)
    BY <1>0, <1>3, <1>4, <1>6, ReadingFacts
  <2>2. d = Fail(e, "DN_MISMATCH")
    BY <1>1, <1>6 DEF ReadSubject, EE
  <2> QED BY <1>0, <1>2, <1>5, <2>1, <2>2, Refused
<1>7. CASE ~(c.num # 0 /\ crt.subject # c.saved)
  <2> DEFINE ok == EE(e) /\ \E i \in 1 .. Len(e.cert.names) : MatchServerName(e.cert.names[i], e.server)
             e1 == [e EXCEPT !.current = e.cert.subject]
             e2 == [e1 EXCEPT !.saved = e.next]
             e3 == [e2 EXCEPT !.named = ok]
  <2>1. d = e3
    BY <1>1, <1>7 DEF ReadSubject, EE
  <2>2. "current" \in Fields /\ "saved" \in Fields /\ "named" \in Fields
    BY DEF Fields
  <2> HIDE DEF ok
  <2>3. Only(e, e1, {"current"}) /\ e1.current = e.cert.subject
    BY <1>1, <2>2, Update
  <2> HIDE DEF e1
  <2>4. Only(e1, e2, {"saved"}) /\ e2.saved = e.next
    BY <2>2, <2>3, Update, OnlySame
  <2> HIDE DEF e2
  <2>5. Only(e2, e3, {"named"}) /\ e3.named = ok
    BY <2>2, <2>4, Update, OnlySame
  <2> HIDE DEF e3, d
  <2>6. Only(e, d, {"current", "saved", "named"})
    BY <2>1, <2>3, <2>4, <2>5 DEF Only
  <2>7. Only(c, d, StageFields)
    BY <2>6 DEF Only, StageFields
  <2>8. d.current = crt.subject /\ d.saved = c.next /\ d.named = ok
    <3>1. e2.current = e1.current /\ e3.current = e2.current /\ e3.saved = e2.saved
      BY <2>4, <2>5, OnlySame
    <3> QED BY <1>1, <2>1, <2>3, <2>4, <2>5, <3>1
  <2>9. /\ d.signer = c.signer /\ d.sig = c.sig /\ d.fed = c.fed /\ d.num = c.num /\ d.at = 3 /\ d.server = c.server
        /\ d.pkey = c.pkey /\ d.usages = c.usages /\ d.next = c.next /\ d.err = c.err /\ d.open = c.open
    <3>1. /\ e.signer = c.signer /\ e.sig = c.sig /\ e.fed = c.fed
          /\ e.pkey = c.pkey /\ e.usages = c.usages /\ e.err = c.err /\ e.open = c.open
      BY OnlySame
    <3>2. /\ d.signer = e.signer /\ d.sig = e.sig /\ d.fed = e.fed /\ d.num = e.num /\ d.at = e.at /\ d.server = e.server
          /\ d.pkey = e.pkey /\ d.usages = e.usages /\ d.next = e.next /\ d.err = e.err /\ d.open = e.open
      BY <2>6, OnlySame
    <3> QED BY <1>1, <3>1, <3>2
  <2>10. Passed(c, Len(c.fed), 3)
    BY <1>0, <1>3, <1>4, <1>7, ReadingFacts
  <2>11. Outcome(c, d, 3)
    BY <1>0, <2>9, <2>10, ReadingFacts DEF Outcome
  <2>12. c.num = 0 /\ c.server # <<>> => d.named = Named(d, ToSet(crt.names))
    <3> SUFFICES ASSUME c.num = 0, c.server # <<>> PROVE d.named = Named(d, ToSet(crt.names))
      OBVIOUS
    <3>1. IsName(crt.names) /\ (\A n \in ToSet(crt.names) : IsName(n)) /\ IsName(c.server)
      BY <1>0, ReadingFacts DEF IsCertificate
    <3>2. (\E i \in 1 .. Len(crt.names) : MatchServerName(crt.names[i], c.server)) = Named(c, ToSet(crt.names))
      BY <3>1, NamesMatch
    <3>3. Named(c, ToSet(crt.names)) = Named(d, ToSet(crt.names))
      BY <2>9 DEF Named
    <3>4. ok = (\E i \in 1 .. Len(crt.names) : MatchServerName(crt.names[i], c.server))
      BY <1>1 DEF ok, EE
    <3> QED BY <2>8, <3>2, <3>3, <3>4
  <2>13. Kept(c, d)
    <3>1. OfCurrent(d, crt)
      BY <1>0, <2>8, <2>9, ReadingFacts DEF OfCurrent
    <3>2. c.num = 0 => OfFirst(d, crt)
      BY <2>9, <2>12 DEF OfFirst
    <3>3. c.num > 0 => OfIssuer(d, c.cert) /\ OfLeaf(d) /\ OfPrevious(d, c.fed[c.num].cert)
      BY <1>0, <2>9, HeldSame DEF OfIssuer
    <3> QED BY <3>1, <3>2, <3>3 DEF Kept
  <2>14. Begun(d) /\ d.open = (3 < Stages) /\ d.err = "none"
    BY <1>0, <2>9, ReadingFacts DEF Begun
  <2>15. d.err # "ok"
    BY <2>14
  <2> QED BY <2>7, <2>9, <2>11, <2>13, <2>14, <2>15 DEF StageDone, d
<1> QED BY <1>6, <1>7

(* What verify_signature says.                                             *)
LEMMA Verified ==
  ASSUME NEW c, NEW e, e.verifiers = c.verifiers, NEW crt, e.signer = crt.alg, e.sig = crt.by, NEW key
  PROVE  /\ VerifySignature(e, key) = "none" <=> SignedWith(c, crt, key)
         /\ VerifySignature(e, key) \notin {"ok", "NOT_TRUSTED"}
BY DEF VerifySignature, SignedWith

(* It reads the public key and verifies the signature of the one before.   *)
LEMMA Stage4 ==
  ASSUME NEW c, Reading(c, 4), c.cert.broken # 4, NEW e, Only(c, e, {"at"}), e.at = 4
  PROVE  StageDone(c, ReadPublicKey(e), 4)
<1> DEFINE d == ReadPublicKey(e)
           crt == c.cert
           key == crt.key
           before == c.fed[c.num].cert
           s == [e EXCEPT !.seenBC = FALSE]
<1>0. 4 \in 1 .. Stages
  BY DEF Stages
<1>1. /\ IsRecord(e) /\ e.cert = c.cert /\ e.num = c.num /\ e.saved = c.saved /\ e.next = c.next
      /\ e.server = c.server /\ e.signer = c.signer /\ e.sig = c.sig /\ e.fed = c.fed /\ e.named = c.named
      /\ e.pkey = c.pkey /\ e.usages = c.usages /\ e.err = c.err /\ e.open = c.open
      /\ e.verifiers = c.verifiers /\ e.current = c.current
  BY OnlySame
<1>2. Only(c, e, StageFields)
  BY DEF Only, StageFields
<1>3. Passed(c, Len(c.fed), 4) <=> GoodKey(key) /\ (c.num = 0 \/ SignedWith(c, before, key))
  BY <1>0, PassedNow
<1>4. ~Accepts(c, Len(c.fed), 4)
  BY <1>0, PassedNow
<1>5. Only(e, s, {"seenBC"}) /\ s.seenBC = FALSE
  <2>1. "seenBC" \in Fields
    BY DEF Fields
  <2> QED BY <1>1, <2>1, Update
<1>6. IsRecord(s) /\ Only(c, s, StageFields)
  BY <1>2, <1>5 DEF Only, StageFields
<1> HIDE DEF s
<1>7. c.num > 0 => c.signer = before.alg /\ c.sig = before.by
  <2> SUFFICES ASSUME c.num > 0 PROVE c.signer = before.alg /\ c.sig = before.by
    OBVIOUS
  <2>1. OfPrevious(c, before) /\ c.at = 3
    BY <1>0, ReadingFacts
  <2> HIDE DEF before
  <2> QED BY <2>1 DEF OfPrevious
<1>8. ASSUME NEW v, Only(s, v, {"err", "pkey"}), v.err = "none", Passed(c, Len(c.fed), 4),
             c.num = 0 => v.pkey = key, c.num > 0 => v.pkey = s.pkey
      PROVE  StageDone(c, v, 4)
  <2>1. Only(c, v, StageFields)
    BY <1>6, <1>8 DEF Only, StageFields
  <2>2. Outcome(c, v, 4)
    BY <1>8 DEF Outcome
  <2>3. /\ v.signer = c.signer /\ v.sig = c.sig /\ v.fed = c.fed /\ v.num = c.num /\ v.at = 4 /\ v.server = c.server
        /\ v.usages = c.usages /\ v.next = c.next /\ v.open = c.open /\ v.saved = c.saved /\ v.named = c.named
        /\ v.seenBC = FALSE /\ v.current = c.current /\ (c.num > 0 => v.pkey = c.pkey)
    <3>1. /\ v.signer = s.signer /\ v.sig = s.sig /\ v.fed = s.fed /\ v.num = s.num /\ v.at = s.at /\ v.server = s.server
          /\ v.usages = s.usages /\ v.next = s.next /\ v.open = s.open /\ v.saved = s.saved /\ v.named = s.named
          /\ v.seenBC = s.seenBC /\ v.current = s.current
      BY <1>8, OnlySame
    <3>2. /\ s.signer = e.signer /\ s.sig = e.sig /\ s.fed = e.fed /\ s.num = e.num /\ s.at = e.at /\ s.server = e.server
          /\ s.usages = e.usages /\ s.next = e.next /\ s.open = e.open /\ s.saved = e.saved /\ s.named = e.named
          /\ s.current = e.current /\ s.pkey = e.pkey
      BY <1>5, OnlySame
    <3> QED BY <1>1, <1>5, <1>8, <3>1, <3>2
  <2>4. OfCurrent(v, crt)
    BY <1>0, <2>3, ReadingFacts DEF OfCurrent
  <2>5. c.num = 0 => OfFirst(v, crt)
    <3> SUFFICES ASSUME c.num = 0 PROVE OfFirst(v, crt)
      OBVIOUS
    <3>1. OfFirst(c, crt) /\ c.at = 3
      BY <1>0, ReadingFacts
    <3>2. Named(v, ToSet(crt.names)) = Named(c, ToSet(crt.names))
      BY <2>3 DEF Named
    <3>3. c.server # <<>> => v.named = Named(v, ToSet(crt.names))
      BY <2>3, <3>1, <3>2 DEF OfFirst
    <3> QED BY <1>8, <2>3, <3>3 DEF OfFirst
  <2>6. c.num > 0 => OfIssuer(v, c.cert) /\ OfLeaf(v) /\ OfPrevious(v, c.fed[c.num].cert)
    BY <1>0, <2>3, HeldSame DEF OfIssuer
  <2>7. Begun(v) /\ v.open = (4 < Stages)
    BY <1>0, <2>3, ReadingFacts DEF Begun
  <2>8. v.err # "ok"
    BY <1>8
  <2> QED BY <2>1, <2>2, <2>3, <2>4, <2>5, <2>6, <2>7, <2>8 DEF StageDone, Kept
<1>9. CASE key.type \notin {"rsa", "ec"}
  <2>1. d = Fail(e, "UNSUPPORTED") /\ ~Passed(c, Len(c.fed), 4)
    BY <1>1, <1>3, <1>9 DEF ReadPublicKey, GoodKey
  <2> QED BY <1>0, <1>2, <1>4, <2>1, Refused
<1>10. CASE key.type \in {"rsa", "ec"} /\ key.weak
  <2>1. d = Fail(e, "WEAK_PUBLIC_KEY") /\ ~Passed(c, Len(c.fed), 4)
    BY <1>1, <1>3, <1>10 DEF ReadPublicKey, GoodKey
  <2> QED BY <1>0, <1>2, <1>4, <2>1, Refused
<1>11. CASE GoodKey(key) /\ c.num = 0
  <2>1. d = [s EXCEPT !.pkey = key]
    BY <1>1, <1>11 DEF ReadPublicKey, GoodKey, EE, s
  <2>2. "pkey" \in Fields
    BY DEF Fields
  <2>3. Only(s, d, {"pkey"}) /\ d.pkey = key
    BY <1>6, <2>1, <2>2, Update
  <2> HIDE DEF d
  <2>4. Only(s, d, {"err", "pkey"})
    BY <2>3 DEF Only
  <2>5. d.err = "none"
    <3>1. d.err = s.err /\ s.err = e.err
      BY <1>5, <2>3, OnlySame
    <3> QED BY <1>0, <1>1, <3>1, ReadingFacts
  <2>6. Passed(c, Len(c.fed), 4)
    BY <1>3, <1>11
  <2>7. StageDone(c, d, 4)
    BY <1>8, <1>11, <2>3, <2>4, <2>5, <2>6
  <2> QED BY <2>7 DEF d
<1>12. CASE GoodKey(key) /\ c.num # 0
  <2> DEFINE o == VerifySignature(e, key)
  <2>1. d = Fail(s, o)
    BY <1>1, <1>12 DEF ReadPublicKey, GoodKey, EE, s, Fail
  <2>2. /\ o = "none" <=> SignedWith(c, before, key)
        /\ o \notin {"ok", "NOT_TRUSTED"}
    <3>1. c.num > 0
      BY <1>0, <1>12, ReadingFacts
    <3>2. e.signer = before.alg /\ e.sig = before.by /\ e.verifiers = c.verifiers
      BY <1>1, <1>7, <3>1
    <3> HIDE DEF before, key
    <3> QED BY <3>2, Verified
  <2> HIDE DEF o
  <2>3. CASE o = "none"
    <3>1. Only(s, Fail(s, o), {"err"}) /\ Fail(s, o).err = o
      BY <1>6, FailFacts
    <3>2. Only(s, d, {"err", "pkey"}) /\ d.err = "none" /\ d.pkey = s.pkey
      <4>1. Only(s, d, {"err", "pkey"})
        BY <2>1, <3>1 DEF Only
      <4> QED BY <2>1, <2>3, <3>1, <4>1, OnlySame
    <3>3. Passed(c, Len(c.fed), 4)
      BY <1>3, <1>12, <2>2, <2>3
    <3> HIDE DEF d
    <3>4. StageDone(c, d, 4)
      BY <1>8, <1>12, <3>2, <3>3
    <3> QED BY <3>4 DEF d
  <2>4. CASE o # "none"
    <3>1. o \notin {"none", "ok", "NOT_TRUSTED"} /\ ~Passed(c, Len(c.fed), 4)
      BY <1>3, <1>12, <2>2, <2>4
    <3>2. StageDone(c, Fail(s, o), 4)
      BY <1>0, <1>4, <1>6, <3>1, Refused
    <3> QED BY <2>1, <3>2
  <2> QED BY <2>3, <2>4
<1>13. (key.type \in {"rsa", "ec"} /\ ~key.weak) => GoodKey(key)
  BY DEF GoodKey
<1> QED BY <1>9, <1>10, <1>11, <1>12, <1>13

(* What is held of an issuer depends on these fields only.                 *)
LEMMA IssuerSame ==
  ASSUME NEW c, NEW crt, OfIssuer(c, crt), c.at \in {5, 6, 7, 8}, NEW d, d.at \in {5, 6, 7, 8}, d.seenBC = c.seenBC
  PROVE  OfIssuer(d, crt)
<1>1. c.seenBC = (All(crt, "basicConstraints") # {})
  BY DEF OfIssuer
<1>2. d.seenBC = (All(crt, "basicConstraints") # {})
  BY <1>1
<1> QED BY <1>2 DEF OfIssuer

(* It reads the algorithm of the signature.                                *)
LEMMA Stage7 ==
  ASSUME NEW c, Reading(c, 7), c.cert.broken # 7, NEW e, Only(c, e, {"at"}), e.at = 7
  PROVE  StageDone(c, ReadAlgorithm(e), 7)
<1> DEFINE d == ReadAlgorithm(e)
           crt == c.cert
<1>0. 7 \in 1 .. Stages
  BY DEF Stages
<1>1. /\ IsRecord(e) /\ e.cert = c.cert /\ e.num = c.num /\ e.saved = c.saved /\ e.next = c.next
      /\ e.server = c.server /\ e.sig = c.sig /\ e.fed = c.fed /\ e.named = c.named
      /\ e.pkey = c.pkey /\ e.usages = c.usages /\ e.err = c.err /\ e.open = c.open
      /\ e.current = c.current /\ e.seenBC = c.seenBC
  BY OnlySame
<1>2. Only(c, e, StageFields)
  BY DEF Only, StageFields
<1>3. Passed(c, Len(c.fed), 7) <=> crt.alg \in {"rsa", "ec"}
  BY <1>0, PassedNow
<1>4. ~Accepts(c, Len(c.fed), 7)
  BY <1>0, PassedNow
<1>5. CASE crt.alg \notin {"rsa", "ec"}
  <2>1. d = Fail(e, "UNSUPPORTED") /\ ~Passed(c, Len(c.fed), 7)
    BY <1>1, <1>3, <1>5 DEF ReadAlgorithm
  <2> QED BY <1>0, <1>2, <1>4, <2>1, Refused
<1>6. CASE crt.alg \in {"rsa", "ec"}
  <2>1. d = [e EXCEPT !.signer = crt.alg]
    BY <1>1, <1>6 DEF ReadAlgorithm
  <2>2. "signer" \in Fields
    BY DEF Fields
  <2>3. Only(e, d, {"signer"}) /\ d.signer = crt.alg
    BY <1>1, <2>1, <2>2, Update
  <2> HIDE DEF d
  <2>4. Only(c, d, StageFields)
    BY <2>3 DEF Only, StageFields
  <2>5. /\ d.sig = c.sig /\ d.fed = c.fed /\ d.num = c.num /\ d.at = 7 /\ d.server = c.server /\ d.pkey = c.pkey
        /\ d.usages = c.usages /\ d.next = c.next /\ d.open = c.open /\ d.saved = c.saved /\ d.named = c.named
        /\ d.seenBC = c.seenBC /\ d.current = c.current /\ d.err = c.err
    <3>1. /\ d.sig = e.sig /\ d.fed = e.fed /\ d.num = e.num /\ d.at = e.at /\ d.server = e.server /\ d.pkey = e.pkey
          /\ d.usages = e.usages /\ d.next = e.next /\ d.open = e.open /\ d.saved = e.saved /\ d.named = e.named
          /\ d.seenBC = e.seenBC /\ d.current = e.current /\ d.err = e.err
      BY <2>3, OnlySame
    <3> QED BY <1>1, <3>1
  <2>6. Outcome(c, d, 7)
    BY <1>0, <1>3, <1>6, <2>5, ReadingFacts DEF Outcome
  <2>7. OfCurrent(d, crt)
    BY <1>0, <2>3, <2>5, ReadingFacts DEF OfCurrent
  <2>8. c.num = 0 => OfFirst(d, crt)
    <3> SUFFICES ASSUME c.num = 0 PROVE OfFirst(d, crt)
      OBVIOUS
    <3>1. OfFirst(c, crt) /\ c.at = 6
      BY <1>0, ReadingFacts
    <3>2. Named(d, NamesOf(crt)) = Named(c, NamesOf(crt))
      BY <2>5 DEF Named
    <3> QED BY <2>5, <3>1, <3>2 DEF OfFirst
  <2>9. c.num > 0 => OfIssuer(d, c.cert) /\ OfLeaf(d) /\ OfPrevious(d, c.fed[c.num].cert)
    <3>1. c.num > 0 => OfIssuer(d, c.cert)
      <4>1. c.at \in {5, 6, 7, 8} /\ d.at \in {5, 6, 7, 8} /\ (c.num > 0 => OfIssuer(c, c.cert))
        BY <1>0, <2>5, ReadingFacts
      <4> QED BY <2>5, <4>1, IssuerSame
    <3> QED BY <1>0, <2>5, <3>1, HeldSame
  <2>10. Begun(d) /\ d.open = (7 < Stages) /\ d.err = "none"
    BY <1>0, <2>5, ReadingFacts DEF Begun
  <2>11. d.err # "ok"
    BY <2>10
  <2> QED BY <2>4, <2>5, <2>6, <2>7, <2>8, <2>9, <2>10, <2>11 DEF StageDone, Kept, d
<1> QED BY <1>5, <1>6

(* It reads the signature and looks for an anchor that made it.            *)
LEMMA Stage8 ==
  ASSUME NEW c, Reading(c, 8), c.cert.broken # 8, NEW e, Only(c, e, {"at"}), e.at = 8
  PROVE  StageDone(c, ReadSignature(e), 8)
<1> DEFINE d == ReadSignature(e)
           crt == c.cert
           e1 == [e EXCEPT !.sig = e.cert.by]
           s == [e1 EXCEPT !.open = FALSE]
<1>0. 8 \in 1 .. Stages
  BY DEF Stages
<1>1. /\ IsRecord(e) /\ e.cert = c.cert /\ e.num = c.num /\ e.saved = c.saved /\ e.next = c.next
      /\ e.server = c.server /\ e.signer = c.signer /\ e.fed = c.fed /\ e.named = c.named
      /\ e.pkey = c.pkey /\ e.usages = c.usages /\ e.err = c.err
      /\ e.current = c.current /\ e.seenBC = c.seenBC /\ e.anchors = c.anchors /\ e.verifiers = c.verifiers
  BY OnlySame
<1>2. Only(e, e1, {"sig"}) /\ e1.sig = crt.by
  <2>1. "sig" \in Fields
    BY DEF Fields
  <2>2. Only(e, e1, {"sig"}) /\ e1.sig = e.cert.by
    BY <1>1, <2>1, Update
  <2> QED BY <1>1, <2>2
<1>3. d = IF AnchorSigned(s) THEN Fail(s, "ok") ELSE s
  BY DEF ReadSignature
<1> HIDE DEF e1
<1>4. Only(e1, s, {"open"}) /\ s.open = FALSE
  <2>1. "open" \in Fields /\ IsRecord(e1)
    BY <1>2, OnlySame DEF Fields
  <2> QED BY <2>1, Update
<1> HIDE DEF s, d
<1>5. Only(e, s, {"sig", "open"})
  BY <1>2, <1>4 DEF Only
<1>6. Only(c, s, StageFields) /\ IsRecord(s)
  BY <1>5 DEF Only, StageFields
<1>7. /\ s.fed = c.fed /\ s.num = c.num /\ s.at = 8 /\ s.server = c.server /\ s.pkey = c.pkey
      /\ s.usages = c.usages /\ s.next = c.next /\ s.saved = c.saved /\ s.named = c.named
      /\ s.seenBC = c.seenBC /\ s.current = c.current /\ s.err = c.err /\ s.signer = c.signer
      /\ s.sig = crt.by /\ s.anchors = c.anchors /\ s.verifiers = c.verifiers
  <2>1. /\ s.fed = e.fed /\ s.num = e.num /\ s.at = e.at /\ s.server = e.server /\ s.pkey = e.pkey
        /\ s.usages = e.usages /\ s.next = e.next /\ s.saved = e.saved /\ s.named = e.named
        /\ s.seenBC = e.seenBC /\ s.current = e.current /\ s.err = e.err /\ s.signer = e.signer
        /\ s.anchors = e.anchors /\ s.verifiers = e.verifiers
    BY <1>5, OnlySame
  <2>2. s.sig = e1.sig
    BY <1>4, OnlySame
  <2> QED BY <1>1, <1>2, <2>1, <2>2
<1>8. OfCurrent(s, crt)
  BY <1>0, <1>7, ReadingFacts DEF OfCurrent
<1>9. AnchorSigned(s) <=> Anchored(c, crt)
  <2>1. s.saved = crt.issuer /\ s.signer = crt.alg /\ s.sig = crt.by
    BY <1>7, <1>8 DEF OfCurrent
  <2>2. \A key : VerifySignature(s, key) = "none" <=> SignedWith(c, crt, key)
    <3> HIDE DEF crt
    <3> QED BY <1>7, <2>1, Verified
  <2> HIDE DEF crt
  <2> QED BY <1>7, <2>1, <2>2 DEF AnchorSigned, Anchored
<1>10. /\ Passed(c, Len(c.fed), 8) <=> ~Anchored(c, crt)
       /\ Accepts(c, Len(c.fed), 8) <=> Anchored(c, crt)
  BY <1>0, PassedNow
<1>11. c.num = 0 => OfFirst(s, crt)
  <2> SUFFICES ASSUME c.num = 0 PROVE OfFirst(s, crt)
    OBVIOUS
  <2>1. OfFirst(c, crt) /\ c.at = 7
    BY <1>0, ReadingFacts
  <2>2. Named(s, NamesOf(crt)) = Named(c, NamesOf(crt))
    BY <1>7 DEF Named
  <2> QED BY <1>7, <2>1, <2>2 DEF OfFirst
<1>12. c.num > 0 => OfIssuer(s, c.cert) /\ OfLeaf(s) /\ OfPrevious(s, c.fed[c.num].cert)
  <2>1. c.num > 0 => OfIssuer(s, c.cert)
    <3>1. c.at \in {5, 6, 7, 8} /\ s.at \in {5, 6, 7, 8} /\ (c.num > 0 => OfIssuer(c, c.cert))
      BY <1>0, <1>7, ReadingFacts
    <3> QED BY <1>7, <3>1, IssuerSame
  <2> QED BY <1>0, <1>7, <2>1, HeldSame
<1>13. CASE Anchored(c, crt)
  <2>1. d = Fail(s, "ok")
    BY <1>3, <1>9, <1>13
  <2>2. Only(s, d, {"err"}) /\ d.err = "ok"
    BY <1>6, <2>1, FailFacts
  <2>3. Only(c, d, StageFields)
    BY <1>6, <2>2 DEF Only, StageFields
  <2>4. Outcome(c, d, 8)
    BY <1>10, <1>13, <2>2 DEF Outcome
  <2>5. OfLeaf(s)
    <3>1. CASE c.num = 0
      <4>1. OfFirst(s, crt) /\ crt = c.fed[1].cert
        BY <1>0, <1>11, <3>1, ReadingFacts
      <4> QED BY <1>7, <4>1 DEF OfFirst, OfLeaf
    <3>2. CASE c.num > 0
      BY <1>12, <3>2
    <3> QED BY <1>0, <3>1, <3>2, ReadingFacts
  <2>6. OfLeaf(d)
    <3>1. d.pkey = s.pkey /\ d.usages = s.usages /\ d.fed = s.fed
      BY <2>2, OnlySame
    <3> QED BY <2>5, <3>1 DEF OfLeaf
  <2> QED BY <2>2, <2>3, <2>4, <2>6 DEF StageDone, d
<1>14. CASE ~Anchored(c, crt)
  <2>1. d = s
    BY <1>3, <1>9, <1>14
  <2>2. Outcome(c, s, 8)
    BY <1>0, <1>7, <1>10, <1>14, ReadingFacts DEF Outcome
  <2>3. Begun(s) /\ s.open = (8 < Stages) /\ s.err = "none"
    <3>1. (8 < Stages) = FALSE
      BY DEF Stages
    <3>2. s.open = (8 < Stages)
      BY <1>4, <3>1, Zenon
    <3> QED BY <1>0, <1>7, <3>2, ReadingFacts DEF Begun
  <2>4. s.err # "ok"
    BY <2>3
  <2>5. StageDone(c, s, 8)
    BY <1>6, <1>7, <1>8, <1>11, <1>12, <2>2, <2>3, <2>4 DEF StageDone, Kept
  <2> QED BY <2>1, <2>5 DEF d
<1> QED BY <1>13, <1>14

(* At the end of the signed part the name is compared, a directly trusted  *)
(* end entity accepted, and an issuer must have been marked as a CA.       *)
LEMMA Stage6 ==
  ASSUME NEW c, Reading(c, 6), c.cert.broken # 6, NEW e, Only(c, e, {"at"}), e.at = 6
  PROVE  StageDone(c, CheckTBS(e), 6)
<1> DEFINE d == CheckTBS(e)
           crt == c.cert
           rightName == c.server = <<>> \/ Named(c, NamesOf(crt))
<1>0. 6 \in 1 .. Stages
  BY DEF Stages
<1>1. /\ IsRecord(e) /\ e.cert = c.cert /\ e.num = c.num /\ e.saved = c.saved /\ e.next = c.next
      /\ e.server = c.server /\ e.signer = c.signer /\ e.sig = c.sig /\ e.fed = c.fed /\ e.named = c.named
      /\ e.pkey = c.pkey /\ e.usages = c.usages /\ e.err = c.err /\ e.open = c.open
      /\ e.current = c.current /\ e.seenBC = c.seenBC /\ e.anchors = c.anchors
  BY OnlySame
<1>2. Only(c, e, StageFields)
  BY DEF Only, StageFields
<1>3. /\ Passed(c, Len(c.fed), 6) <=>
           IF c.num = 0 THEN rightName /\ ~Directly(c, crt) ELSE All(crt, "basicConstraints") # {}
      /\ Accepts(c, Len(c.fed), 6) <=> c.num = 0 /\ rightName /\ Directly(c, crt)
  BY <1>0, PassedNow
<1>4. c.num = 0 => OfFirst(c, crt) /\ c.at = 5
  BY <1>0, ReadingFacts
<1>5. c.num = 0 /\ c.server # <<>> => (c.named <=> Named(c, NamesOf(crt)))
  BY <1>4 DEF OfFirst
<1>6. c.num = 0 => (DirectTrust(e) <=> Directly(c, crt))
  <2> SUFFICES ASSUME c.num = 0 PROVE DirectTrust(e) <=> Directly(c, crt)
    OBVIOUS
  <2>1. c.pkey = crt.key
    BY <1>4 DEF OfFirst
  <2>2. c.current = crt.subject
    BY <1>0, ReadingFacts DEF OfCurrent
  <2> HIDE DEF crt
  <2> QED BY <1>1, <2>1, <2>2 DEF DirectTrust, Directly
<1>7. c.num # 0 => (c.seenBC <=> All(crt, "basicConstraints") # {})
  <2> SUFFICES ASSUME c.num # 0 PROVE c.seenBC <=> All(crt, "basicConstraints") # {}
    OBVIOUS
  <2>1. OfIssuer(c, crt) /\ c.at = 5
    BY <1>0, ReadingFacts
  <2> HIDE DEF crt
  <2>2. c.seenBC = (All(crt, "basicConstraints") # {})
    BY <2>1 DEF OfIssuer
  <2> QED BY <2>2
<1>8. CASE c.num = 0 /\ ~c.named /\ c.server # <<>>
  <2>1. d = Fail(e, "BAD_SERVER_NAME")
    BY <1>1, <1>8 DEF CheckTBS, EE
  <2>2. ~rightName
    BY <1>5, <1>8
  <2>3. ~Passed(c, Len(c.fed), 6) /\ ~Accepts(c, Len(c.fed), 6)
    BY <1>3, <1>8, <2>2
  <2> QED BY <1>0, <1>2, <2>1, <2>3, Refused
<1>9. CASE c.num = 0 /\ (c.named \/ c.server = <<>>) /\ Directly(c, crt)
  <2>1. d = Fail(e, "ok")
    BY <1>1, <1>6, <1>9 DEF CheckTBS, EE
  <2>2. rightName
    BY <1>5, <1>9
  <2>3. ~Passed(c, Len(c.fed), 6) /\ Accepts(c, Len(c.fed), 6)
    BY <1>3, <1>9, <2>2
  <2>4. Only(e, d, {"err"}) /\ d.err = "ok"
    BY <1>1, <2>1, FailFacts
  <2> HIDE DEF d
  <2>5. Only(c, d, StageFields)
    BY <2>4 DEF Only, StageFields
  <2>6. Outcome(c, d, 6)
    BY <2>3, <2>4 DEF Outcome
  <2>7. OfLeaf(d)
    <3>1. d.pkey = c.pkey /\ d.usages = c.usages /\ d.fed = c.fed
      <4>1. d.pkey = e.pkey /\ d.usages = e.usages /\ d.fed = e.fed
        BY <2>4, OnlySame
      <4> QED BY <1>1, <4>1
    <3>2. c.pkey = crt.key /\ c.usages = UsagesOf(crt) /\ crt = c.fed[1].cert
      BY <1>0, <1>4, <1>9, ReadingFacts DEF OfFirst
    <3> QED BY <3>1, <3>2 DEF OfLeaf
  <2> QED BY <2>4, <2>5, <2>6, <2>7 DEF StageDone, d
<1>10. CASE c.num # 0 /\ ~c.seenBC
  <2>1. d = Fail(e, "NOT_CA")
    BY <1>1, <1>10 DEF CheckTBS, EE
  <2>2. ~Passed(c, Len(c.fed), 6) /\ ~Accepts(c, Len(c.fed), 6)
    BY <1>3, <1>7, <1>10
  <2> QED BY <1>0, <1>2, <2>1, <2>2, Refused
<1>11. CASE IF c.num = 0 THEN (c.named \/ c.server = <<>>) /\ ~Directly(c, crt) ELSE c.seenBC
  <2>1. d = e
    BY <1>1, <1>6, <1>11 DEF CheckTBS, EE
  <2>2. Passed(c, Len(c.fed), 6)
    <3>1. c.num = 0 => rightName
      BY <1>5, <1>11
    <3> QED BY <1>3, <1>7, <1>11, <3>1
  <2>3. Outcome(c, e, 6)
    BY <1>0, <1>1, <2>2, ReadingFacts DEF Outcome
  <2>4. OfCurrent(e, crt)
    BY <1>0, <1>1, ReadingFacts DEF OfCurrent
  <2>5. c.num = 0 => OfFirst(e, crt)
    <3>1. Named(e, NamesOf(crt)) = Named(c, NamesOf(crt))
      BY <1>1 DEF Named
    <3> QED BY <1>1, <1>4, <3>1 DEF OfFirst
  <2>6. c.num > 0 => OfIssuer(e, c.cert) /\ OfLeaf(e) /\ OfPrevious(e, c.fed[c.num].cert)
    <3>1. c.at \in {5, 6, 7, 8} /\ e.at \in {5, 6, 7, 8} /\ (c.num > 0 => OfIssuer(c, c.cert))
      BY <1>0, ReadingFacts
    <3>2. c.num > 0 => OfIssuer(e, c.cert)
      BY <1>1, <3>1, IssuerSame
    <3> QED BY <1>0, <1>1, <3>2, HeldSame
  <2>7. Begun(e) /\ e.open = (6 < Stages) /\ e.err = "none"
    BY <1>0, <1>1, ReadingFacts DEF Begun
  <2>8. e.err # "ok"
    BY <2>7
  <2>9. StageDone(c, e, 6)
    BY <1>2, <2>3, <2>4, <2>5, <2>6, <2>7, <2>8 DEF StageDone, Kept
  <2> QED BY <2>1, <2>9
<1> QED BY <1>8, <1>9, <1>10, <1>11

-----------------------------------------------------------------------------
(* The extensions, one after the other.                                    *)
ExtensionSteps(h, c, n) ==
  h = [k \in 0 .. n |-> IF k = 0 THEN c ELSE ProcessExtension(h[k - 1], c.cert.exts[k])]

(* There is one sequence of contexts for the first n extensions.           *)
LEMMA ExtensionStepsUnique ==
  ASSUME NEW c, NEW m \in Nat, NEW n \in Nat, NEW g, NEW h, ExtensionSteps(g, c, m), ExtensionSteps(h, c, n)
  PROVE  \A k \in Nat : k <= m /\ k <= n => g[k] = h[k]
<1> DEFINE S == {k \in Nat : k <= m /\ k <= n => g[k] = h[k]}
<1>1. 0 \in S
  BY DEF ExtensionSteps
<1>2. ASSUME NEW k \in Nat, k \in S PROVE k + 1 \in S
  <2> SUFFICES ASSUME k + 1 <= m, k + 1 <= n PROVE g[k + 1] = h[k + 1]
    OBVIOUS
  <2>1. g[k] = h[k]
    BY <1>2
  <2>2. /\ g[k + 1] = ProcessExtension(g[(k + 1) - 1], c.cert.exts[k + 1])
        /\ h[k + 1] = ProcessExtension(h[(k + 1) - 1], c.cert.exts[k + 1])
    BY DEF ExtensionSteps
  <2> QED BY <2>1, <2>2
<1> HIDE DEF S
<1>3. Nat \subseteq S
  BY <1>1, <1>2, InductionOnSet
<1> QED BY <1>3 DEF S

(* And there is one.                                                       *)
LEMMA ExtensionStepsExist ==
  ASSUME NEW c
  PROVE  \A n \in Nat : \E h : ExtensionSteps(h, c, n)
<1> DEFINE S == {n \in Nat : \E h : ExtensionSteps(h, c, n)}
<1>1. 0 \in S
  <2>1. ExtensionSteps([k \in 0 .. 0 |-> c], c, 0)
    BY DEF ExtensionSteps
  <2> QED BY <2>1
<1>2. ASSUME NEW n \in Nat, n \in S PROVE n + 1 \in S
  <2>1. PICK h : ExtensionSteps(h, c, n)
    BY <1>2
  <2> DEFINE g == [k \in 0 .. n + 1 |-> IF k = n + 1 THEN ProcessExtension(h[n], c.cert.exts[n + 1]) ELSE h[k]]
  <2>2. ASSUME NEW k \in 0 .. n + 1
        PROVE  g[k] = IF k = 0 THEN c ELSE ProcessExtension(g[k - 1], c.cert.exts[k])
    BY <2>1 DEF ExtensionSteps
  <2>3. g = [k \in 0 .. n + 1 |-> IF k = 0 THEN c ELSE ProcessExtension(g[k - 1], c.cert.exts[k])]
    BY <2>2
  <2>4. ExtensionSteps(g, c, n + 1)
    BY <2>3 DEF ExtensionSteps
  <2> QED BY <2>4
<1> HIDE DEF S
<1>3. Nat \subseteq S
  BY <1>1, <1>2, InductionOnSet
<1> QED BY <1>3 DEF S

(* AfterExtensions by its recursion.                                       *)
LEMMA AfterExtensionsDef ==
  ASSUME NEW c
  PROVE  /\ AfterExtensions(c, 0) = c
         /\ \A n \in Nat : AfterExtensions(c, n + 1) = ProcessExtension(AfterExtensions(c, n), c.cert.exts[n + 1])
<1> DEFINE some(n) == CHOOSE h : ExtensionSteps(h, c, n)
           g == [k \in Nat |-> some(k)[k]]
           r == CHOOSE w : w = [i \in Nat |-> IF i = 0 THEN c ELSE ProcessExtension(w[i - 1], c.cert.exts[i])]
<1>1. \A n \in Nat : ExtensionSteps(some(n), c, n)
  BY ExtensionStepsExist
<1> HIDE DEF some
<1>2. ASSUME NEW k \in Nat PROVE g[k] = IF k = 0 THEN c ELSE ProcessExtension(g[k - 1], c.cert.exts[k])
  <2>1. CASE k = 0
    BY <1>1, <2>1 DEF ExtensionSteps
  <2>2. CASE k # 0
    <3>1. k - 1 \in Nat
      BY <2>2
    <3>2. some(k)[k] = ProcessExtension(some(k)[k - 1], c.cert.exts[k])
      BY <1>1, <2>2 DEF ExtensionSteps
    <3>3. some(k)[k - 1] = some(k - 1)[k - 1]
      BY <1>1, <3>1, ExtensionStepsUnique
    <3> QED BY <2>2, <3>1, <3>2, <3>3
  <2> QED BY <2>1, <2>2
<1>3. g = [k \in Nat |-> IF k = 0 THEN c ELSE ProcessExtension(g[k - 1], c.cert.exts[k])]
  BY <1>2
<1> HIDE DEF g
<1>4. r = [i \in Nat |-> IF i = 0 THEN c ELSE ProcessExtension(r[i - 1], c.cert.exts[i])]
  BY <1>3, Zenon
<1>5. \A n : AfterExtensions(c, n) = r[n]
  BY DEF AfterExtensions
<1> HIDE DEF r
<1>6. r[0] = c
  BY <1>4
<1>7. ASSUME NEW n \in Nat PROVE r[n + 1] = ProcessExtension(r[n], c.cert.exts[n + 1])
  <2>1. n + 1 \in Nat /\ n + 1 # 0 /\ (n + 1) - 1 = n
    OBVIOUS
  <2> QED BY <1>4, <2>1
<1> QED BY <1>5, <1>6, <1>7

(* One extension.                                                          *)
ExtensionFields == {"err", "seenBC", "usages", "named"}
Fits(count, x) == Harmless(x) /\ (count = 0 \/ FitsIssuer(x, count - 1))
NameFits(c, x) == \E i \in 1 .. Len(x.names) : MatchServerName(x.names[i], c.server)
ExtensionDone(d, x, v) ==
  /\ Only(d, v, ExtensionFields)
  /\ v.err = "none" <=> Fits(d.num, x)
  /\ v.err \notin {"ok", "NOT_TRUSTED"}
  /\ v.err = "none" =>
       /\ v.seenBC = IF x.kind = "basicConstraints" /\ d.num # 0 THEN TRUE ELSE d.seenBC
       /\ v.usages = IF x.kind = "keyUsage" /\ d.num = 0 THEN x.bits \intersect AllUsages ELSE d.usages
       /\ v.named = IF x.kind = "subjectAltName" /\ d.num = 0 THEN NameFits(d, x) ELSE d.named
(* What one extension does to the context.                                 *)
LEMMA ExtensionFacts ==
  ASSUME NEW d, IsRecord(d), d.err = "none", d.num \in Nat, NEW x, IsExtension(x), NEW v, v = ProcessExtension(d, x)
  PROVE  ExtensionDone(d, x, v)
<1> USE DEF ExtensionDone
<1>1. "seenBC" \in Fields /\ "usages" \in Fields /\ "named" \in Fields
  BY DEF Fields
<1>2. \A e : Only(d, Fail(d, e), {"err"}) /\ Fail(d, e).err = e
  BY FailFacts
<1>3. Only(d, d, {})
  BY DEF Only
<1>4. \A w : Only(d, w, {"err"}) \/ Only(d, w, {}) \/ Only(d, w, {"seenBC"}) \/ Only(d, w, {"usages"})
             \/ Only(d, w, {"named"}) => Only(d, w, ExtensionFields)
  BY DEF Only, ExtensionFields
<1> DEFINE failed(e) == v = Fail(d, e)
<1>5. ASSUME NEW e, v = Fail(d, e), e \notin {"none", "ok", "NOT_TRUSTED"}, ~Fits(d.num, x)
      PROVE  /\ Only(d, v, ExtensionFields)
             /\ v.err = "none" <=> Fits(d.num, x)
             /\ v.err \notin {"none", "ok", "NOT_TRUSTED"}
  BY <1>2, <1>4, <1>5
<1>6. CASE x.kind = "basicConstraints"
  <2>1. v = IF d.num = 0 THEN d ELSE ProcessBasicConstraints(d, x)
    BY <1>6 DEF ProcessExtension, EE
  <2>2. CASE d.num = 0
    <3>1. Fits(d.num, x)
      BY <1>6, <2>2 DEF Fits, Harmless
    <3> QED BY <1>3, <1>4, <1>6, <2>1, <2>2, <3>1
  <2>3. CASE d.num # 0 /\ (~x.ca \/ x.path + 1 < d.num)
    <3>1. v = Fail(d, "NOT_CA")
      BY <2>1, <2>3 DEF ProcessBasicConstraints
    <3>2. ~Fits(d.num, x)
      BY <1>6, <2>3 DEF Fits, FitsIssuer, IsExtension
    <3> QED BY <1>5, <3>1, <3>2
  <2>4. CASE d.num # 0 /\ ~(~x.ca \/ x.path + 1 < d.num)
    <3>1. v = [d EXCEPT !.seenBC = TRUE]
      BY <2>1, <2>4 DEF ProcessBasicConstraints
    <3>2. Fits(d.num, x)
      BY <1>6, <2>4 DEF Fits, FitsIssuer, IsExtension, Harmless
    <3>3. Only(d, v, {"seenBC"}) /\ v.seenBC = TRUE
      BY <1>1, <3>1, Update
    <3>4. v.err = d.err /\ v.usages = d.usages /\ v.named = d.named
      BY <3>3, OnlySame
    <3> QED BY <1>4, <1>6, <2>4, <3>2, <3>3, <3>4
  <2> QED BY <2>2, <2>3, <2>4
<1>7. CASE x.kind = "keyUsage"
  <2>1. v = ProcessKeyUsage(d, x)
    BY <1>7 DEF ProcessExtension
  <2>2. CASE x.empty \/ (d.num # 0 /\ "certSign" \notin x.bits)
    <3>1. v = Fail(d, "FORBIDDEN_KEY_USAGE")
      BY <2>1, <2>2 DEF ProcessKeyUsage, EE
    <3>2. ~Fits(d.num, x)
      BY <1>7, <2>2 DEF Fits, FitsIssuer, Harmless
    <3> QED BY <1>5, <3>1, <3>2
  <2>3. CASE ~x.empty /\ d.num = 0
    <3>1. v = [d EXCEPT !.usages = x.bits \intersect AllUsages]
      BY <2>1, <2>3 DEF ProcessKeyUsage, EE
    <3>2. Fits(d.num, x)
      BY <1>7, <2>3 DEF Fits, Harmless
    <3>3. Only(d, v, {"usages"}) /\ v.usages = x.bits \intersect AllUsages
      <4> DEFINE b == x.bits \intersect AllUsages
      <4>1. v = [d EXCEPT !.usages = b]
        BY <3>1
      <4> HIDE DEF b
      <4>2. "usages" \in Fields
        BY <1>1
      <4>3. Only(d, [d EXCEPT !.usages = b], {"usages"}) /\ [d EXCEPT !.usages = b].usages = b
        BY <4>2, Update
      <4>4. Only(d, v, {"usages"}) /\ v.usages = b
        BY <4>1, <4>3
      <4> QED BY <4>4 DEF b
    <3>4. v.err = d.err /\ v.seenBC = d.seenBC /\ v.named = d.named
      BY <3>3, OnlySame
    <3> QED BY <1>4, <1>7, <2>3, <3>2, <3>3, <3>4
  <2>4. CASE ~x.empty /\ d.num # 0 /\ "certSign" \in x.bits
    <3>1. v = d
      BY <2>1, <2>4 DEF ProcessKeyUsage, EE
    <3>2. Fits(d.num, x)
      BY <1>7, <2>4 DEF Fits, FitsIssuer, Harmless
    <3> QED BY <1>3, <1>4, <1>7, <2>4, <3>1, <3>2
  <2> QED BY <2>2, <2>3, <2>4
<1>8. CASE x.kind = "subjectAltName"
  <2>0. Fits(d.num, x)
    BY <1>8 DEF Fits, FitsIssuer, Harmless
  <2>1. v = IF d.num = 0 THEN ProcessSAN(d, x) ELSE d
    BY <1>8 DEF ProcessExtension, EE
  <2>2. CASE d.num = 0
    <3>1. v = [d EXCEPT !.named = NameFits(d, x)]
      BY <2>1, <2>2 DEF ProcessSAN, NameFits
    <3>2. Only(d, v, {"named"}) /\ v.named = NameFits(d, x)
      <4> DEFINE b == NameFits(d, x)
      <4>1. v = [d EXCEPT !.named = b]
        BY <3>1
      <4> HIDE DEF b
      <4>2. "named" \in Fields
        BY <1>1
      <4>3. Only(d, [d EXCEPT !.named = b], {"named"}) /\ [d EXCEPT !.named = b].named = b
        BY <4>2, Update
      <4>4. Only(d, v, {"named"}) /\ v.named = b
        BY <4>1, <4>3
      <4> QED BY <4>4 DEF b
    <3>3. v.err = d.err /\ v.seenBC = d.seenBC /\ v.usages = d.usages
      BY <3>2, OnlySame
    <3> QED BY <1>4, <1>8, <2>0, <2>2, <3>2, <3>3
  <2>3. CASE d.num # 0
    BY <1>3, <1>4, <1>8, <2>0, <2>1, <2>3
  <2> QED BY <2>2, <2>3
<1>9. CASE x.kind \in {"policies", "ignored", "other"}
  <2>1. CASE v = d /\ Harmless(x)
    <3>1. Fits(d.num, x)
      BY <1>9, <2>1 DEF Fits, FitsIssuer
    <3> QED BY <1>3, <1>4, <1>9, <2>1, <3>1
  <2>2. CASE v = Fail(d, "CRITICAL_EXTENSION") /\ ~Harmless(x)
    <3>1. ~Fits(d.num, x)
      BY <2>2 DEF Fits
    <3> QED BY <1>5, <2>2, <3>1
  <2>3. (v = d /\ Harmless(x)) \/ (v = Fail(d, "CRITICAL_EXTENSION") /\ ~Harmless(x))
    <3>1. CASE x.kind = "policies"
      <4>1. v = IF x.critical /\ x.qualified THEN Fail(d, "CRITICAL_EXTENSION") ELSE d
        BY <3>1 DEF ProcessExtension
      <4>2. Harmless(x) <=> ~(x.critical /\ x.qualified)
        BY <3>1 DEF Harmless
      <4> QED BY <4>1, <4>2
    <3>2. CASE x.kind = "ignored"
      <4>1. v = d
        BY <3>2 DEF ProcessExtension
      <4> QED BY <3>2, <4>1 DEF Harmless
    <3>3. CASE x.kind = "other"
      <4>1. v = IF x.critical THEN Fail(d, "CRITICAL_EXTENSION") ELSE d
        BY <3>3 DEF ProcessExtension
      <4>2. Harmless(x) <=> ~x.critical
        BY <3>3 DEF Harmless
      <4> QED BY <4>1, <4>2
    <3> QED BY <1>9, <3>1, <3>2, <3>3
  <2> QED BY <2>1, <2>2, <2>3
<1> QED BY <1>6, <1>7, <1>8, <1>9 DEF IsExtension

(* The last extension of a kind among the first i.                         *)
NoneTo(crt, kind, i) == \A k \in OfKind(crt, kind) : k > i
LastTo(crt, kind, i, j) == j \in OfKind(crt, kind) /\ j <= i /\ \A k \in OfKind(crt, kind) : k <= i => k <= j

(* The extensions of a kind are a finite set of places.                    *)
LEMMA OfKindFacts ==
  ASSUME NEW crt, IsCertificate(crt)
  PROVE  /\ Len(crt.exts) \in Nat /\ DOMAIN crt.exts = 1 .. Len(crt.exts)
         /\ \A kind : \A k : k \in OfKind(crt, kind) <=> k \in 1 .. Len(crt.exts) /\ crt.exts[k].kind = kind
         /\ \A k \in 1 .. Len(crt.exts) : IsExtension(crt.exts[k]) /\ crt.exts[k] \in ToSet(crt.exts)
         /\ \A e \in ToSet(crt.exts) : \E k \in 1 .. Len(crt.exts) : e = crt.exts[k]
<1>1. Len(crt.exts) \in Nat /\ DOMAIN crt.exts = 1 .. Len(crt.exts)
  BY LenProperties DEF IsCertificate
<1>2. \A k \in 1 .. Len(crt.exts) : crt.exts[k] \in ToSet(crt.exts)
  BY <1>1 DEF ToSet
<1>3. \A e \in ToSet(crt.exts) : IsExtension(e)
  BY DEF IsCertificate
<1>4. \A e \in ToSet(crt.exts) : \E k \in 1 .. Len(crt.exts) : e = crt.exts[k]
  BY <1>1 DEF ToSet
<1>5. \A kind : \A k : k \in OfKind(crt, kind) <=> k \in 1 .. Len(crt.exts) /\ crt.exts[k].kind = kind
  BY <1>1 DEF OfKind
<1> QED BY <1>1, <1>2, <1>3, <1>4, <1>5

(* The last extension of a kind among the first n.                         *)
LEMMA LastToStep ==
  ASSUME NEW crt, IsCertificate(crt), NEW kind, NEW i \in Nat, i + 1 \in 1 .. Len(crt.exts)
  PROVE  /\ crt.exts[i + 1].kind = kind => LastTo(crt, kind, i + 1, i + 1)
         /\ crt.exts[i + 1].kind # kind =>
              /\ NoneTo(crt, kind, i) => NoneTo(crt, kind, i + 1)
              /\ \A j : LastTo(crt, kind, i, j) => LastTo(crt, kind, i + 1, j)
<1>1. \A k \in OfKind(crt, kind) : k \in Nat /\ (k <= i + 1 => k <= i \/ k = i + 1) /\ (k > i => k = i + 1 \/ k > i + 1)
  BY OfKindFacts
<1>2. i + 1 \in OfKind(crt, kind) <=> crt.exts[i + 1].kind = kind
  BY OfKindFacts
<1>3. crt.exts[i + 1].kind = kind => LastTo(crt, kind, i + 1, i + 1)
  BY <1>1, <1>2 DEF LastTo
<1>4. ASSUME crt.exts[i + 1].kind # kind, NoneTo(crt, kind, i) PROVE NoneTo(crt, kind, i + 1)
  BY <1>1, <1>2, <1>4 DEF NoneTo
<1>5. ASSUME crt.exts[i + 1].kind # kind, NEW j, LastTo(crt, kind, i, j) PROVE LastTo(crt, kind, i + 1, j)
  BY <1>1, <1>2, <1>5 DEF LastTo
<1> QED BY <1>3, <1>4, <1>5

(* Among all of them it is the last one.                                   *)
LEMMA LastToEnd ==
  ASSUME NEW crt, IsCertificate(crt), NEW kind
  PROVE  /\ NoneTo(crt, kind, Len(crt.exts)) => OfKind(crt, kind) = {}
         /\ \A j : LastTo(crt, kind, Len(crt.exts), j) =>
              OfKind(crt, kind) # {} /\ LastOf(crt, kind) = crt.exts[j] /\ j \in 1 .. Len(crt.exts)
              /\ crt.exts[j].kind = kind
<1> DEFINE K == OfKind(crt, kind)
<1>1. \A k \in K : k \in Nat /\ k <= Len(crt.exts) /\ k \in 1 .. Len(crt.exts) /\ crt.exts[k].kind = kind
  BY OfKindFacts
<1>2. Len(crt.exts) \in Nat
  BY OfKindFacts
<1>3. NoneTo(crt, kind, Len(crt.exts)) => K = {}
  BY <1>1, <1>2 DEF NoneTo
<1>4. ASSUME NEW j, LastTo(crt, kind, Len(crt.exts), j)
      PROVE  K # {} /\ LastOf(crt, kind) = crt.exts[j] /\ j \in 1 .. Len(crt.exts) /\ crt.exts[j].kind = kind
  <2>1. j \in K /\ \A k \in K : k <= j
    BY <1>1, <1>4 DEF LastTo
  <2> DEFINE m == CHOOSE i \in K : \A k \in K : k <= i
  <2> HIDE DEF K
  <2>2. m \in K /\ \A k \in K : k <= m
    BY <2>1
  <2>3. m = j
    BY <1>1, <2>1, <2>2
  <2>4. LastOf(crt, kind) = crt.exts[m]
    BY DEF LastOf, K
  <2> QED BY <1>1, <2>1, <2>3, <2>4
<1> QED BY <1>3, <1>4

(* What is held after the first i extensions.                              *)
UsagesTo(e, d, i) ==
  \/ NoneTo(e.cert, "keyUsage", i) /\ d.usages = e.usages
  \/ \E j : LastTo(e.cert, "keyUsage", i, j) /\ d.usages = e.cert.exts[j].bits \intersect AllUsages
NamedTo(e, d, i) ==
  \/ NoneTo(e.cert, "subjectAltName", i) /\ d.named = e.named
  \/ \E j : LastTo(e.cert, "subjectAltName", i, j) /\ d.named = NameFits(e, e.cert.exts[j])
SeenTo(e, d, i) == d.seenBC = ~NoneTo(e.cert, "basicConstraints", i)
FitTo(e, i) == \A j \in 1 .. i : Fits(e.num, e.cert.exts[j])
HeldTo(e, d, i) ==
  /\ Only(e, d, ExtensionFields)
  /\ d.err \notin {"ok", "NOT_TRUSTED"}
  /\ d.err = "none" <=> FitTo(e, i)
  /\ d.err = "none" /\ e.num = 0 => UsagesTo(e, d, i) /\ NamedTo(e, d, i)
  /\ d.err = "none" /\ e.num # 0 => d.usages = e.usages /\ SeenTo(e, d, i)

(* One more extension keeps what is held of those before it.               *)
LEMMA HeldToStep ==
  ASSUME NEW e, IsRecord(e), e.num \in Nat, NEW crt, crt = e.cert, IsCertificate(crt),
         NEW i \in Nat, i + 1 \in 1 .. Len(crt.exts), NEW d, HeldTo(e, d, i),
         NEW v, v = ProcessExtension(d, crt.exts[i + 1])
  PROVE  HeldTo(e, v, i + 1)
<1> DEFINE x == crt.exts[i + 1]
<1>1. IsExtension(x)
  BY OfKindFacts
<1>2. FitTo(e, i + 1) <=> FitTo(e, i) /\ Fits(e.num, x)
  <2>1. \A j : j \in 1 .. i + 1 <=> j \in 1 .. i \/ j = i + 1
    OBVIOUS
  <2> QED BY <2>1 DEF FitTo
<1>3. Only(e, d, ExtensionFields) /\ d.err \notin {"ok", "NOT_TRUSTED"} /\ (d.err = "none" <=> FitTo(e, i))
  BY DEF HeldTo
<1>4. CASE d.err # "none"
  <2>1. v = d
    BY <1>4 DEF ProcessExtension
  <2> QED BY <1>2, <1>3, <1>4, <2>1 DEF HeldTo
<1>5. CASE d.err = "none"
  <2>0. IsRecord(d) /\ d.num = e.num /\ d.server = e.server
    BY <1>3, OnlySame DEF ExtensionFields
  <2> HIDE DEF x
  <2>1. /\ Only(d, v, ExtensionFields)
        /\ v.err = "none" <=> Fits(d.num, x)
        /\ v.err \notin {"ok", "NOT_TRUSTED"}
        /\ v.err = "none" =>
              /\ v.seenBC = IF x.kind = "basicConstraints" /\ d.num # 0 THEN TRUE ELSE d.seenBC
              /\ v.usages = IF x.kind = "keyUsage" /\ d.num = 0 THEN x.bits \intersect AllUsages ELSE d.usages
              /\ v.named = IF x.kind = "subjectAltName" /\ d.num = 0 THEN NameFits(d, x) ELSE d.named
    <3>1. v = ProcessExtension(d, x)
      BY DEF x
    <3>2. IsRecord(d) /\ d.err = "none" /\ d.num \in Nat /\ IsExtension(x)
      BY <1>1, <1>5, <2>0
    <3>3. ExtensionDone(d, x, v)
      BY <3>1, <3>2, ExtensionFacts
    <3> QED BY <3>3 DEF ExtensionDone
  <2>2. Only(e, v, ExtensionFields)
    BY <1>3, <2>1 DEF Only
  <2>3. v.err = "none" <=> FitTo(e, i + 1)
    BY <1>2, <1>3, <1>5, <2>0, <2>1
  <2>4. ASSUME v.err = "none", e.num = 0 PROVE UsagesTo(e, v, i + 1)
    <3>1. UsagesTo(e, d, i)
      BY <1>5, <2>4 DEF HeldTo
    <3>2. CASE x.kind = "keyUsage"
      <4>1. LastTo(crt, "keyUsage", i + 1, i + 1)
        BY <3>2, LastToStep DEF x
      <4>2. v.usages = crt.exts[i + 1].bits \intersect AllUsages
        BY <2>0, <2>1, <2>4, <3>2 DEF x
      <4> QED BY <4>1, <4>2 DEF UsagesTo
    <3>3. CASE x.kind # "keyUsage"
      <4>1. v.usages = d.usages
        BY <2>1, <2>4, <3>3
      <4>2. /\ NoneTo(crt, "keyUsage", i) => NoneTo(crt, "keyUsage", i + 1)
            /\ \A j : LastTo(crt, "keyUsage", i, j) => LastTo(crt, "keyUsage", i + 1, j)
        BY <3>3, LastToStep DEF x
      <4> QED BY <3>1, <4>1, <4>2 DEF UsagesTo
    <3> QED BY <3>2, <3>3
  <2>5. ASSUME v.err = "none", e.num = 0 PROVE NamedTo(e, v, i + 1)
    <3>1. NamedTo(e, d, i)
      BY <1>5, <2>5 DEF HeldTo
    <3>2. CASE x.kind = "subjectAltName"
      <4>1. LastTo(crt, "subjectAltName", i + 1, i + 1)
        BY <3>2, LastToStep DEF x
      <4>2. v.named = NameFits(e, crt.exts[i + 1])
        <5>1. v.named = NameFits(d, x)
          BY <2>0, <2>1, <2>5, <3>2
        <5>2. NameFits(d, x) = NameFits(e, x)
          BY <2>0 DEF NameFits
        <5> QED BY <5>1, <5>2 DEF x
      <4> QED BY <4>1, <4>2 DEF NamedTo
    <3>3. CASE x.kind # "subjectAltName"
      <4>1. v.named = d.named
        BY <2>1, <2>5, <3>3
      <4>2. /\ NoneTo(crt, "subjectAltName", i) => NoneTo(crt, "subjectAltName", i + 1)
            /\ \A j : LastTo(crt, "subjectAltName", i, j) => LastTo(crt, "subjectAltName", i + 1, j)
        BY <3>3, LastToStep DEF x
      <4> QED BY <3>1, <4>1, <4>2 DEF NamedTo
    <3> QED BY <3>2, <3>3
  <2>6. ASSUME v.err = "none", e.num # 0 PROVE v.usages = e.usages /\ SeenTo(e, v, i + 1)
    <3>1. d.usages = e.usages /\ d.seenBC = ~NoneTo(crt, "basicConstraints", i)
      BY <1>5, <2>6 DEF HeldTo, SeenTo
    <3>2. v.usages = e.usages
      BY <2>0, <2>1, <2>6, <3>1
    <3>3. CASE x.kind = "basicConstraints"
      <4>1. i + 1 \in OfKind(crt, "basicConstraints")
        BY <3>3, OfKindFacts DEF x
      <4>2. ~NoneTo(crt, "basicConstraints", i + 1)
        BY <4>1 DEF NoneTo
      <4>3. v.seenBC = TRUE
        BY <2>0, <2>1, <2>6, <3>3
      <4> QED BY <3>2, <4>2, <4>3 DEF SeenTo
    <3>4. CASE x.kind # "basicConstraints"
      <4>1. v.seenBC = d.seenBC
        BY <2>1, <2>6, <3>4
      <4>2. NoneTo(crt, "basicConstraints", i) => NoneTo(crt, "basicConstraints", i + 1)
        BY <3>4, LastToStep DEF x
      <4>3. NoneTo(crt, "basicConstraints", i + 1) => NoneTo(crt, "basicConstraints", i)
        <5>1. \A k \in OfKind(crt, "basicConstraints") : k \in Nat
          BY OfKindFacts
        <5> QED BY <5>1 DEF NoneTo
      <4> QED BY <3>1, <3>2, <4>1, <4>2, <4>3 DEF SeenTo
    <3> QED BY <3>3, <3>4
  <2> QED BY <2>1, <2>2, <2>3, <2>4, <2>5, <2>6 DEF HeldTo
<1> QED BY <1>4, <1>5

(* All the extensions, one after the other.                                *)
LEMMA ReadExtensionsFacts ==
  ASSUME NEW e, IsRecord(e), e.err = "none", e.num \in Nat, NEW crt, crt = e.cert, IsCertificate(crt),
         e.num # 0 => e.seenBC = FALSE
  PROVE  HeldTo(e, ReadExtensions(e), Len(crt.exts))
<1> DEFINE n == Len(crt.exts)
           S == {i \in Nat : i <= n => HeldTo(e, AfterExtensions(e, i), i)}
<1>1. 0 \in S
  <2>1. AfterExtensions(e, 0) = e
    BY AfterExtensionsDef
  <2>2. \A kind : NoneTo(crt, kind, 0)
    BY OfKindFacts DEF NoneTo
  <2>3. FitTo(e, 0)
    BY DEF FitTo
  <2>4. Only(e, e, ExtensionFields)
    BY DEF Only
  <2>5. UsagesTo(e, e, 0) /\ NamedTo(e, e, 0)
    BY <2>2 DEF UsagesTo, NamedTo
  <2>6. e.num # 0 => SeenTo(e, e, 0)
    BY <2>2 DEF SeenTo
  <2>7. HeldTo(e, e, 0)
    BY <2>3, <2>4, <2>5, <2>6 DEF HeldTo
  <2> QED BY <2>1, <2>7
<1>2. ASSUME NEW i \in Nat, i \in S PROVE i + 1 \in S
  <2> SUFFICES ASSUME i + 1 <= n PROVE HeldTo(e, AfterExtensions(e, i + 1), i + 1)
    OBVIOUS
  <2>1. n \in Nat
    BY OfKindFacts
  <2>2. HeldTo(e, AfterExtensions(e, i), i)
    BY <1>2, <2>1
  <2>3. i + 1 \in 1 .. Len(crt.exts)
    BY <2>1
  <2>4. AfterExtensions(e, i + 1) = ProcessExtension(AfterExtensions(e, i), crt.exts[i + 1])
    BY AfterExtensionsDef
  <2> HIDE DEF S, n
  <2> DEFINE d == AfterExtensions(e, i)
             v == AfterExtensions(e, i + 1)
  <2>5. HeldTo(e, d, i) /\ v = ProcessExtension(d, crt.exts[i + 1])
    BY <2>2, <2>4
  <2> HIDE DEF d, v
  <2>6. HeldTo(e, v, i + 1)
    BY <2>3, <2>5, HeldToStep
  <2> QED BY <2>6 DEF v
<1> HIDE DEF S
<1>3. Nat \subseteq S
  BY <1>1, <1>2, InductionOnSet
<1>4. n \in S /\ n \in Nat
  BY <1>3, OfKindFacts
<1>5. HeldTo(e, AfterExtensions(e, n), n)
  BY <1>4 DEF S
<1> QED BY <1>5 DEF ReadExtensions

(* What is held at the end of the extensions.                              *)
LEMMA UsagesAtEnd ==
  ASSUME NEW e, NEW crt, crt = e.cert, IsCertificate(crt), e.usages = AllUsages,
         NEW d, UsagesTo(e, d, Len(crt.exts))
  PROVE  d.usages = UsagesOf(crt)
<1>1. CASE NoneTo(crt, "keyUsage", Len(crt.exts)) /\ d.usages = e.usages
  <2>1. OfKind(crt, "keyUsage") = {}
    BY <1>1, LastToEnd
  <2> QED BY <1>1, <2>1 DEF UsagesOf
<1>2. ASSUME NEW j, LastTo(crt, "keyUsage", Len(crt.exts), j), d.usages = crt.exts[j].bits \intersect AllUsages
      PROVE  d.usages = UsagesOf(crt)
  <2>1. OfKind(crt, "keyUsage") # {} /\ LastOf(crt, "keyUsage") = crt.exts[j]
    BY <1>2, LastToEnd
  <2> QED BY <1>2, <2>1 DEF UsagesOf
<1> QED BY <1>1, <1>2 DEF UsagesTo

(* The name matched is one of the last Subject Alt Name, if there is one,  *)
(* and otherwise the Common Name.                                          *)
LEMMA NamedAtEnd ==
  ASSUME NEW e, NEW crt, crt = e.cert, IsCertificate(crt), IsName(e.server), e.server # <<>>,
         e.named = Named(e, ToSet(crt.names)), NEW d, NamedTo(e, d, Len(crt.exts))
  PROVE  d.named = Named(e, NamesOf(crt))
<1>1. CASE NoneTo(crt, "subjectAltName", Len(crt.exts)) /\ d.named = e.named
  <2>1. OfKind(crt, "subjectAltName") = {}
    BY <1>1, LastToEnd
  <2>2. NamesOf(crt) = ToSet(crt.names)
    BY <2>1 DEF NamesOf
  <2> QED BY <1>1, <2>2
<1>2. ASSUME NEW j, LastTo(crt, "subjectAltName", Len(crt.exts), j), d.named = NameFits(e, crt.exts[j])
      PROVE  d.named = Named(e, NamesOf(crt))
  <2> DEFINE x == crt.exts[j]
  <2>1. OfKind(crt, "subjectAltName") # {} /\ LastOf(crt, "subjectAltName") = x
        /\ j \in 1 .. Len(crt.exts) /\ x.kind = "subjectAltName"
    BY <1>2, LastToEnd
  <2>2. IsExtension(x)
    BY <2>1, OfKindFacts
  <2>3. IsName(x.names) /\ \A n \in ToSet(x.names) : IsName(n)
    BY <2>1, <2>2 DEF IsExtension
  <2>4. NamesOf(crt) = ToSet(x.names)
    BY <2>1 DEF NamesOf
  <2> DEFINE names == x.names
  <2>5. d.named = (\E i \in 1 .. Len(names) : MatchServerName(names[i], e.server))
    BY <1>2 DEF NameFits
  <2>6. IsName(names) /\ \A n \in ToSet(names) : IsName(n)
    BY <2>3
  <2> HIDE DEF names
  <2>7. (\E i \in 1 .. Len(names) : MatchServerName(names[i], e.server)) = Named(e, ToSet(names))
    BY <2>6, NamesMatch
  <2> QED BY <2>4, <2>5, <2>7 DEF names
<1> QED BY <1>1, <1>2 DEF NamedTo

(* A Basic Constraints was seen if there is one.                           *)
LEMMA SeenAtEnd ==
  ASSUME NEW e, NEW crt, crt = e.cert, IsCertificate(crt), NEW d, SeenTo(e, d, Len(crt.exts))
  PROVE  d.seenBC = (All(crt, "basicConstraints") # {})
<1>1. NoneTo(crt, "basicConstraints", Len(crt.exts)) <=> OfKind(crt, "basicConstraints") = {}
  <2>1. OfKind(crt, "basicConstraints") = {} => NoneTo(crt, "basicConstraints", Len(crt.exts))
    BY DEF NoneTo
  <2> QED BY <2>1, LastToEnd
<1>2. All(crt, "basicConstraints") = {} <=> OfKind(crt, "basicConstraints") = {}
  BY DEF All
<1> QED BY <1>1, <1>2 DEF SeenTo

(* All of them fit exactly if each one does.                               *)
LEMMA FitAtEnd ==
  ASSUME NEW e, NEW crt, crt = e.cert, IsCertificate(crt)
  PROVE  FitTo(e, Len(crt.exts)) <=>
           \A x \in ToSet(crt.exts) : Harmless(x) /\ (e.num = 0 \/ FitsIssuer(x, e.num - 1))
<1>1. (\A x \in ToSet(crt.exts) : Fits(e.num, x)) <=> \A j \in 1 .. Len(crt.exts) : Fits(e.num, crt.exts[j])
  <2>0. DOMAIN crt.exts = 1 .. Len(crt.exts)
    BY OfKindFacts
  <2>1. \A k \in 1 .. Len(crt.exts) : crt.exts[k] \in ToSet(crt.exts)
    BY <2>0 DEF ToSet
  <2>2. \A x \in ToSet(crt.exts) : \E k \in 1 .. Len(crt.exts) : x = crt.exts[k]
    BY <2>0 DEF ToSet
  <2> QED BY <2>1, <2>2, Zenon
<1> QED BY <1>1 DEF FitTo, Fits

(* It reads the extensions.                                                *)
LEMMA Stage5 ==
  ASSUME NEW c, Reading(c, 5), c.cert.broken # 5, NEW e, Only(c, e, {"at"}), e.at = 5
  PROVE  StageDone(c, ReadExtensions(e), 5)
<1> DEFINE d == ReadExtensions(e)
           crt == c.cert
<1>0. 5 \in 1 .. Stages
  BY DEF Stages
<1>1. /\ IsRecord(e) /\ e.cert = c.cert /\ e.num = c.num /\ e.saved = c.saved /\ e.next = c.next
      /\ e.server = c.server /\ e.signer = c.signer /\ e.sig = c.sig /\ e.fed = c.fed /\ e.named = c.named
      /\ e.pkey = c.pkey /\ e.usages = c.usages /\ e.err = c.err /\ e.open = c.open
      /\ e.current = c.current /\ e.seenBC = c.seenBC
  BY OnlySame
<1>2. IsCertificate(crt) /\ IsName(c.server) /\ c.num \in Nat /\ c.err = "none" /\ c.at = 4
  BY <1>0, ReadingFacts
<1>3. c.num = 0 => OfFirst(c, crt) /\ c.usages = AllUsages
  BY <1>0, ReadingFacts
<1>4. c.num # 0 => c.seenBC = FALSE /\ OfLeaf(c)
  <2>1. c.num # 0 => OfIssuer(c, crt) /\ OfLeaf(c)
    BY <1>0, ReadingFacts
  <2> QED BY <1>2, <2>1 DEF OfIssuer
<1>5. HeldTo(e, d, Len(crt.exts))
  BY <1>1, <1>2, <1>4, ReadExtensionsFacts
<1> HIDE DEF d
<1>6. Only(e, d, ExtensionFields)
  BY <1>5 DEF HeldTo
<1>7. Only(c, d, StageFields)
  BY <1>6 DEF Only, StageFields, ExtensionFields
<1>8. /\ d.sig = c.sig /\ d.fed = c.fed /\ d.num = c.num /\ d.at = 5 /\ d.server = c.server /\ d.pkey = c.pkey
      /\ d.next = c.next /\ d.open = c.open /\ d.saved = c.saved /\ d.signer = c.signer /\ d.current = c.current
  <2>1. /\ d.sig = e.sig /\ d.fed = e.fed /\ d.num = e.num /\ d.at = e.at /\ d.server = e.server /\ d.pkey = e.pkey
        /\ d.next = e.next /\ d.open = e.open /\ d.saved = e.saved /\ d.signer = e.signer /\ d.current = e.current
    BY <1>6, OnlySame DEF ExtensionFields
  <2> QED BY <1>1, <2>1
<1>9. Passed(c, Len(c.fed), 5) <=> FitTo(e, Len(crt.exts))
  <2>1. Passed(c, Len(c.fed), 5) <=>
          \A x \in ToSet(crt.exts) : Harmless(x) /\ (c.num = 0 \/ FitsIssuer(x, c.num - 1))
    BY <1>0, PassedNow
  <2> HIDE DEF crt
  <2>2. FitTo(e, Len(crt.exts)) <=>
          \A x \in ToSet(crt.exts) : Harmless(x) /\ (e.num = 0 \/ FitsIssuer(x, e.num - 1))
    BY <1>1, <1>2, FitAtEnd DEF crt
  <2> QED BY <1>1, <2>1, <2>2
<1>10. ~Accepts(c, Len(c.fed), 5)
  BY <1>0, PassedNow
<1>11. d.err \notin {"ok", "NOT_TRUSTED"} /\ (d.err = "none" <=> FitTo(e, Len(crt.exts)))
  BY <1>5 DEF HeldTo
<1>12. Outcome(c, d, 5) /\ d.err # "ok"
  BY <1>9, <1>10, <1>11 DEF Outcome
<1>13. ASSUME d.err = "none" PROVE Kept(c, d)
  <2>1. OfCurrent(d, crt)
    BY <1>0, <1>8, ReadingFacts DEF OfCurrent
  <2>2. ASSUME c.num = 0 PROVE OfFirst(d, crt)
    <3>1. UsagesTo(e, d, Len(crt.exts)) /\ NamedTo(e, d, Len(crt.exts))
      BY <1>1, <1>5, <1>13, <2>2 DEF HeldTo
    <3>2. d.usages = UsagesOf(crt)
      BY <1>1, <1>2, <1>3, <2>2, <3>1, UsagesAtEnd
    <3>3. ASSUME c.server # <<>> PROVE d.named = Named(d, NamesOf(crt))
      <4>1. c.named = Named(c, ToSet(crt.names))
        BY <1>2, <1>3, <2>2, <3>3 DEF OfFirst
      <4>2. Named(c, ToSet(crt.names)) = Named(e, ToSet(crt.names)) /\ Named(d, NamesOf(crt)) = Named(e, NamesOf(crt))
        BY <1>1, <1>8 DEF Named
      <4>3. e.named = Named(e, ToSet(crt.names)) /\ IsName(e.server) /\ e.server # <<>>
        BY <1>1, <1>2, <3>3, <4>1, <4>2
      <4>4. d.named = Named(e, NamesOf(crt))
        BY <1>1, <1>2, <3>1, <4>3, NamedAtEnd
      <4> QED BY <4>2, <4>4
    <3>4. c.pkey = crt.key
      BY <1>2, <1>3, <2>2 DEF OfFirst
    <3> QED BY <1>8, <3>2, <3>3, <3>4 DEF OfFirst
  <2>3. ASSUME c.num > 0 PROVE OfIssuer(d, crt) /\ OfLeaf(d) /\ OfPrevious(d, c.fed[c.num].cert)
    <3>1. d.usages = e.usages /\ SeenTo(e, d, Len(crt.exts))
      BY <1>1, <1>2, <1>5, <1>13, <2>3 DEF HeldTo
    <3>2. d.seenBC = (All(crt, "basicConstraints") # {})
      <4>1. crt = e.cert /\ IsCertificate(crt) /\ SeenTo(e, d, Len(crt.exts))
        BY <1>1, <1>2, <3>1
      <4> HIDE DEF crt
      <4> QED BY <4>1, SeenAtEnd
    <3>3. OfIssuer(d, crt)
      BY <1>8, <3>2 DEF OfIssuer
    <3>4. d.usages = c.usages
      BY <1>1, <3>1
    <3> QED BY <1>0, <1>8, <2>3, <3>3, <3>4, HeldSame
  <2> QED BY <2>1, <2>2, <2>3 DEF Kept
<1>14. d.err = "none" => d.at = 5 /\ d.open = (5 < Stages) /\ Begun(d)
  BY <1>0, <1>8, ReadingFacts DEF Begun
<1>15. StageDone(c, d, 5)
  BY <1>7, <1>12, <1>13, <1>14 DEF StageDone
<1> QED BY <1>15 DEF d

-----------------------------------------------------------------------------
(* Every stage.                                                            *)
LEMMA EveryStage ==
  ASSUME NEW c, NEW s \in 1 .. Stages, Reading(c, s)
  PROVE  StageDone(c, DecodeStage(c, s), s)
<1>1. CASE c.cert.broken = s
  BY <1>1, Malformed
<1>2. CASE c.cert.broken # s
  <2> DEFINE e == [c EXCEPT !.at = s]
  <2>1. Only(c, e, {"at"}) /\ e.at = s
    BY AtFacts
  <2>2. c.err = "none"
    BY ReadingFacts
  <2>3. s \in {1, 2, 3, 4, 5, 6, 7, 8}
    BY DEF Stages
  <2>4. DecodeStage(c, s) = CASE s = 1 -> ReadIssuer(e)
         [] s = 2 -> CheckValidity(e)
         [] s = 3 -> ReadSubject(e)
         [] s = 4 -> ReadPublicKey(e)
         [] s = 5 -> ReadExtensions(e)
         [] s = 6 -> CheckTBS(e)
         [] s = 7 -> ReadAlgorithm(e)
         [] s = 8 -> ReadSignature(e)
    BY <1>2, <2>2 DEF DecodeStage
  <2> HIDE DEF e
  <2>5. CASE s = 1
    BY <1>2, <2>1, <2>4, <2>5, Stage1
  <2>6. CASE s = 2
    BY <1>2, <2>1, <2>4, <2>6, Stage2
  <2>7. CASE s = 3
    BY <1>2, <2>1, <2>4, <2>7, Stage3
  <2>8. CASE s = 4
    BY <1>2, <2>1, <2>4, <2>8, Stage4
  <2>9. CASE s = 5
    BY <1>2, <2>1, <2>4, <2>9, Stage5
  <2>10. CASE s = 6
    BY <1>2, <2>1, <2>4, <2>10, Stage6
  <2>11. CASE s = 7
    BY <1>2, <2>1, <2>4, <2>11, Stage7
  <2>12. CASE s = 8
    BY <1>2, <2>1, <2>4, <2>12, Stage8
  <2> QED BY <2>3, <2>5, <2>6, <2>7, <2>8, <2>9, <2>10, <2>11, <2>12
<1> QED BY <1>1, <1>2

-----------------------------------------------------------------------------
(* What is said of the first n certificates depends only on them and on    *)
(* what the context was set up with.                                       *)
Agree(c, d, n) ==
  /\ d.server = c.server /\ d.verifiers = c.verifiers /\ d.anchors = c.anchors
  /\ \A i \in 1 .. n : d.fed[i].cert = c.fed[i].cert

(* Passing and accepting are said of the certificates alone.               *)
LEMMA PassedSame ==
  ASSUME NEW c, NEW d, NEW n \in Nat, Agree(c, d, n), NEW i \in 1 .. n, NEW s
  PROVE  (Passed(c, i, s) <=> Passed(d, i, s)) /\ (Accepts(c, i, s) <=> Accepts(d, i, s))
<1>1. /\ \A crt, key : SignedWith(c, crt, key) <=> SignedWith(d, crt, key)
      /\ \A names : Named(c, names) <=> Named(d, names)
      /\ \A crt : Directly(c, crt) <=> Directly(d, crt)
  BY DEF Agree, SignedWith, Named, Directly
<1>2. \A crt : Anchored(c, crt) <=> Anchored(d, crt)
  BY DEF Agree, SignedWith, Anchored
<1>3. c.fed[i].cert = d.fed[i].cert /\ c.server = d.server
  BY DEF Agree
<1>4. i # 1 => c.fed[i - 1].cert = d.fed[i - 1].cert
  <2> SUFFICES ASSUME i # 1 PROVE c.fed[i - 1].cert = d.fed[i - 1].cert
    OBVIOUS
  <2>1. i - 1 \in 1 .. n
    OBVIOUS
  <2> QED BY <2>1 DEF Agree
<1> DEFINE crt == c.fed[i].cert
           before == c.fed[i - 1].cert
           other == d.fed[i - 1].cert
<1>5. /\ Passed(c, i, s) <=>
           /\ crt.broken # s
           /\ s = 2 => crt.dated
           /\ s = 3 => i = 1 \/ crt.subject = before.issuer
           /\ s = 4 => GoodKey(crt.key) /\ (i = 1 \/ SignedWith(c, before, crt.key))
           /\ s = 5 => \A e \in ToSet(crt.exts) : Harmless(e) /\ (i = 1 \/ FitsIssuer(e, i - 2))
           /\ s = 6 => IF i = 1 THEN (c.server = <<>> \/ Named(c, NamesOf(crt))) /\ ~Directly(c, crt)
                       ELSE All(crt, "basicConstraints") # {}
           /\ s = 7 => crt.alg \in {"rsa", "ec"}
           /\ s = 8 => ~Anchored(c, crt)
  BY DEF Passed
<1>6. /\ Passed(d, i, s) <=>
           /\ crt.broken # s
           /\ s = 2 => crt.dated
           /\ s = 3 => i = 1 \/ crt.subject = other.issuer
           /\ s = 4 => GoodKey(crt.key) /\ (i = 1 \/ SignedWith(d, other, crt.key))
           /\ s = 5 => \A e \in ToSet(crt.exts) : Harmless(e) /\ (i = 1 \/ FitsIssuer(e, i - 2))
           /\ s = 6 => IF i = 1 THEN (d.server = <<>> \/ Named(d, NamesOf(crt))) /\ ~Directly(d, crt)
                       ELSE All(crt, "basicConstraints") # {}
           /\ s = 7 => crt.alg \in {"rsa", "ec"}
           /\ s = 8 => ~Anchored(d, crt)
  BY <1>3 DEF Passed
<1>7. /\ Accepts(c, i, s) <=>
           /\ crt.broken # s
           /\ \/ s = 6 /\ i = 1 /\ (c.server = <<>> \/ Named(c, NamesOf(crt))) /\ Directly(c, crt)
              \/ s = 8 /\ Anchored(c, crt)
      /\ Accepts(d, i, s) <=>
           /\ crt.broken # s
           /\ \/ s = 6 /\ i = 1 /\ (d.server = <<>> \/ Named(d, NamesOf(crt))) /\ Directly(d, crt)
              \/ s = 8 /\ Anchored(d, crt)
  BY <1>3 DEF Accepts
<1>8. i # 1 => before = other
  BY <1>4
<1> HIDE DEF crt, before, other
<1> QED BY <1>1, <1>2, <1>3, <1>5, <1>6, <1>7, <1>8

(* The same of all stages up to one.                                       *)
LEMMA PassedToSame ==
  ASSUME NEW c, NEW d, NEW n \in Nat, Agree(c, d, n), NEW s
  PROVE  PassedTo(c, n, s) <=> PassedTo(d, n, s)
BY PassedSame DEF PassedTo

(* One stage further.                                                      *)
LEMMA PassedToStep ==
  ASSUME NEW c, NEW n \in Nat, n # 0, NEW s \in 1 .. Stages
  PROVE  PassedTo(c, n, s) <=> PassedTo(c, n, s - 1) /\ Passed(c, n, s)
BY DEF PassedTo, Stages

(* The decoder leaves the certificates alone.                              *)
LEMMA AgreeSame ==
  ASSUME NEW c, NEW d, Only(c, d, StageFields), NEW n
  PROVE  Agree(c, d, n)
<1>1. d.server = c.server /\ d.verifiers = c.verifiers /\ d.anchors = c.anchors /\ d.fed = c.fed
  BY OnlySame DEF StageFields
<1> QED BY <1>1 DEF Agree

-----------------------------------------------------------------------------
(* The stages of one call of append, one after the other.                  *)
StageSteps(h, c, n) ==
  h = [k \in 0 .. n |-> IF k = 0 THEN c ELSE DecodeStage(h[k - 1], c.at + k)]

(* There is one sequence of contexts for n stages.                         *)
LEMMA StageStepsUnique ==
  ASSUME NEW c, NEW m \in Nat, NEW n \in Nat, NEW g, NEW h, StageSteps(g, c, m), StageSteps(h, c, n)
  PROVE  \A k \in Nat : k <= m /\ k <= n => g[k] = h[k]
<1> DEFINE S == {k \in Nat : k <= m /\ k <= n => g[k] = h[k]}
<1>1. 0 \in S
  BY DEF StageSteps
<1>2. ASSUME NEW k \in Nat, k \in S PROVE k + 1 \in S
  <2> SUFFICES ASSUME k + 1 <= m, k + 1 <= n PROVE g[k + 1] = h[k + 1]
    OBVIOUS
  <2>1. g[k] = h[k]
    BY <1>2
  <2>2. /\ g[k + 1] = DecodeStage(g[(k + 1) - 1], c.at + (k + 1))
        /\ h[k + 1] = DecodeStage(h[(k + 1) - 1], c.at + (k + 1))
    BY DEF StageSteps
  <2> QED BY <2>1, <2>2
<1> HIDE DEF S
<1>3. Nat \subseteq S
  BY <1>1, <1>2, InductionOnSet
<1> QED BY <1>3 DEF S

(* And there is one.                                                       *)
LEMMA StageStepsExist ==
  ASSUME NEW c
  PROVE  \A n \in Nat : \E h : StageSteps(h, c, n)
<1> DEFINE S == {n \in Nat : \E h : StageSteps(h, c, n)}
<1>1. 0 \in S
  <2>1. StageSteps([k \in 0 .. 0 |-> c], c, 0)
    BY DEF StageSteps
  <2> QED BY <2>1
<1>2. ASSUME NEW n \in Nat, n \in S PROVE n + 1 \in S
  <2>1. PICK h : StageSteps(h, c, n)
    BY <1>2
  <2> DEFINE g == [k \in 0 .. n + 1 |-> IF k = n + 1 THEN DecodeStage(h[n], c.at + (n + 1)) ELSE h[k]]
  <2>2. ASSUME NEW k \in 0 .. n + 1
        PROVE  g[k] = IF k = 0 THEN c ELSE DecodeStage(g[k - 1], c.at + k)
    BY <2>1 DEF StageSteps
  <2>3. g = [k \in 0 .. n + 1 |-> IF k = 0 THEN c ELSE DecodeStage(g[k - 1], c.at + k)]
    BY <2>2
  <2>4. StageSteps(g, c, n + 1)
    BY <2>3 DEF StageSteps
  <2> QED BY <2>4
<1> HIDE DEF S
<1>3. Nat \subseteq S
  BY <1>1, <1>2, InductionOnSet
<1> QED BY <1>3 DEF S

(* AfterStages by its recursion.                                           *)
LEMMA AfterStagesDef ==
  ASSUME NEW c
  PROVE  /\ AfterStages(c, 0) = c
         /\ \A n \in Nat : AfterStages(c, n + 1) = DecodeStage(AfterStages(c, n), c.at + (n + 1))
<1> DEFINE some(n) == CHOOSE h : StageSteps(h, c, n)
           g == [k \in Nat |-> some(k)[k]]
           r == CHOOSE w : w = [i \in Nat |-> IF i = 0 THEN c ELSE DecodeStage(w[i - 1], c.at + i)]
<1>1. \A n \in Nat : StageSteps(some(n), c, n)
  BY StageStepsExist
<1> HIDE DEF some
<1>2. ASSUME NEW k \in Nat PROVE g[k] = IF k = 0 THEN c ELSE DecodeStage(g[k - 1], c.at + k)
  <2>1. CASE k = 0
    BY <1>1, <2>1 DEF StageSteps
  <2>2. CASE k # 0
    <3>1. k - 1 \in Nat
      BY <2>2
    <3>2. some(k)[k] = DecodeStage(some(k)[k - 1], c.at + k)
      BY <1>1, <2>2 DEF StageSteps
    <3>3. some(k)[k - 1] = some(k - 1)[k - 1]
      BY <1>1, <3>1, StageStepsUnique
    <3> QED BY <2>2, <3>1, <3>2, <3>3
  <2> QED BY <2>1, <2>2
<1>3. g = [k \in Nat |-> IF k = 0 THEN c ELSE DecodeStage(g[k - 1], c.at + k)]
  BY <1>2
<1> HIDE DEF g
<1>4. r = [i \in Nat |-> IF i = 0 THEN c ELSE DecodeStage(r[i - 1], c.at + i)]
  BY <1>3, Zenon
<1>5. \A n : AfterStages(c, n) = r[n]
  BY DEF AfterStages
<1> HIDE DEF r
<1>6. r[0] = c
  BY <1>4
<1>7. ASSUME NEW n \in Nat PROVE r[n + 1] = DecodeStage(r[n], c.at + (n + 1))
  <2>1. n + 1 \in Nat /\ n + 1 # 0 /\ (n + 1) - 1 = n
    OBVIOUS
  <2> QED BY <1>4, <2>1
<1> QED BY <1>5, <1>6, <1>7

(* A context that is decoding, or has decided; only its progress changes.  *)
Decoding(c) == (Going(c) /\ Begun(c)) \/ Decided(c)

(* The decoder keeps a context well-formed.                                *)
LEMMA ContextSame ==
  ASSUME NEW c, IsContext(c), NEW d, Only(c, d, StageFields)
  PROVE  IsContext(d)
<1>1. d.num = c.num /\ d.fed = c.fed /\ d.server = c.server /\ IsRecord(d)
  BY OnlySame DEF StageFields
<1>2. d = [f \in DOMAIN NoChain |-> d[f]]
  BY <1>1, NoChainFields DEF IsRecord
<1> QED BY <1>1, <1>2 DEF IsContext

(* One stage either goes on or decides the chain.                          *)
LEMMA StageStep ==
  ASSUME NEW d, NEW s \in 1 .. Stages, Reading(d, s), s <= d.fed[Len(d.fed)].got,
         NEW v, v = DecodeStage(d, s)
  PROVE  /\ IsContext(v) /\ Only(d, v, StageFields)
         /\ \/ Going(v) /\ Begun(v) /\ v.at = s
            \/ Decided(v)
<1>1. StageDone(d, v, s)
  BY EveryStage
<1>2. Only(d, v, StageFields)
  BY <1>1 DEF StageDone
<1>3. IsContext(v)
  BY <1>2, ContextSame DEF Reading
<1> DEFINE n == Len(d.fed)
<1>4. n \in Nat /\ n # 0 /\ d.num \in Nat /\ d.num + 1 = n /\ PassedTo(d, n, s - 1) /\ d.cert = d.fed[n].cert /\ d.fed # <<>>
  <2>1. d.num \in Nat /\ n = d.num + 1 /\ d.cert = d.fed[n].cert /\ d.at = s - 1 /\ d.fed # <<>>
    BY ReadingFacts
  <2> QED BY <2>1 DEF Reading, Going
<1>5. v.num = d.num /\ v.fed = d.fed /\ v.cert = d.cert /\ Len(v.fed) = n
  BY <1>2, OnlySame DEF StageFields
<1> HIDE DEF n
<1>6. Agree(d, v, n)
  BY <1>2, AgreeSame
<1>7. \A t : PassedTo(d, n, t) <=> PassedTo(v, n, t)
  BY <1>4, <1>6, PassedToSame
<1>8. (Passed(d, n, s) <=> Passed(v, n, s)) /\ (Accepts(d, n, s) <=> Accepts(v, n, s))
  <2>1. n \in 1 .. n
    BY <1>4
  <2> QED BY <1>4, <1>6, <2>1, PassedSame
<1>9. CASE v.err = "none"
  <2>1. v.at = s /\ v.open = (s < Stages) /\ Kept(d, v) /\ Begun(v) /\ Passed(d, n, s)
    BY <1>1, <1>9 DEF StageDone, Outcome, n
  <2>2. PassedTo(v, n, s)
    <3>1. PassedTo(d, n, s)
      BY <1>4, <2>1, PassedToStep
    <3> QED BY <1>7, <3>1
  <2>3. OfCurrent(v, v.cert)
    BY <1>5, <2>1 DEF Kept
  <2>4. IF v.num = 0 THEN OfFirst(v, v.cert)
        ELSE OfIssuer(v, v.cert) /\ OfLeaf(v) /\ OfPrevious(v, v.fed[v.num].cert)
    BY <1>4, <1>5, <2>1 DEF Kept
  <2>5. v.cert = v.fed[Len(v.fed)].cert /\ v.open = (v.at < Stages) /\ v.at \in 0 .. Stages
        /\ v.num + 1 = Len(v.fed) /\ PassedTo(v, Len(v.fed), v.at)
    BY <1>4, <1>5, <2>1, <2>2 DEF Stages
  <2>6. Going(v)
    BY <1>9, <2>3, <2>4, <2>5 DEF Going
  <2> QED BY <1>2, <1>3, <2>1, <2>6
<1>10. CASE v.err # "none"
  <2>1. /\ v.err \notin {"none", "NOT_TRUSTED"} /\ ~Passed(d, n, s) /\ (v.err = "ok" <=> Accepts(d, n, s))
        /\ v.err = "ok" => OfLeaf(v)
    BY <1>1, <1>10 DEF StageDone, Outcome, n
  <2>2. s <= v.fed[Len(v.fed)].got /\ v.fed # <<>>
    BY <1>4, <1>5 DEF n
  <2>3. PassedTo(v, Len(v.fed), s - 1) /\ ~Passed(v, Len(v.fed), s) /\ (v.err = "ok" <=> Accepts(v, Len(v.fed), s))
    BY <1>4, <1>5, <1>7, <1>8, <2>1
  <2>4. DecidedAt(v, s)
    BY <2>2, <2>3 DEF DecidedAt
  <2>5. Decided(v)
    BY <2>1, <2>2, <2>4 DEF Decided
  <2> QED BY <1>2, <1>3, <2>5
<1> QED BY <1>9, <1>10

(* So do the stages of one call of append.                                 *)
LEMMA StagesFacts ==
  ASSUME NEW c, IsContext(c), Going(c), Begun(c), NEW m \in Nat, c.at + m <= Stages,
         c.at + m <= c.fed[Len(c.fed)].got, NEW v, v = AfterStages(c, m)
  PROVE  /\ IsContext(v) /\ Only(c, v, StageFields)
         /\ \/ Going(v) /\ Begun(v) /\ v.at = c.at + m
            \/ Decided(v)
<1> DEFINE Good(d, i) == /\ IsContext(d) /\ Only(c, d, StageFields)
                         /\ \/ Going(d) /\ Begun(d) /\ d.at = c.at + i
                            \/ Decided(d)
           S == {i \in Nat : i <= m => Good(AfterStages(c, i), i)}
<1>0. c.at \in 0 .. Stages /\ Stages = 8
  BY DEF Going, Stages
<1>1. 0 \in S
  <2>1. AfterStages(c, 0) = c
    BY AfterStagesDef
  <2>2. Only(c, c, StageFields)
    <3>1. IsRecord(c)
      BY NoChainFields DEF IsContext, IsRecord
    <3> QED BY <3>1 DEF Only
  <2>3. Good(c, 0)
    BY <1>0, <2>2
  <2> QED BY <2>1, <2>3
<1>2. ASSUME NEW i \in Nat, i \in S PROVE i + 1 \in S
  <2> SUFFICES ASSUME i + 1 <= m PROVE Good(AfterStages(c, i + 1), i + 1)
    OBVIOUS
  <2> DEFINE d == AfterStages(c, i)
             w == AfterStages(c, i + 1)
             s == c.at + (i + 1)
  <2>1. Good(d, i)
    BY <1>2
  <2>2. w = DecodeStage(d, s)
    BY AfterStagesDef
  <2>3. s \in 1 .. Stages /\ s - 1 = c.at + i /\ s <= c.fed[Len(c.fed)].got
    <3>0. PICK a \in 0 .. 8 : a = c.at
      BY <1>0
    <3>1. s = a + (i + 1) /\ s \in 1 .. 8 /\ s - 1 = a + i /\ s <= a + m
      <4>1. a + (i + 1) <= a + m /\ a + m <= 8
        BY <1>0, <3>0
      <4>2. s = a + (i + 1)
        BY <3>0
      <4> HIDE DEF s
      <4>3. s <= a + m /\ s <= 8
        BY <4>1, <4>2
      <4>4. s >= 1 /\ s - 1 = a + i /\ s \in Nat
        BY <4>2
      <4> QED BY <4>2, <4>3, <4>4
    <3>2. c.fed[Len(c.fed)].got \in 0 .. Stages
      <4>1. c.fed \in Seq([cert : Certificates, got : 0 .. Stages]) /\ c.num \in Nat /\ Len(c.fed) = c.num + 1
        BY DEF IsContext, Going
      <4>2. Len(c.fed) \in 1 .. Len(c.fed)
        BY <4>1
      <4>3. c.fed[Len(c.fed)] \in [cert : Certificates, got : 0 .. Stages]
        BY <4>1, <4>2, ElementOfSeq
      <4> QED BY <4>3
    <3>3. PICK g \in 0 .. 8 : g = c.fed[Len(c.fed)].got
      BY <1>0, <3>2
    <3>4. a + m <= g
      BY <3>0, <3>3
    <3>5. s <= g
      BY <3>1, <3>4
    <3> QED BY <1>0, <3>0, <3>1, <3>3, <3>5
  <2>4. d.fed = c.fed
    BY <2>1, OnlySame DEF StageFields
  <2> HIDE DEF d, w
  <2>5. CASE Going(d) /\ Begun(d) /\ d.at = c.at + i
    <3>1. Reading(d, s)
      BY <2>1, <2>3, <2>5 DEF Reading
    <3> HIDE DEF s
    <3>2. /\ IsContext(w) /\ Only(d, w, StageFields)
          /\ \/ Going(w) /\ Begun(w) /\ w.at = s
             \/ Decided(w)
      BY <2>2, <2>3, <2>4, <3>1, StageStep
    <3>3. Only(c, w, StageFields)
      BY <2>1, <3>2 DEF Only
    <3> QED BY <3>2, <3>3 DEF s, w
  <2>6. CASE Decided(d)
    <3>1. d.err # "none"
      BY <2>6 DEF Decided
    <3>2. w = d
      BY <2>2, <3>1 DEF DecodeStage
    <3> QED BY <2>1, <2>6, <3>2 DEF w
  <2> QED BY <2>1, <2>5, <2>6
<1> HIDE DEF S, Good
<1>3. Nat \subseteq S
  BY <1>1, <1>2, InductionOnSet
<1>4. Good(v, m)
  BY <1>3 DEF S
<1> QED BY <1>4 DEF Good

-----------------------------------------------------------------------------
(* What the stages say of the chain.                                       *)
LEMMA FedFacts ==
  ASSUME NEW c, IsContext(c)
  PROVE  /\ Len(c.fed) \in Nat /\ (c.fed = <<>> <=> Len(c.fed) = 0)
         /\ \A i \in 1 .. Len(c.fed) :
              /\ IsCertificate(c.fed[i].cert) /\ c.fed[i].cert.broken \in Nat /\ c.fed[i].got \in 0 .. Stages
              /\ i < Len(c.fed) => c.fed[i].got = Stages
<1>1. c.fed \in Seq([cert : Certificates, got : 0 .. Stages])
  BY DEF IsContext
<1>2. Len(c.fed) \in Nat /\ (c.fed = <<>> <=> Len(c.fed) = 0)
  BY <1>1
<1>3. ASSUME NEW i \in 1 .. Len(c.fed)
      PROVE  /\ IsCertificate(c.fed[i].cert) /\ c.fed[i].cert.broken \in Nat /\ c.fed[i].got \in 0 .. Stages
             /\ i < Len(c.fed) => c.fed[i].got = Stages
  <2>1. c.fed[i] \in [cert : Certificates, got : 0 .. Stages]
    BY <1>1, ElementOfSeq
  <2>2. IsCertificate(c.fed[i].cert)
    BY <2>1, ChainAssumption DEF Certificates
  <2>3. i < Len(c.fed) => c.fed[i].got = Stages
    <3>1. i < Len(c.fed) => i \in 1 .. Len(c.fed) - 1
      BY <1>2
    <3> QED BY <3>1 DEF IsContext
  <2> QED BY <2>1, <2>2, <2>3 DEF IsCertificate
<1> QED BY <1>2, <1>3

(* What was read of a certificate, stage by stage.                         *)
LEMMA ReadsIff ==
  ASSUME NEW f, f.cert.broken \in Nat, f.got \in 0 .. Stages, NEW s \in 1 .. Stages
  PROVE  Reads(f, s) <=> f.got >= s /\ \A t \in 1 .. s : f.cert.broken # t
BY DEF Reads, Stages

(* What holds of all extensions of a kind holds of each of the kind.       *)
LEMMA AllIff ==
  ASSUME NEW crt, IsCertificate(crt), NEW kind
  PROVE  \A e : e \in All(crt, kind) <=> e \in ToSet(crt.exts) /\ e.kind = kind
<1>1. DOMAIN crt.exts = 1 .. Len(crt.exts)
  BY OfKindFacts
<1>2. \A k : k \in OfKind(crt, kind) <=> k \in 1 .. Len(crt.exts) /\ crt.exts[k].kind = kind
  BY OfKindFacts
<1> QED BY <1>1, <1>2 DEF All, ToSet

RightName(c, crt) == c.server = <<>> \/ Named(c, NamesOf(crt))

(* The end entity.                                                         *)
LEMMA LeafIff ==
  ASSUME NEW c, IsContext(c), c.fed # <<>>
  PROVE  GoodLeaf(c, c.fed[1]) <=>
           /\ c.fed[1].got >= 6 /\ \A t \in 1 .. 5 : Passed(c, 1, t)
           /\ c.fed[1].cert.broken # 6 /\ RightName(c, c.fed[1].cert)
<1> DEFINE f == c.fed[1]
           crt == c.fed[1].cert
<1>1. crt.broken \in Nat /\ f.got \in 0 .. Stages
  <2>1. 1 \in 1 .. Len(c.fed)
    BY FedFacts
  <2> QED BY <2>1, FedFacts
<1>2. Reads(f, 6) <=> f.got >= 6 /\ \A t \in 1 .. 6 : crt.broken # t
  <2>1. 6 \in 1 .. Stages
    BY DEF Stages
  <2> QED BY <1>1, <2>1, ReadsIff
<1>3. /\ Passed(c, 1, 1) <=> crt.broken # 1
      /\ Passed(c, 1, 2) <=> crt.broken # 2 /\ crt.dated
      /\ Passed(c, 1, 3) <=> crt.broken # 3
      /\ Passed(c, 1, 4) <=> crt.broken # 4 /\ GoodKey(crt.key)
      /\ Passed(c, 1, 5) <=> crt.broken # 5 /\ \A e \in ToSet(crt.exts) : Harmless(e)
  BY DEF Passed
<1>4. GoodLeaf(c, f) <=> Reads(f, 6) /\ crt.dated /\ GoodKey(crt.key) /\ (\A e \in ToSet(crt.exts) : Harmless(e))
                         /\ RightName(c, crt)
  BY DEF GoodLeaf, Dated, GoodKey, Understood, RightName, Named
<1>5. (\A t \in 1 .. 5 : Passed(c, 1, t)) <=>
        Passed(c, 1, 1) /\ Passed(c, 1, 2) /\ Passed(c, 1, 3) /\ Passed(c, 1, 4) /\ Passed(c, 1, 5)
  <2>1. \A t : t \in 1 .. 5 <=> t \in {1, 2, 3, 4, 5}
    OBVIOUS
  <2> QED BY <2>1
<1>6. (\A t \in 1 .. 6 : crt.broken # t) <=>
        crt.broken # 1 /\ crt.broken # 2 /\ crt.broken # 3 /\ crt.broken # 4 /\ crt.broken # 5 /\ crt.broken # 6
  <2>1. \A t : t \in 1 .. 6 <=> t \in {1, 2, 3, 4, 5, 6}
    OBVIOUS
  <2> QED BY <2>1
<1> HIDE DEF f, crt
<1>7. GoodLeaf(c, f) <=> f.got >= 6 /\ (\A t \in 1 .. 5 : Passed(c, 1, t)) /\ crt.broken # 6 /\ RightName(c, crt)
  BY <1>2, <1>3, <1>4, <1>5, <1>6
<1> QED BY <1>7 DEF f, crt

(* An issuer, as far as it does not settle the chain.                      *)
PassesAsIssuer(c, i, crt) == (\A t \in 1 .. 7 : Passed(c, i, t)) /\ crt.broken # 8
(* An issuer is good exactly if its stages pass.                           *)
LEMMA IssuerIff ==
  ASSUME NEW c, IsContext(c), NEW i \in 2 .. Len(c.fed), NEW f, f = c.fed[i], NEW crt, crt = f.cert,
         NEW before, before = c.fed[i - 1].cert, f.got = Stages
  PROVE  PassesAsIssuer(c, i, crt)
         <=> /\ Reads(f, Stages) /\ crt.alg \in {"rsa", "ec"}
             /\ GoodIssuer(f, i - 2) /\ crt.subject = before.issuer /\ SignedWith(c, before, crt.key)
<1>0. Len(c.fed) \in Nat /\ i # 1 /\ i \in 1 .. Len(c.fed)
  BY FedFacts
<1>1. crt.broken \in Nat /\ IsCertificate(crt)
  BY <1>0, FedFacts
<1>2. Reads(f, Stages) <=> \A t \in 1 .. 8 : crt.broken # t
  BY <1>1, ReadsIff DEF Stages
<1>3. /\ Passed(c, i, 1) <=> crt.broken # 1
      /\ Passed(c, i, 2) <=> crt.broken # 2 /\ crt.dated
      /\ Passed(c, i, 3) <=> crt.broken # 3 /\ crt.subject = before.issuer
      /\ Passed(c, i, 4) <=> crt.broken # 4 /\ GoodKey(crt.key) /\ SignedWith(c, before, crt.key)
      /\ Passed(c, i, 5) <=> crt.broken # 5 /\ \A e \in ToSet(crt.exts) : Harmless(e) /\ FitsIssuer(e, i - 2)
      /\ Passed(c, i, 6) <=> crt.broken # 6 /\ All(crt, "basicConstraints") # {}
      /\ Passed(c, i, 7) <=> crt.broken # 7 /\ crt.alg \in {"rsa", "ec"}
  BY <1>0 DEF Passed
<1>4. (\A t \in 1 .. 7 : Passed(c, i, t)) <=>
        /\ Passed(c, i, 1) /\ Passed(c, i, 2) /\ Passed(c, i, 3) /\ Passed(c, i, 4)
        /\ Passed(c, i, 5) /\ Passed(c, i, 6) /\ Passed(c, i, 7)
  <2>1. \A t : t \in 1 .. 7 <=> t \in {1, 2, 3, 4, 5, 6, 7}
    OBVIOUS
  <2> QED BY <2>1
<1>5. (\A t \in 1 .. 8 : crt.broken # t) <=>
        /\ crt.broken # 1 /\ crt.broken # 2 /\ crt.broken # 3 /\ crt.broken # 4
        /\ crt.broken # 5 /\ crt.broken # 6 /\ crt.broken # 7 /\ crt.broken # 8
  <2>1. \A t : t \in 1 .. 8 <=> t \in {1, 2, 3, 4, 5, 6, 7, 8}
    OBVIOUS
  <2> QED BY <2>1
<1>6. GoodIssuer(f, i - 2) <=>
        /\ crt.dated /\ GoodKey(crt.key) /\ All(crt, "basicConstraints") # {}
        /\ \A e \in ToSet(crt.exts) : Harmless(e) /\ FitsIssuer(e, i - 2)
  <2>1. /\ \A e : e \in All(crt, "basicConstraints") <=> e \in ToSet(crt.exts) /\ e.kind = "basicConstraints"
        /\ \A e : e \in All(crt, "keyUsage") <=> e \in ToSet(crt.exts) /\ e.kind = "keyUsage"
    BY <1>1, AllIff
  <2>2. (\A e \in ToSet(crt.exts) : FitsIssuer(e, i - 2)) <=>
          /\ \A e \in All(crt, "basicConstraints") : e.ca /\ e.path >= i - 2
          /\ \A e \in All(crt, "keyUsage") : "certSign" \in e.bits
    BY <2>1 DEF FitsIssuer
  <2> QED BY <2>2 DEF GoodIssuer, Dated, GoodKey, Understood
<1> QED BY <1>2, <1>3, <1>4, <1>5, <1>6 DEF PassesAsIssuer

(* A path is good if every stage of its certificates passes but those that *)
(* settle the chain.                                                       *)
Settles(i, t) == (i = 1 /\ t = 6) \/ t = 8
(* A path is good exactly if the stages of its certificates pass.          *)
LEMMA PathIff ==
  ASSUME NEW c, IsContext(c), NEW n \in 1 .. Len(c.fed), c.fed[n].got = Stages
  PROVE  GoodPath(c, n) <=>
           /\ \A i \in 1 .. n : /\ \A t \in 1 .. 8 : ~Settles(i, t) => Passed(c, i, t)
                               /\ c.fed[i].cert.broken # 8
           /\ c.fed[1].cert.broken # 6 /\ RightName(c, c.fed[1].cert)
<1> DEFINE Good(i) == (\A t \in 1 .. 8 : ~Settles(i, t) => Passed(c, i, t)) /\ c.fed[i].cert.broken # 8
           leaf == c.fed[1].cert.broken # 6 /\ RightName(c, c.fed[1].cert)
           Complete(i) == Reads(c.fed[i], Stages) /\ c.fed[i].cert.alg \in {"rsa", "ec"}
           Signed(i) == /\ GoodIssuer(c.fed[i], i - 2)
                        /\ c.fed[i].cert.subject = c.fed[i - 1].cert.issuer
                        /\ SignedWith(c, c.fed[i - 1].cert, c.fed[i].cert.key)
<1>0. n \in Nat /\ n >= 1 /\ n <= Len(c.fed) /\ Len(c.fed) \in Nat
  BY FedFacts
<1>1. \A i \in 1 .. n : c.fed[i].got = Stages /\ i \in 1 .. Len(c.fed)
  <2> SUFFICES ASSUME NEW i \in 1 .. n PROVE c.fed[i].got = Stages /\ i \in 1 .. Len(c.fed)
    OBVIOUS
  <2>1. i \in 1 .. Len(c.fed)
    BY <1>0
  <2>2. CASE i = n
    BY <2>1, <2>2
  <2>3. CASE i # n
    <3>1. i < Len(c.fed)
      BY <1>0, <2>3
    <3> QED BY <2>1, <3>1, FedFacts
  <2> QED BY <2>2, <2>3
<1>2. ASSUME NEW i \in 2 .. n PROVE Good(i) <=> Complete(i) /\ Signed(i)
  <2>1. i \in 2 .. Len(c.fed) /\ i \in 1 .. n
    BY <1>0
  <2>2. (\A t \in 1 .. 8 : ~Settles(i, t) => Passed(c, i, t)) <=> \A t \in 1 .. 7 : Passed(c, i, t)
    <3>1. \A t \in 1 .. 8 : ~Settles(i, t) <=> t \in 1 .. 7
      BY DEF Settles
    <3>2. \A t \in 1 .. 7 : t \in 1 .. 8
      OBVIOUS
    <3> QED BY <3>1, <3>2
  <2> DEFINE f == c.fed[i]
             crt == f.cert
             before == c.fed[i - 1].cert
  <2>3. PassesAsIssuer(c, i, crt)
         <=> /\ Reads(f, Stages) /\ crt.alg \in {"rsa", "ec"}
             /\ GoodIssuer(f, i - 2) /\ crt.subject = before.issuer /\ SignedWith(c, before, crt.key)
    <3>1. f.got = Stages
      BY <1>1, <2>1
    <3>2. f = c.fed[i] /\ crt = f.cert /\ before = c.fed[i - 1].cert
      OBVIOUS
    <3> HIDE DEF f, crt, before
    <3> QED BY <2>1, <3>1, <3>2, IssuerIff
  <2> QED BY <2>2, <2>3 DEF PassesAsIssuer
<1>3. Good(1) /\ leaf <=> Complete(1) /\ GoodLeaf(c, c.fed[1])
  <2> DEFINE f == c.fed[1]
             crt == c.fed[1].cert
  <2>0. 1 \in 1 .. n /\ 1 \in 1 .. Len(c.fed) /\ c.fed # <<>> /\ f.got = 8 /\ Stages = 8 /\ crt.broken \in Nat
    <3>1. 1 \in 1 .. n /\ 1 \in 1 .. Len(c.fed) /\ c.fed # <<>> /\ Stages = 8
      BY <1>0, FedFacts DEF Stages
    <3> QED BY <1>1, <3>1, FedFacts
  <2>1. GoodLeaf(c, f) <=>
           /\ f.got >= 6 /\ \A t \in 1 .. 5 : Passed(c, 1, t)
           /\ crt.broken # 6 /\ RightName(c, crt)
    BY <2>0, LeafIff
  <2>2. Reads(f, 8) <=> \A t \in 1 .. 8 : crt.broken # t
    <3>1. 8 \in 1 .. Stages /\ f.got \in 0 .. Stages /\ f.cert.broken \in Nat /\ f.got >= 8
      BY <2>0
    <3> HIDE DEF f, crt
    <3>2. Reads(f, 8) <=> \A t \in 1 .. 8 : f.cert.broken # t
      BY <3>1, ReadsIff
    <3> QED BY <3>2 DEF f, crt
  <2>3. /\ Passed(c, 1, 1) => crt.broken # 1
        /\ Passed(c, 1, 2) => crt.broken # 2
        /\ Passed(c, 1, 3) => crt.broken # 3
        /\ Passed(c, 1, 4) => crt.broken # 4
        /\ Passed(c, 1, 5) => crt.broken # 5
        /\ Passed(c, 1, 7) <=> crt.broken # 7 /\ crt.alg \in {"rsa", "ec"}
    BY DEF Passed
  <2>4. (\A t \in 1 .. 8 : ~Settles(1, t) => Passed(c, 1, t)) <=> (\A t \in 1 .. 5 : Passed(c, 1, t)) /\ Passed(c, 1, 7)
    <3>1. \A t \in 1 .. 8 : ~Settles(1, t) <=> t \in 1 .. 5 \/ t = 7
      BY DEF Settles
    <3>2. \A t \in 1 .. 5 : t \in 1 .. 8
      OBVIOUS
    <3>3. 7 \in 1 .. 8
      OBVIOUS
    <3> QED BY <3>1, <3>2, <3>3
  <2>5. (\A t \in 1 .. 5 : Passed(c, 1, t)) =>
          crt.broken # 1 /\ crt.broken # 2 /\ crt.broken # 3 /\ crt.broken # 4 /\ crt.broken # 5
    BY <2>3
  <2>6. (\A t \in 1 .. 8 : crt.broken # t) <=>
          /\ crt.broken # 1 /\ crt.broken # 2 /\ crt.broken # 3 /\ crt.broken # 4
          /\ crt.broken # 5 /\ crt.broken # 6 /\ crt.broken # 7 /\ crt.broken # 8
    <3>1. \A t : t \in 1 .. 8 <=> t \in {1, 2, 3, 4, 5, 6, 7, 8}
      OBVIOUS
    <3> QED BY <3>1
  <2>7. f.got >= 6
    BY <2>0
  <2>8. /\ Good(1) <=> (\A t \in 1 .. 8 : ~Settles(1, t) => Passed(c, 1, t)) /\ crt.broken # 8
        /\ leaf <=> crt.broken # 6 /\ RightName(c, crt)
        /\ Complete(1) <=> Reads(f, 8) /\ crt.alg \in {"rsa", "ec"}
    BY <2>0
  <2> HIDE DEF f, crt, Good, leaf, Complete
  <2> QED BY <2>1, <2>2, <2>3, <2>4, <2>5, <2>6, <2>7, <2>8 DEF f
<1>4. GoodPath(c, n) <=> (\A i \in 1 .. n : Complete(i)) /\ GoodLeaf(c, c.fed[1]) /\ \A i \in 2 .. n : Signed(i)
  BY DEF GoodPath
<1>5. \A i : i \in 1 .. n <=> i = 1 \/ i \in 2 .. n
  BY <1>0
<1> HIDE DEF Good, leaf, Complete, Signed
<1>6. (\A i \in 1 .. n : Good(i)) /\ leaf <=>
        (\A i \in 1 .. n : Complete(i)) /\ GoodLeaf(c, c.fed[1]) /\ \A i \in 2 .. n : Signed(i)
  BY <1>2, <1>3, <1>5
<1>7. (\A i \in 1 .. n : Good(i)) <=>
        \A i \in 1 .. n : /\ \A t \in 1 .. 8 : ~Settles(i, t) => Passed(c, i, t)
                          /\ c.fed[i].cert.broken # 8
  BY DEF Good
<1> QED BY <1>4, <1>6, <1>7 DEF leaf

(* An end entity that is good and trusted directly is settled at stage 6.  *)
LEMMA DirectlyPassed ==
  ASSUME NEW c, c.fed # <<>>, Passed(c, 1, 6)
  PROVE  ~Directly(c, c.fed[1].cert)
BY DEF Passed

(* A certificate that is anchored is settled at stage 8.                   *)
LEMMA AnchoredPassed ==
  ASSUME NEW c, NEW n, Passed(c, n, 8)
  PROVE  ~Anchored(c, c.fed[n].cert)
BY DEF Passed

(* A chain whose certificates have passed as far as they were read, the    *)
(* last one not to its end or not with a good path, is not trusted.        *)
LEMMA NotTrusted ==
  ASSUME NEW c, IsContext(c), c.fed # <<>>, NEW s \in 0 .. Stages, PassedTo(c, Len(c.fed), s),
         s < Stages => ~GoodPath(c, Len(c.fed)),
         Len(c.fed) = 1 /\ s < 6 => ~GoodLeaf(c, c.fed[1])
  PROVE  ~Trusted(c)
<1> DEFINE N == Len(c.fed)
<1>0. N \in Nat /\ N >= 1 /\ Stages = 8 /\ \A i \in 1 .. N, t \in 1 .. 8 : i < N \/ t <= s => Passed(c, i, t)
  BY FedFacts DEF Stages, PassedTo
<1>1. ~(GoodLeaf(c, c.fed[1]) /\ Directly(c, c.fed[1].cert))
  <2>1. CASE N = 1 /\ s < 6
    BY <2>1
  <2>2. CASE ~(N = 1 /\ s < 6)
    <3>1. 1 < N \/ 6 <= s
      <4>1. PICK m \in Nat : m = N
        BY <1>0
      <4>2. s \in 0 .. 8 /\ m >= 1 /\ ~(m = 1 /\ s < 6)
        BY <1>0, <2>2, <4>1
      <4>3. 1 < m \/ 6 <= s
        BY <4>2
      <4> QED BY <4>1, <4>3, Zenon
    <3>2. 1 \in 1 .. N /\ 6 \in 1 .. 8
      BY <1>0
    <3>3. Passed(c, 1, 6)
      BY <1>0, <3>1, <3>2
    <3> QED BY <3>3, DirectlyPassed
  <2> QED BY <2>1, <2>2
<1>2. ASSUME NEW n \in 1 .. N PROVE ~(GoodPath(c, n) /\ Anchored(c, c.fed[n].cert))
  <2>1. CASE n = N /\ s < Stages
    BY <2>1
  <2>2. CASE ~(n = N /\ s < Stages)
    <3>1. n < N \/ 8 <= s
      BY <1>0, <2>2
    <3>2. 8 \in 1 .. 8
      OBVIOUS
    <3>3. Passed(c, n, 8)
      BY <1>0, <3>1, <3>2
    <3> QED BY <3>3, AnchoredPassed
  <2> QED BY <2>1, <2>2
<1> QED BY <1>1, <1>2 DEF Trusted

(* What a good path or a good end entity says of a stage.                  *)
LEMMA PathPasses ==
  ASSUME NEW c, IsContext(c), NEW n \in 1 .. Len(c.fed), GoodPath(c, n), NEW t \in 1 .. 8
  PROVE  Passed(c, n, t) \/ Accepts(c, n, t)
<1> DEFINE crt == c.fed[n].cert
<1>1. c.fed[n].got = Stages
  <2>1. Reads(c.fed[n], Stages) /\ c.fed[n].got \in 0 .. Stages
    BY FedFacts DEF GoodPath
  <2> QED BY <2>1 DEF Reads, Stages
<1>2. /\ \A i \in 1 .. n : /\ \A u \in 1 .. 8 : ~Settles(i, u) => Passed(c, i, u)
                          /\ c.fed[i].cert.broken # 8
      /\ c.fed[1].cert.broken # 6 /\ RightName(c, c.fed[1].cert)
  BY <1>1, PathIff
<1>3. n \in 1 .. n
  BY FedFacts
<1>4. CASE ~Settles(n, t)
  BY <1>2, <1>3, <1>4
<1>5. CASE n = 1 /\ t = 6
  <2>1. c.fed[1].cert.broken # 6 /\ RightName(c, c.fed[1].cert)
    BY <1>2
  <2> QED BY <1>5, <2>1 DEF Passed, Accepts, RightName
<1>6. CASE t = 8
  <2>1. crt.broken # 8
    BY <1>2, <1>3
  <2> QED BY <1>6, <2>1 DEF Passed, Accepts
<1> QED BY <1>4, <1>5, <1>6 DEF Settles

(* What a good end entity says of its stages.                              *)
LEMMA LeafPasses ==
  ASSUME NEW c, IsContext(c), c.fed # <<>>, GoodLeaf(c, c.fed[1]), NEW t \in 1 .. 6
  PROVE  Passed(c, 1, t) \/ Accepts(c, 1, t)
<1>1. (\A u \in 1 .. 5 : Passed(c, 1, u)) /\ c.fed[1].cert.broken # 6 /\ RightName(c, c.fed[1].cert)
  BY LeafIff
<1>2. CASE t = 6
  BY <1>1, <1>2 DEF Passed, Accepts, RightName
<1>3. CASE t # 6
  <2>1. t \in 1 .. 5
    BY <1>3
  <2> QED BY <1>1, <2>1
<1> QED BY <1>2, <1>3

(* All the certificates passed to the end.                                 *)
LEMMA AllPassed ==
  ASSUME NEW c, IsContext(c), c.fed # <<>>, PassedTo(c, Len(c.fed), Stages)
  PROVE  /\ ~Trusted(c)
         /\ c.fed[Len(c.fed)].got = Stages => GoodPath(c, Len(c.fed))
<1> DEFINE N == Len(c.fed)
<1>0. N \in 1 .. N /\ N \in Nat /\ 1 \in 1 .. N /\ Stages = 8
  BY FedFacts DEF Stages
<1>1. ~Trusted(c)
  <2>1. Stages \in 0 .. Stages /\ ~(Stages < Stages) /\ ~(Stages < 6)
    BY <1>0
  <2> QED BY <2>1, NotTrusted
<1>2. ASSUME c.fed[N].got = Stages PROVE GoodPath(c, N)
  <2>1. \A i \in 1 .. N, t \in 1 .. 8 : Passed(c, i, t)
    BY <1>0 DEF PassedTo
  <2>2. \A i \in 1 .. N : c.fed[i].cert.broken # 8
    <3> SUFFICES ASSUME NEW i \in 1 .. N PROVE c.fed[i].cert.broken # 8
      OBVIOUS
    <3>1. Passed(c, i, 8)
      BY <2>1
    <3> QED BY <3>1 DEF Passed
  <2>3. Passed(c, 1, 6)
    BY <1>0, <2>1
  <2>4. c.fed[1].cert.broken # 6 /\ RightName(c, c.fed[1].cert)
    BY <2>3 DEF Passed, RightName
  <2> QED BY <1>0, <1>2, <2>1, <2>2, <2>4, PathIff
<1> QED BY <1>1, <1>2

(* The last certificate was cut short.                                     *)
LEMMA CutShort ==
  ASSUME NEW c, IsContext(c), c.fed # <<>>, c.fed[Len(c.fed)].got < Stages,
         PassedTo(c, Len(c.fed), c.fed[Len(c.fed)].got)
  PROVE  ~Trusted(c) /\ ~GoodPath(c, Len(c.fed))
<1> DEFINE N == Len(c.fed)
           s == c.fed[N].got
<1>0. N \in 1 .. N /\ N \in Nat /\ Stages = 8 /\ s \in 0 .. Stages
  BY FedFacts DEF Stages
<1>1. ~GoodPath(c, N)
  <2>1. ~Reads(c.fed[N], Stages)
    BY <1>0 DEF Reads
  <2> QED BY <1>0, <2>1 DEF GoodPath
<1>2. N = 1 /\ s < 6 => ~GoodLeaf(c, c.fed[1])
  BY <1>0 DEF GoodLeaf, Reads
<1>3. PassedTo(c, N, s)
  OBVIOUS
<1> HIDE DEF s
<1>4. ~Trusted(c)
  BY <1>0, <1>1, <1>2, <1>3, NotTrusted
<1> QED BY <1>1, <1>4

(* A stage of the last one decided.                                        *)
LEMMA DecidedJudged ==
  ASSUME NEW c, IsContext(c), c.fed # <<>>, NEW s \in 1 .. Stages, DecidedAt(c, s)
  PROVE  /\ c.err = "ok" <=> Trusted(c)
         /\ GoodPath(c, Len(c.fed)) => Trusted(c)
<1> DEFINE N == Len(c.fed)
<1>0. N \in 1 .. N /\ N \in Nat /\ N >= 1 /\ 1 \in 1 .. N /\ Stages = 8
  BY FedFacts DEF Stages
<1>1. /\ s <= c.fed[N].got /\ ~Passed(c, N, s) /\ (c.err = "ok" <=> Accepts(c, N, s))
      /\ PassedTo(c, N, s - 1)
  BY DEF DecidedAt
<1>2. \A i \in 1 .. N, t \in 1 .. 8 : i < N \/ t < s => Passed(c, i, t)
  BY <1>0, <1>1 DEF PassedTo
<1>3. \A i \in 1 .. N : i < N => c.fed[i].cert.broken # 8
  <2> SUFFICES ASSUME NEW i \in 1 .. N, i < N PROVE c.fed[i].cert.broken # 8
    OBVIOUS
  <2>1. Passed(c, i, 8)
    BY <1>2
  <2> QED BY <2>1 DEF Passed
<1>4. CASE ~Accepts(c, N, s)
  <2>1. ~GoodPath(c, N)
    <3>1. s \in 1 .. 8
      BY <1>0
    <3> QED BY <1>0, <1>1, <1>4, <3>1, PathPasses
  <2>2. ASSUME N = 1, s - 1 < 6 PROVE ~GoodLeaf(c, c.fed[1])
    <3>1. s \in 1 .. 6
      BY <1>0, <2>2
    <3> QED BY <1>1, <1>4, <2>2, <3>1, LeafPasses
  <2>3. s - 1 \in 0 .. Stages
    BY <1>0
  <2> DEFINE r == s - 1
  <2>4. r \in 0 .. Stages /\ PassedTo(c, N, r) /\ (N = 1 /\ r < 6 => ~GoodLeaf(c, c.fed[1]))
    BY <1>1, <2>2, <2>3
  <2> HIDE DEF r
  <2>5. ~Trusted(c)
    BY <2>1, <2>4, NotTrusted
  <2> QED BY <1>1, <1>4, <2>1, <2>5
<1>5. CASE Accepts(c, N, s) /\ s = 6
  <2>1. N = 1 /\ c.fed[1].cert.broken # 6 /\ RightName(c, c.fed[1].cert) /\ Directly(c, c.fed[1].cert)
    BY <1>5 DEF Accepts, RightName
  <2>2. c.fed[1].got >= 6
    BY <1>0, <1>1, <1>5, <2>1, FedFacts
  <2>3. \A t \in 1 .. 5 : Passed(c, 1, t)
    <3>1. \A t \in 1 .. 5 : t \in 1 .. 8 /\ t < 6
      OBVIOUS
    <3> QED BY <1>0, <1>2, <1>5, <3>1
  <2>4. GoodLeaf(c, c.fed[1])
    BY <2>1, <2>2, <2>3, LeafIff
  <2>5. Trusted(c)
    BY <2>1, <2>4 DEF Trusted
  <2> QED BY <1>1, <1>5, <2>5
<1>6. CASE Accepts(c, N, s) /\ s # 6
  <2>1. s = 8 /\ c.fed[N].cert.broken # 8 /\ Anchored(c, c.fed[N].cert)
    BY <1>6 DEF Accepts
  <2>2. c.fed[N].got = Stages
    <3>1. c.fed[N].got \in 0 .. Stages
      BY <1>0, FedFacts
    <3> QED BY <1>0, <1>1, <2>1, <3>1
  <2>3. \A i \in 1 .. N, t \in 1 .. 8 : ~Settles(i, t) => Passed(c, i, t)
    <3>1. \A i \in 1 .. N, t \in 1 .. 8 : ~Settles(i, t) => t < 8
      BY DEF Settles
    <3> QED BY <1>2, <2>1, <3>1
  <2>4. \A i \in 1 .. N : c.fed[i].cert.broken # 8
    <3>1. \A i \in 1 .. N : i < N \/ i = N
      BY <1>0
    <3> QED BY <1>3, <2>1, <3>1
  <2>5. c.fed[1].cert.broken # 6 /\ RightName(c, c.fed[1].cert)
    <3>1. Passed(c, 1, 6)
      <4>1. 6 \in 1 .. 8 /\ 6 < s
        BY <2>1
      <4> QED BY <1>0, <1>2, <4>1
    <3> QED BY <3>1 DEF Passed, RightName
  <2>6. GoodPath(c, N)
    BY <1>0, <2>2, <2>3, <2>4, <2>5, PathIff
  <2>7. Trusted(c)
    BY <1>0, <2>1, <2>6 DEF Trusted
  <2> QED BY <1>1, <1>6, <2>7
<1> QED BY <1>4, <1>5, <1>6

(* The end of a chain.                                                     *)
LEMMA OverJudged ==
  ASSUME NEW c, IsContext(c), Over(c)
  PROVE  Judged(c)
<1>0. Len(c.fed) \in Nat /\ (c.fed = <<>> <=> Len(c.fed) = 0) /\ Stages = 8
  BY FedFacts DEF Stages
<1>1. c.fed = <<>> => ~Trusted(c)
  BY <1>0 DEF Trusted
<1>2. CASE c.err = "EMPTY_CHAIN" /\ c.num = 0 /\ c.fed = <<>>
  BY <1>1, <1>2 DEF Judged
<1>3. CASE c.err = "NOT_TRUSTED" /\ c.num > 0 /\ AllGood(c)
  <2>1. c.num = Len(c.fed) /\ PassedTo(c, Len(c.fed), Stages) /\ OfLeaf(c)
        /\ \A i \in 1 .. Len(c.fed) : c.fed[i].got = Stages
    BY <1>3 DEF AllGood
  <2>2. c.fed # <<>> /\ Len(c.fed) \in 1 .. Len(c.fed)
    BY <1>0, <1>3, <2>1
  <2>3. ~Trusted(c) /\ GoodPath(c, Len(c.fed))
    BY <2>1, <2>2, AllPassed
  <2> QED BY <1>3, <2>1, <2>2, <2>3 DEF Judged, OfLeaf
<1>4. CASE Decided(c)
  <2>1. /\ c.err \notin {"none", "NOT_TRUSTED"} /\ c.fed # <<>>
        /\ c.err = "ok" => OfLeaf(c)
    BY <1>4 DEF Decided
  <2>2. PICK s \in 1 .. Stages : DecidedAt(c, s)
    BY <1>4 DEF Decided
  <2>3. /\ c.err = "ok" <=> Trusted(c)
        /\ GoodPath(c, Len(c.fed)) => Trusted(c)
    BY <2>1, <2>2, DecidedJudged
  <2> QED BY <2>1, <2>3 DEF Judged, OfLeaf
<1>5. CASE Cut(c, c.num)
  <2>1. c.err = "TRUNCATED"
    BY <1>5 DEF Cut
  <2>2. CASE c.num > Len(c.fed) /\ PassedTo(c, Len(c.fed), Stages)
    <3>1. ~Trusted(c)
      BY <1>1, <2>2, AllPassed
    <3>2. c.num # Len(c.fed)
      BY <1>0, <2>2 DEF IsContext
    <3> QED BY <2>1, <3>1, <3>2 DEF Judged
  <2>3. CASE /\ c.fed # <<>> /\ c.fed[Len(c.fed)].got < Stages
             /\ PassedTo(c, Len(c.fed), c.fed[Len(c.fed)].got)
    <3>1. ~Trusted(c) /\ ~GoodPath(c, Len(c.fed))
      BY <2>3, CutShort
    <3> QED BY <2>1, <3>1 DEF Judged
  <2> QED BY <1>5, <2>2, <2>3 DEF Cut
<1> QED BY <1>2, <1>3, <1>4, <1>5 DEF Over

-----------------------------------------------------------------------------
(* The actions.  A step that leaves the certificates and what is said of   *)
(* them alone leaves the judgement alone.                                  *)
SameChain(c, d) ==
  /\ d.fed = c.fed /\ d.err = c.err /\ d.pkey = c.pkey /\ d.usages = c.usages
  /\ d.server = c.server /\ d.verifiers = c.verifiers /\ d.anchors = c.anchors
HeldFields == {"pc", "num", "err", "open"}

(* A call that sets only where it is keeps a context well-formed.          *)
LEMMA HeldFacts ==
  ASSUME NEW c, IsContext(c), NEW d, Only(c, d, HeldFields), d.num \in Nat
  PROVE  IsContext(d)
<1>1. d.fed = c.fed /\ d.server = c.server /\ IsRecord(d)
  BY OnlySame DEF HeldFields
<1>2. d = [f \in DOMAIN NoChain |-> d[f]]
  BY <1>1, NoChainFields DEF IsRecord
<1> QED BY <1>1, <1>2 DEF IsContext

(* A chain that is decided stays decided.                                  *)
LEMMA DecidedSame ==
  ASSUME NEW c, IsContext(c), Decided(c), NEW d, SameChain(c, d)
  PROVE  Decided(d)
<1>1. /\ d.fed = c.fed /\ d.err = c.err /\ d.pkey = c.pkey /\ d.usages = c.usages
      /\ Len(c.fed) \in Nat /\ Len(c.fed) \in 1 .. Len(c.fed)
  BY FedFacts DEF SameChain, Decided
<1>2. Agree(c, d, Len(c.fed))
  BY DEF Agree, SameChain
<1>3. PICK s \in 1 .. Stages : DecidedAt(c, s)
  BY DEF Decided
<1>4. DecidedAt(d, s)
  BY <1>1, <1>2, <1>3, PassedSame, PassedToSame DEF DecidedAt
<1>5. d.err = "ok" => OfLeaf(d)
  BY <1>1 DEF Decided, OfLeaf
<1> QED BY <1>1, <1>4, <1>5 DEF Decided

(* A chain that is cut short stays so.                                     *)
LEMMA CutSame ==
  ASSUME NEW c, IsContext(c), NEW n \in Nat, Cut(c, n), NEW d, SameChain(c, d), NEW m \in Nat, n <= m
  PROVE  Cut(d, m)
<1>1. d.fed = c.fed /\ d.err = c.err /\ Len(c.fed) \in Nat
  BY FedFacts DEF SameChain
<1>2. Agree(c, d, Len(c.fed))
  BY DEF Agree, SameChain
<1>3. \A t : PassedTo(c, Len(c.fed), t) <=> PassedTo(d, Len(c.fed), t)
  BY <1>1, <1>2, PassedToSame
<1>4. n > Len(c.fed) => m > Len(c.fed)
  BY <1>1
<1> QED BY <1>1, <1>3, <1>4 DEF Cut

(* A call that only marks where it is.                                     *)
LEMMA KeepsDecided ==
  ASSUME NEW c, IsContext(c), NEW n \in Nat, Decided(c) \/ Cut(c, n),
         NEW d, SameChain(c, d), NEW m \in Nat, n <= m
  PROVE  Decided(d) \/ Cut(d, m)
BY DecidedSame, CutSame

(* Certificates that are good stay good.                                   *)
LEMMA AllGoodSame ==
  ASSUME NEW c, IsContext(c), AllGood(c), NEW d, SameChain(c, d), d.num = c.num,
         d.saved = c.saved, d.signer = c.signer, d.sig = c.sig
  PROVE  AllGood(d)
<1>1. d.fed = c.fed /\ d.pkey = c.pkey /\ d.usages = c.usages /\ Len(c.fed) \in Nat
  BY FedFacts DEF SameChain
<1>2. Agree(c, d, Len(c.fed))
  BY DEF Agree, SameChain
<1>3. PassedTo(c, Len(c.fed), Stages) <=> PassedTo(d, Len(c.fed), Stages)
  BY <1>1, <1>2, PassedToSame
<1> QED BY <1>1, <1>3 DEF AllGood, OfLeaf

(* The error says whether the chain goes on.                               *)
LEMMA ErrFacts ==
  ASSUME NEW c
  PROVE  /\ Decided(c) => c.err # "none"
         /\ \A n : Cut(c, n) => c.err # "none"
         /\ Going(c) => c.err = "none"
BY DEF Decided, Cut, Going

(* xm_start_chain, of a context that has been set up.                      *)
LEMMA StartChainKeeps ==
  ASSUME NEW c \in Contexts, NEW name \in ServerNames,
         NEW d, d = [c EXCEPT !.pc = "chain", !.server = name, !.err = "none", !.num = 0, !.at = 0,
                              !.pkey = NoKey]
  PROVE  IsContext(d) /\ d.pc = "chain" /\ Between(d)
<1>1. IsRecord(c) /\ c.fed = <<>>
  BY ChainAssumption, NoChainFields DEF IsRecord
<1> DEFINE e1 == [c EXCEPT !.pc = "chain"]
           e2 == [e1 EXCEPT !.server = name]
           e3 == [e2 EXCEPT !.err = "none"]
           e4 == [e3 EXCEPT !.num = 0]
           e5 == [e4 EXCEPT !.at = 0]
           e6 == [e5 EXCEPT !.pkey = NoKey]
<1>2. d = e6
  OBVIOUS
<1>3. /\ "pc" \in Fields /\ "server" \in Fields /\ "err" \in Fields /\ "num" \in Fields /\ "at" \in Fields
      /\ "pkey" \in Fields
  BY DEF Fields
<1>4. Only(c, e1, {"pc"}) /\ e1.pc = "chain" /\ IsRecord(e1)
  <2>1. Only(c, e1, {"pc"}) /\ e1.pc = "chain"
    BY <1>1, <1>3, Update
  <2> QED BY <2>1 DEF Only
<1> HIDE DEF e1
<1>5. Only(e1, e2, {"server"}) /\ e2.server = name /\ IsRecord(e2)
  BY <1>3, <1>4, Update DEF Only
<1> HIDE DEF e2
<1>6. Only(e2, e3, {"err"}) /\ e3.err = "none" /\ IsRecord(e3)
  BY <1>3, <1>5, Update DEF Only
<1> HIDE DEF e3
<1>7. Only(e3, e4, {"num"}) /\ e4.num = 0 /\ IsRecord(e4)
  BY <1>3, <1>6, Update DEF Only
<1> HIDE DEF e4
<1>8. Only(e4, e5, {"at"}) /\ e5.at = 0 /\ IsRecord(e5)
  BY <1>3, <1>7, Update DEF Only
<1> HIDE DEF e5
<1>9. Only(e5, e6, {"pkey"}) /\ IsRecord(e6)
  BY <1>3, <1>8, Update DEF Only
<1> HIDE DEF e6
<1>10. e2.pc = "chain" /\ e2.fed = c.fed
  BY <1>4, <1>5, OnlySame
<1>11. e4.pc = "chain" /\ e4.fed = c.fed /\ e4.err = "none" /\ e4.server = name
  <2>1. e3.pc = "chain" /\ e3.fed = c.fed /\ e3.server = name
    BY <1>5, <1>6, <1>10, OnlySame
  <2> QED BY <1>6, <1>7, <2>1, OnlySame
<1>12. d.pc = "chain" /\ d.fed = <<>> /\ d.err = "none" /\ d.server = name /\ d.num = 0 /\ IsRecord(d)
  <2>1. e5.pc = "chain" /\ e5.fed = c.fed /\ e5.err = "none" /\ e5.server = name /\ e5.num = 0
    BY <1>7, <1>8, <1>11, OnlySame
  <2> QED BY <1>1, <1>2, <1>9, <2>1, OnlySame
<1>13. IsContext(d)
  <2>1. d = [f \in DOMAIN NoChain |-> d[f]]
    BY <1>12, NoChainFields DEF IsRecord
  <2>2. IsName(d.server)
    BY <1>12, ChainAssumption
  <2> DEFINE S == [cert : Certificates, got : 0 .. Stages]
  <2> HIDE DEF S
  <2>3. Len(d.fed) = 0 /\ d.fed \in Seq(S)
    <3>1. <<>> \in Seq(S) /\ Len(<<>>) = 0
      OBVIOUS
    <3> QED BY <1>12, <3>1
  <2>4. \A i \in 1 .. Len(d.fed) - 1 : d.fed[i].got = Stages
    BY <2>3
  <2>5. d.num \in Nat /\ d.fed \in Seq([cert : Certificates, got : 0 .. Stages])
    BY <1>12, <2>3 DEF S
  <2> HIDE DEF S
  <2> QED BY <2>1, <2>2, <2>4, <2>5, Zenon DEF IsContext
<1>14. AllGood(d)
  <2>1. Len(d.fed) = 0
    BY <1>12
  <2>2. PassedTo(d, Len(d.fed), Stages)
    BY <2>1 DEF PassedTo
  <2> QED BY <1>12, <2>1, <2>2 DEF AllGood
<1> QED BY <1>12, <1>13, <1>14 DEF Between

(* xm_start_cert without bytes.                                            *)
LEMMA StartEmptyCertKeeps ==
  ASSUME NEW c, IsContext(c), Between(c), c.err = "none",
         NEW d, d = [c EXCEPT !.pc = "cert", !.err = "TRUNCATED"]
  PROVE  IsContext(d) /\ d.pc = "cert" /\ Within(d)
<1>1. IsRecord(c)
  BY NoChainFields DEF IsContext, IsRecord
<1> DEFINE e1 == [c EXCEPT !.pc = "cert"]
           e2 == [e1 EXCEPT !.err = "TRUNCATED"]
<1>2. d = e2
  OBVIOUS
<1>3. "pc" \in Fields /\ "err" \in Fields
  BY DEF Fields
<1>4. Only(c, e1, {"pc"}) /\ e1.pc = "cert" /\ IsRecord(e1)
  BY <1>1, <1>3, Update DEF Only
<1> HIDE DEF e1
<1>5. Only(e1, e2, {"err"}) /\ e2.err = "TRUNCATED" /\ IsRecord(e2)
  BY <1>3, <1>4, Update DEF Only
<1> HIDE DEF e2
<1>6. d.pc = "cert" /\ d.err = "TRUNCATED"
  BY <1>2, <1>4, <1>5, OnlySame
<1>7. Only(c, d, {"pc", "err"})
  BY <1>2, <1>4, <1>5 DEF Only
<1>8. Only(c, d, HeldFields) /\ d.num = c.num /\ d.fed = c.fed
  BY <1>7, OnlySame DEF Only, HeldFields
<1>9. c.num \in Nat /\ AllGood(c)
  BY ErrFacts DEF IsContext, Between
<1>10. IsContext(d)
  BY <1>8, <1>9, HeldFacts
<1>11. Cut(d, d.num + 1)
  <2>1. Agree(c, d, Len(c.fed))
    <3>1. d.server = c.server /\ d.verifiers = c.verifiers /\ d.anchors = c.anchors
      BY <1>7, OnlySame
    <3> QED BY <1>8, <3>1 DEF Agree
  <2>2. Len(c.fed) \in Nat /\ c.num = Len(c.fed) /\ PassedTo(c, Len(c.fed), Stages)
    BY <1>9 DEF AllGood
  <2>3. PassedTo(d, Len(d.fed), Stages)
    BY <1>8, <2>1, <2>2, PassedToSame
  <2>4. d.num + 1 > Len(d.fed)
    BY <1>8, <1>9, <2>2
  <2> QED BY <1>6, <2>3, <2>4 DEF Cut
<1> QED BY <1>6, <1>10, <1>11 DEF Within

(* A certificate of a chain that is already decided.                       *)
LEMMA StartIgnoredCertKeeps ==
  ASSUME NEW c, IsContext(c), Between(c), c.err # "none",
         NEW d, d = [c EXCEPT !.pc = "cert"]
  PROVE  IsContext(d) /\ d.pc = "cert" /\ Within(d)
<1>1. IsRecord(c) /\ c.num \in Nat
  BY NoChainFields DEF IsContext, IsRecord
<1>2. Only(c, d, {"pc"}) /\ d.pc = "cert"
  BY <1>1, Update, "pc" \in Fields DEF Fields
<1>3. SameChain(c, d) /\ d.num = c.num /\ Only(c, d, HeldFields)
  BY <1>2, OnlySame DEF SameChain, Only, HeldFields
<1>4. IsContext(d)
  BY <1>1, <1>3, HeldFacts
<1>5. Decided(c) \/ Cut(c, c.num)
  BY DEF Between
<1>6. Decided(d) \/ Cut(d, c.num + 1)
  BY <1>1, <1>3, <1>5, KeepsDecided
<1> QED BY <1>2, <1>3, <1>4, <1>6 DEF Within

(* xm_start_cert.                                                          *)
CertStarted(c, crt) ==
  [c EXCEPT !.pc = "cert", !.open = TRUE, !.at = 0, !.cert = crt,
            !.fed = Append(@, [cert |-> crt, got |-> 0])]
IsOpen(c) == c.open = TRUE
WithCert(c, crt) == Append(c.fed, [cert |-> crt, got |-> 0])

(* The fields of a context whose next certificate has been started.        *)
LEMMA StartCertFields ==
  ASSUME NEW c, IsRecord(c), NEW crt, NEW d, d = CertStarted(c, crt)
  PROVE  /\ Only(c, d, {"pc", "open", "at", "cert", "fed"})
         /\ d.pc = "cert" /\ IsOpen(d) /\ d.at = 0 /\ d.cert = crt
         /\ d.fed = WithCert(c, crt)
<1> DEFINE new == WithCert(c, crt)
           e1 == [c EXCEPT !.pc = "cert"]
           e2 == [e1 EXCEPT !.open = TRUE]
           e3 == [e2 EXCEPT !.at = 0]
           e4 == [e3 EXCEPT !.cert = crt]
           e5 == [e4 EXCEPT !.fed = new]
<1>1. d = e5
  BY DEF CertStarted, WithCert, IsRecord, Fields
<1>2. /\ "pc" \in Fields /\ "open" \in Fields /\ "at" \in Fields /\ "cert" \in Fields /\ "fed" \in Fields
  BY DEF Fields
<1> HIDE DEF new
<1>3. Only(c, e1, {"pc"}) /\ e1.pc = "cert" /\ IsRecord(e1)
  BY <1>2, Update DEF Only
<1> HIDE DEF e1
<1>4. Only(e1, e2, {"open"}) /\ e2.open = TRUE /\ IsRecord(e2)
  BY <1>2, <1>3, Update DEF Only
<1> HIDE DEF e2
<1>5. Only(e2, e3, {"at"}) /\ e3.at = 0 /\ IsRecord(e3)
  BY <1>2, <1>4, Update DEF Only
<1> HIDE DEF e3
<1>6. Only(e3, e4, {"cert"}) /\ e4.cert = crt /\ IsRecord(e4)
  BY <1>2, <1>5, Update DEF Only
<1> HIDE DEF e4
<1>7. Only(e4, e5, {"fed"}) /\ e5.fed = new /\ IsRecord(e5)
  BY <1>2, <1>6, Update DEF Only
<1> HIDE DEF e5
<1>8. e3.pc = "cert" /\ e3.open = TRUE
  BY <1>3, <1>4, <1>5, OnlySame
<1>9. e4.pc = "cert" /\ e4.open = TRUE /\ e4.at = 0
  BY <1>5, <1>6, <1>8, OnlySame
<1>10. e5.pc = "cert" /\ e5.open = TRUE /\ e5.at = 0 /\ e5.cert = crt
  BY <1>6, <1>7, <1>9, OnlySame
<1>11. Only(c, e5, {"pc", "open", "at", "cert", "fed"})
  BY <1>3, <1>4, <1>5, <1>6, <1>7 DEF Only
<1> QED BY <1>1, <1>7, <1>10, <1>11 DEF new, IsOpen

(* A new certificate, of which nothing is read yet.                        *)
LEMMA StartCertKeeps ==
  ASSUME NEW c, IsContext(c), Between(c), c.err = "none", c.num < MaxCerts,
         NEW crt \in Offered[c.num + 1],
         NEW d, d = CertStarted(c, crt)
  PROVE  IsContext(d) /\ d.pc = "cert" /\ Within(d)
<1>1. IsRecord(c) /\ c.num \in Nat /\ IsName(c.server)
  BY NoChainFields DEF IsContext, IsRecord
<1> DEFINE new == [cert |-> crt, got |-> 0]
<1>2. /\ Only(c, d, {"pc", "open", "at", "cert", "fed"})
      /\ d.pc = "cert" /\ IsOpen(d) /\ d.at = 0 /\ d.cert = crt /\ d.fed = Append(c.fed, new)
  <2>0. PICK x : x = crt
    OBVIOUS
  <2>1. /\ Only(c, d, {"pc", "open", "at", "cert", "fed"})
        /\ d.pc = "cert" /\ IsOpen(d) /\ d.at = 0 /\ d.cert = x /\ d.fed = WithCert(c, x)
    <3>1. d = CertStarted(c, x) /\ IsRecord(c)
      BY <1>1, <2>0
    <3> QED BY <3>1, StartCertFields
  <2> QED BY <2>0, <2>1 DEF WithCert
<1>3. /\ IsRecord(d) /\ d.anchors = c.anchors /\ d.verifiers = c.verifiers /\ d.server = c.server
      /\ d.err = "none" /\ d.num = c.num /\ d.saved = c.saved /\ d.pkey = c.pkey /\ d.usages = c.usages
      /\ d.signer = c.signer /\ d.sig = c.sig
  BY <1>2, OnlySame
<1>4. AllGood(c)
  BY ErrFacts DEF Between
<1>5. crt \in Certificates
  <2>1. c.num + 1 \in 1 .. MaxCerts
    BY <1>1, ChainAssumption
  <2> QED BY <2>1 DEF Certificates
<1> DEFINE S == [cert : Certificates, got : 0 .. Stages]
           N == Len(c.fed)
<1>6. c.fed \in Seq(S) /\ N \in Nat /\ c.num = N
  BY <1>4 DEF IsContext, AllGood
<1>7. new \in S
  BY <1>5 DEF Stages
<1> HIDE DEF S, new
<1>8. /\ d.fed \in Seq(S) /\ Len(d.fed) = N + 1 /\ d.fed[N + 1] = new
      /\ \A i \in 1 .. N : d.fed[i] = c.fed[i]
  BY <1>2, <1>6, <1>7, AppendProperties
<1>9. new.cert = crt /\ new.got = 0
  BY DEF new
<1>10. IsContext(d)
  <2>1. d = [f \in DOMAIN NoChain |-> d[f]]
    BY <1>3, NoChainFields DEF IsRecord
  <2>2. ASSUME NEW i \in 1 .. Len(d.fed) - 1 PROVE d.fed[i].got = Stages
    <3>1. i \in 1 .. N
      BY <1>6, <1>8
    <3>2. c.fed[i].got = Stages
      BY <1>4, <3>1 DEF AllGood
    <3> QED BY <1>8, <3>1, <3>2
  <2> QED BY <1>1, <1>3, <1>8, <2>1, <2>2 DEF IsContext, S
<1>11. Agree(c, d, N)
  BY <1>3, <1>8 DEF Agree
<1>12. PassedTo(d, N, Stages)
  BY <1>4, <1>6, <1>11, PassedToSame DEF AllGood
<1>13. PassedTo(d, Len(d.fed), d.at)
  <2> SUFFICES ASSUME NEW i \in 1 .. N + 1, NEW t \in 1 .. 8, i < N + 1 \/ t <= 0 PROVE Passed(d, i, t)
    BY <1>2, <1>8 DEF PassedTo, Stages
  <2>1. i \in 1 .. N
    BY <1>6
  <2> QED BY <1>6, <1>12, <2>1 DEF PassedTo, Stages
<1>14. OfCurrent(d, crt) /\ OfFirst(d, crt) /\ OfIssuer(d, crt)
  BY <1>2 DEF OfCurrent, OfFirst, OfIssuer
<1>15. c.num > 0 => OfLeaf(d) /\ OfPrevious(d, d.fed[c.num].cert)
  <2> SUFFICES ASSUME c.num > 0 PROVE OfLeaf(d) /\ OfPrevious(d, d.fed[c.num].cert)
    OBVIOUS
  <2>1. 1 \in 1 .. N /\ N \in 1 .. N
    BY <1>6
  <2>2. d.fed[1] = c.fed[1] /\ d.fed[c.num] = c.fed[c.num]
    BY <1>6, <1>8, <2>1
  <2>3. /\ c.saved = c.fed[c.num].cert.issuer /\ c.signer = c.fed[c.num].cert.alg
        /\ c.sig = c.fed[c.num].cert.by /\ OfLeaf(c)
    BY <1>4 DEF AllGood
  <2> QED BY <1>3, <2>2, <2>3 DEF OfLeaf, OfPrevious
<1>16. Going(d)
  <2>1. d.num + 1 = Len(d.fed) /\ d.cert = d.fed[Len(d.fed)].cert
    BY <1>2, <1>3, <1>6, <1>8, <1>9
  <2>2. d.at \in 0 .. Stages /\ d.open = (d.at < Stages)
    <3>1. (0 < Stages) = TRUE /\ 0 \in 0 .. Stages
      BY DEF Stages
    <3> QED BY <1>2, <3>1, Zenon DEF IsOpen
  <2>3. d.num # 0 => d.num > 0
    BY <1>1, <1>3
  <2> QED BY <1>2, <1>3, <1>13, <1>14, <1>15, <2>1, <2>2, <2>3 DEF Going
<1>17. d.fed[Len(d.fed)].got = d.at /\ ~(d.at > 0)
  BY <1>2, <1>8, <1>9
<1> QED BY <1>2, <1>10, <1>16, <1>17 DEF Within

(* xm_append.                                                              *)
Fed(c, n, to, u) == [c EXCEPT !.fed[n].got = to, !.usages = u]
WithGot(c, n, to) == [c.fed EXCEPT ![n].got = to]

(* The fields of a context that has been given more bytes.                 *)
LEMMA AppendFields ==
  ASSUME NEW c, IsRecord(c), NEW to, NEW n, NEW u, NEW d, d = Fed(c, n, to, u)
  PROVE  Only(c, d, {"fed", "usages"}) /\ d.fed = WithGot(c, n, to) /\ d.usages = u
<1> DEFINE new == WithGot(c, n, to)
           e1 == [c EXCEPT !.fed = new]
           e2 == [e1 EXCEPT !.usages = u]
<1>1. d = e2
  BY DEF Fed, WithGot, IsRecord, Fields
<1>2. "fed" \in Fields /\ "usages" \in Fields
  BY DEF Fields
<1> HIDE DEF new
<1>3. Only(c, e1, {"fed"}) /\ e1.fed = new /\ IsRecord(e1)
  BY <1>2, Update DEF Only
<1> HIDE DEF e1
<1>4. Only(e1, e2, {"usages"}) /\ e2.usages = u /\ IsRecord(e2)
  BY <1>2, <1>3, Update DEF Only
<1> HIDE DEF e2
<1>5. Only(c, e2, {"fed", "usages"}) /\ e2.fed = new
  BY <1>3, <1>4, OnlySame DEF Only
<1> QED BY <1>1, <1>4, <1>5 DEF new

(* More bytes: the stages that they complete, or the one that decides.     *)
LEMMA AppendBytesKeeps ==
  ASSUME NEW c, IsContext(c), Within(c), c.err = "none", c.at < Stages, NEW k \in CertPieces,
         NEW to, to = IF c.at + k < Stages THEN c.at + k ELSE Stages,
         NEW u, u = IF c.num + c.at = 0 THEN AllUsages ELSE c.usages,
         NEW e, e = Fed(c, Len(c.fed), to, u),
         NEW d, d = AfterStages(e, to - c.at), c.pc = "cert"
  PROVE  IsContext(d) /\ d.pc = "cert" /\ Within(d)
<1>1. IsRecord(c) /\ c.num \in Nat /\ IsName(c.server)
  BY NoChainFields DEF IsContext, IsRecord
<1>2. Going(c) /\ (c.at > 0 => Begun(c)) /\ c.fed[Len(c.fed)].got = c.at
  BY ErrFacts DEF Within
<1> DEFINE S == [cert : Certificates, got : 0 .. Stages]
           N == Len(c.fed)
<1>3. c.fed \in Seq(S) /\ N \in Nat /\ c.num + 1 = N /\ c.at \in 0 .. 8 /\ N \in 1 .. N /\ Stages = 8
  <2>1. c.fed \in Seq(S) /\ c.num + 1 = N /\ c.at \in 0 .. 8
    BY <1>2 DEF IsContext, Going, Stages
  <2>2. N \in 1 .. N
    BY <1>1, <2>1
  <2> QED BY <2>1, <2>2 DEF Stages
<1>4. to \in 0 .. 8 /\ to - c.at \in Nat /\ c.at + (to - c.at) = to /\ k \in Nat
  <2>1. PICK a \in 0 .. 8 : a = c.at
    BY <1>3
  <2>2. k \in Nat
    BY ChainAssumption
  <2>3. to = IF a + k < 8 THEN a + k ELSE 8
    BY <1>3, <2>1
  <2>4. to \in 0 .. 8 /\ to - a \in Nat /\ a + (to - a) = to
    BY <2>2, <2>3
  <2> QED BY <2>1, <2>2, <2>4
<1>5. Only(c, e, {"fed", "usages"}) /\ e.fed = [c.fed EXCEPT ![N].got = to] /\ e.usages = u
  <2>1. PICK n : n = N
    OBVIOUS
  <2>2. e = Fed(c, n, to, u)
    BY <2>1
  <2>3. Only(c, e, {"fed", "usages"}) /\ e.fed = WithGot(c, n, to) /\ e.usages = u
    BY <1>1, <2>2, AppendFields
  <2> QED BY <2>1, <2>3 DEF WithGot
<1>6. /\ IsRecord(e) /\ e.pc = "cert" /\ e.anchors = c.anchors /\ e.verifiers = c.verifiers
      /\ e.server = c.server /\ e.err = c.err /\ e.num = c.num /\ e.open = c.open /\ e.at = c.at
      /\ e.cert = c.cert /\ e.next = c.next /\ e.current = c.current /\ e.saved = c.saved
      /\ e.pkey = c.pkey /\ e.named = c.named /\ e.seenBC = c.seenBC /\ e.signer = c.signer
      /\ e.sig = c.sig
  BY <1>5, OnlySame
<1>7. /\ e.fed \in Seq(S) /\ Len(e.fed) = N /\ e.fed[N].got = to
      /\ \A i \in 1 .. N : e.fed[i].cert = c.fed[i].cert
      /\ \A i \in 1 .. N : i # N => e.fed[i] = c.fed[i]
  <2> DEFINE old == c.fed[N]
             new == [old EXCEPT !.got = to]
  <2>1. old \in S
    BY <1>3, ElementOfSeq
  <2>2. new \in S /\ new.got = to /\ new.cert = old.cert
    BY <1>3, <1>4, <2>1
  <2>3. e.fed = [c.fed EXCEPT ![N] = new]
    BY <1>5
  <2> HIDE DEF new, S
  <2>4. /\ e.fed \in Seq(S) /\ Len(e.fed) = N /\ e.fed[N] = new
        /\ \A i \in 1 .. N : i # N => e.fed[i] = c.fed[i]
    <3> HIDE DEF old
    <3>1. PICK f : f = c.fed
      OBVIOUS
    <3>2. PICK g : g = e.fed
      OBVIOUS
    <3>3. PICK n : n = N
      OBVIOUS
    <3>4. f \in Seq(S) /\ n = Len(f) /\ n \in 1 .. n /\ g = [f EXCEPT ![n] = new] /\ new \in S
      BY <1>3, <2>2, <2>3, <3>1, <3>2, <3>3
    <3>5. /\ g \in Seq(S) /\ Len(g) = n /\ g[n] = new
          /\ \A i \in 1 .. n : i # n => g[i] = f[i]
      BY <3>4, ExceptSeq
    <3> QED BY <3>1, <3>2, <3>3, <3>5
  <2> QED BY <2>2, <2>4
<1> HIDE DEF S
<1>8. IsContext(e)
  <2>1. e = [f \in DOMAIN NoChain |-> e[f]]
    BY <1>6, NoChainFields DEF IsRecord
  <2>2. ASSUME NEW i \in 1 .. Len(e.fed) - 1 PROVE e.fed[i].got = Stages
    <3>1. i \in 1 .. N /\ i # N /\ i \in 1 .. N - 1
      BY <1>3, <1>7
    <3>2. c.fed[i].got = Stages
      BY <3>1 DEF IsContext
    <3> QED BY <1>7, <3>1, <3>2
  <2> QED BY <1>1, <1>6, <1>7, <2>1, <2>2 DEF IsContext, S
<1>9. Begun(e)
  <2> SUFFICES ASSUME c.num = 0, c.at < 5 PROVE u = AllUsages
    BY <1>5, <1>6 DEF Begun
  <2>1. CASE c.at = 0
    BY <2>1
  <2>2. CASE c.at # 0
    <3>1. c.at > 0 /\ c.num + c.at # 0
      BY <1>3, <2>2
    <3>2. Begun(c) /\ u = c.usages
      BY <1>2, <3>1
    <3> QED BY <3>2 DEF Begun
  <2> QED BY <2>1, <2>2
<1>10. c.num > 0 \/ c.at >= 5 => e.usages = c.usages
  <2>1. c.num > 0 \/ c.at >= 5 => c.num + c.at # 0
    BY <1>1, <1>3
  <2> QED BY <1>5, <2>1
<1>11. Going(e)
  <2>1. Agree(c, e, N)
    BY <1>6, <1>7 DEF Agree
  <2>2. PassedTo(e, Len(e.fed), e.at)
    BY <1>2, <1>3, <1>6, <1>7, <2>1, PassedToSame DEF Going
  <2>3. OfCurrent(e, e.cert)
    BY <1>2, <1>6 DEF Going, OfCurrent
  <2>4. ASSUME c.num = 0 PROVE OfFirst(e, e.cert)
    <3>1. OfFirst(c, c.cert)
      BY <1>2, <2>4 DEF Going
    <3>2. \A names : Named(e, names) = Named(c, names)
      BY <1>6 DEF Named
    <3> QED BY <1>6, <1>10, <3>1, <3>2 DEF OfFirst
  <2>5. ASSUME c.num # 0 PROVE OfIssuer(e, e.cert) /\ OfLeaf(e) /\ OfPrevious(e, e.fed[e.num].cert)
    <3>1. OfIssuer(c, c.cert) /\ OfLeaf(c) /\ OfPrevious(c, c.fed[c.num].cert)
      BY <1>2, <2>5 DEF Going
    <3>2. 1 \in 1 .. N /\ c.num \in 1 .. N /\ c.num > 0
      BY <1>1, <1>3, <2>5
    <3>3. e.fed[1].cert = c.fed[1].cert /\ e.fed[e.num].cert = c.fed[c.num].cert
      BY <1>6, <1>7, <3>2
    <3>4. OfIssuer(e, e.cert)
      BY <1>6, <3>1 DEF OfIssuer
    <3>5. OfLeaf(e)
      BY <1>6, <1>10, <3>1, <3>2, <3>3 DEF OfLeaf
    <3>6. OfPrevious(e, e.fed[e.num].cert)
      BY <1>6, <3>1, <3>3 DEF OfPrevious
    <3> QED BY <3>4, <3>5, <3>6
  <2>6. e.cert = e.fed[Len(e.fed)].cert /\ e.open = (e.at < Stages)
    BY <1>2, <1>3, <1>6, <1>7 DEF Going
  <2>7. e.err = "none" /\ e.num + 1 = Len(e.fed) /\ e.at \in 0 .. Stages
    BY <1>2, <1>3, <1>6, <1>7 DEF Going
  <2>8. IF e.num = 0 THEN OfFirst(e, e.cert)
        ELSE OfIssuer(e, e.cert) /\ OfLeaf(e) /\ OfPrevious(e, e.fed[e.num].cert)
    BY <1>6, <2>4, <2>5
  <2> QED BY <2>2, <2>3, <2>6, <2>7, <2>8 DEF Going
<1>12. e.at + (to - c.at) = to /\ to <= Stages /\ e.fed[Len(e.fed)].got = to
  <2>1. to <= Stages
    BY <1>3, <1>4
  <2> QED BY <1>4, <1>6, <1>7, <2>1
<1> DEFINE m == to - c.at
<1>13. m \in Nat /\ e.at + m <= Stages /\ e.at + m <= e.fed[Len(e.fed)].got /\ e.at + m = to
  <2>1. to <= to
    BY <1>4
  <2> QED BY <1>4, <1>12, <2>1
<1>14. d = AfterStages(e, m)
  OBVIOUS
<1> HIDE DEF m
<1>15. /\ IsContext(d) /\ Only(e, d, StageFields)
       /\ \/ Going(d) /\ Begun(d) /\ d.at = e.at + m
          \/ Decided(d)
  BY <1>8, <1>9, <1>11, <1>13, <1>14, StagesFacts
<1>16. d.pc = "cert" /\ d.fed = e.fed
  BY <1>6, <1>15, OnlySame DEF StageFields
<1> QED BY <1>12, <1>13, <1>15, <1>16 DEF Within

(* xm_end_cert.                                                            *)
CertEnded(c) ==
  [c EXCEPT !.pc = "chain", !.num = @ + 1, !.err = IF @ = "none" /\ c.open THEN "TRUNCATED" ELSE @]

(* The fields of a context whose certificate has ended.                    *)
LEMMA EndCertFields ==
  ASSUME NEW c, IsRecord(c), NEW d, d = CertEnded(c)
  PROVE  /\ Only(c, d, {"pc", "num", "err"})
         /\ d.pc = "chain" /\ d.num = c.num + 1
         /\ d.err = IF c.err = "none" /\ c.open THEN "TRUNCATED" ELSE c.err
<1> DEFINE n == c.num + 1
           o == IF c.err = "none" /\ c.open THEN "TRUNCATED" ELSE c.err
           e1 == [c EXCEPT !.pc = "chain"]
           e2 == [e1 EXCEPT !.num = n]
           e3 == [e2 EXCEPT !.err = o]
<1>1. d = e3
  BY DEF CertEnded, IsRecord, Fields
<1>2. "pc" \in Fields /\ "num" \in Fields /\ "err" \in Fields
  BY DEF Fields
<1> HIDE DEF n, o
<1>3. Only(c, e1, {"pc"}) /\ e1.pc = "chain" /\ IsRecord(e1)
  BY <1>2, Update DEF Only
<1> HIDE DEF e1
<1>4. Only(e1, e2, {"num"}) /\ e2.num = n /\ IsRecord(e2)
  BY <1>2, <1>3, Update DEF Only
<1> HIDE DEF e2
<1>5. Only(e2, e3, {"err"}) /\ e3.err = o /\ IsRecord(e3)
  BY <1>2, <1>4, Update DEF Only
<1> HIDE DEF e3
<1>6. Only(c, e3, {"pc", "num", "err"})
  BY <1>3, <1>4, <1>5 DEF Only
<1>7. e3.pc = "chain" /\ e3.num = n
  BY <1>3, <1>4, <1>5, OnlySame
<1> QED BY <1>1, <1>5, <1>6, <1>7 DEF n, o

(* A certificate that was read to its end is good, another one is cut short. *)
LEMMA EndCertKeeps ==
  ASSUME NEW c, IsContext(c), Within(c), NEW d, d = CertEnded(c)
  PROVE  IsContext(d) /\ d.pc = "chain" /\ Between(d)
<1>1. IsRecord(c) /\ c.num \in Nat
  BY NoChainFields DEF IsContext, IsRecord
<1>2. /\ Only(c, d, {"pc", "num", "err"}) /\ d.pc = "chain" /\ d.num = c.num + 1
      /\ d.err = IF c.err = "none" /\ c.open THEN "TRUNCATED" ELSE c.err
  BY <1>1, EndCertFields
<1>3. IsContext(d)
  <2>1. Only(c, d, HeldFields) /\ d.num \in Nat
    BY <1>1, <1>2 DEF Only, HeldFields
  <2> QED BY <2>1, HeldFacts
<1>4. /\ d.fed = c.fed /\ d.server = c.server /\ d.verifiers = c.verifiers /\ d.anchors = c.anchors
      /\ d.pkey = c.pkey /\ d.usages = c.usages /\ d.saved = c.saved /\ d.signer = c.signer /\ d.sig = c.sig
  BY <1>2, OnlySame
<1>5. CASE Decided(c) \/ Cut(c, c.num + 1)
  <2>1. d.err = c.err
    BY <1>2, <1>5, ErrFacts
  <2>2. SameChain(c, d)
    BY <1>4, <2>1 DEF SameChain
  <2>3. c.num + 1 \in Nat /\ d.num \in Nat /\ c.num + 1 <= d.num
    BY <1>1, <1>2
  <2>4. Decided(d) \/ Cut(d, d.num)
    BY <1>5, <2>2, <2>3, KeepsDecided
  <2> QED BY <1>2, <1>3, <2>4 DEF Between
<1>6. CASE Going(c) /\ c.fed[Len(c.fed)].got = c.at
  <2>1. Len(c.fed) \in Nat /\ c.num + 1 = Len(c.fed) /\ c.err = "none" /\ c.at \in 0 .. Stages /\ Stages = 8
    BY <1>6, FedFacts DEF Going, Stages
  <2>2. Agree(c, d, Len(c.fed))
    BY <1>4 DEF Agree
  <2>3. PassedTo(d, Len(d.fed), c.at)
    BY <1>4, <1>6, <2>1, <2>2, PassedToSame DEF Going
  <2>4. c.open = (c.at < Stages)
    BY <1>6 DEF Going
  <2>5. c.fed # <<>>
    BY <1>1, <2>1
  <2>6. CASE c.at < Stages
    <3>1. d.err = "TRUNCATED"
      BY <1>2, <2>1, <2>4, <2>6
    <3>2. d.fed # <<>> /\ d.fed[Len(d.fed)].got = c.at
      BY <1>4, <1>6, <2>5
    <3>3. Cut(d, d.num)
      BY <2>3, <2>6, <3>1, <3>2 DEF Cut
    <3> QED BY <1>2, <1>3, <3>3 DEF Between
  <2>7. CASE ~(c.at < Stages)
    <3>1. c.at = Stages
      BY <2>1, <2>7
    <3>2. d.err = "none"
      BY <1>2, <2>1, <2>4, <2>7
    <3>3. ASSUME NEW i \in 1 .. Len(d.fed) PROVE d.fed[i].got = Stages
      <4>1. i = Len(c.fed) \/ i \in 1 .. Len(c.fed) - 1
        BY <1>4, <2>1
      <4> QED BY <1>4, <1>6, <3>1, <4>1 DEF IsContext
    <3>4. d.num = Len(d.fed) /\ PassedTo(d, Len(d.fed), Stages)
      BY <1>2, <1>4, <2>1, <2>3, <3>1
    <3>5. LET last == d.fed[d.num].cert
          IN  d.saved = last.issuer /\ d.signer = last.alg /\ d.sig = last.by
      <4>1. c.cert = c.fed[Len(c.fed)].cert /\ OfCurrent(c, c.cert) /\ c.at >= 3 /\ c.at >= 7 /\ c.at >= 8
        BY <1>6, <2>1, <3>1 DEF Going
      <4>2. c.saved = c.cert.issuer /\ c.signer = c.cert.alg /\ c.sig = c.cert.by
        BY <4>1 DEF OfCurrent
      <4>3. d.fed[d.num].cert = c.cert
        BY <1>4, <3>4, <4>1
      <4> QED BY <1>4, <4>2, <4>3
    <3>6. OfLeaf(d)
      <4>1. CASE c.num = 0
        <5>1. OfFirst(c, c.cert) /\ c.cert = c.fed[1].cert /\ c.at >= 4 /\ c.at >= 5
          <6>1. Len(c.fed) = 1
            BY <2>1, <4>1
          <6> QED BY <1>6, <2>1, <3>1, <4>1, <6>1 DEF Going
        <5> QED BY <1>4, <5>1 DEF OfFirst, OfLeaf
      <4>2. CASE c.num # 0
        <5>1. OfLeaf(c)
          BY <1>6, <4>2 DEF Going
        <5> QED BY <1>4, <5>1 DEF OfLeaf
      <4> QED BY <4>1, <4>2
    <3>7. AllGood(d)
      BY <3>3, <3>4, <3>5, <3>6 DEF AllGood
    <3> QED BY <1>2, <1>3, <3>2, <3>7 DEF Between
  <2> QED BY <2>6, <2>7
<1> QED BY <1>5, <1>6 DEF Within

(* xm_end_chain.                                                           *)
ChainEnded(c) ==
  [c EXCEPT !.pc = "ended",
            !.err = IF @ # "none" THEN @ ELSE IF c.num = 0 THEN "EMPTY_CHAIN" ELSE "NOT_TRUSTED"]

(* The fields of a context whose chain has ended.                          *)
LEMMA EndChainFields ==
  ASSUME NEW c, IsRecord(c), NEW d, d = ChainEnded(c)
  PROVE  /\ Only(c, d, {"pc", "err"}) /\ d.pc = "ended"
         /\ d.err = IF c.err # "none" THEN c.err ELSE IF c.num = 0 THEN "EMPTY_CHAIN" ELSE "NOT_TRUSTED"
<1> DEFINE o == IF c.err # "none" THEN c.err ELSE IF c.num = 0 THEN "EMPTY_CHAIN" ELSE "NOT_TRUSTED"
           e1 == [c EXCEPT !.pc = "ended"]
           e2 == [e1 EXCEPT !.err = o]
<1>1. d = e2
  BY DEF ChainEnded, IsRecord, Fields
<1>2. "pc" \in Fields /\ "err" \in Fields
  BY DEF Fields
<1> HIDE DEF o
<1>3. Only(c, e1, {"pc"}) /\ e1.pc = "ended" /\ IsRecord(e1)
  BY <1>2, Update DEF Only
<1> HIDE DEF e1
<1>4. Only(e1, e2, {"err"}) /\ e2.err = o /\ IsRecord(e2)
  BY <1>2, <1>3, Update DEF Only
<1> HIDE DEF e2
<1>5. Only(c, e2, {"pc", "err"}) /\ e2.pc = "ended"
  BY <1>3, <1>4, OnlySame DEF Only
<1> QED BY <1>1, <1>4, <1>5 DEF o

(* A chain that ends undecided has no anchor, or no certificate.           *)
LEMMA EndChainKeeps ==
  ASSUME NEW c, IsContext(c), Between(c), NEW d, d = ChainEnded(c)
  PROVE  IsContext(d) /\ d.pc = "ended" /\ Over(d)
<1>1. IsRecord(c) /\ c.num \in Nat
  BY NoChainFields DEF IsContext, IsRecord
<1>2. /\ Only(c, d, {"pc", "err"}) /\ d.pc = "ended"
      /\ d.err = IF c.err # "none" THEN c.err ELSE IF c.num = 0 THEN "EMPTY_CHAIN" ELSE "NOT_TRUSTED"
  BY <1>1, EndChainFields
<1>3. /\ d.fed = c.fed /\ d.server = c.server /\ d.verifiers = c.verifiers /\ d.anchors = c.anchors /\ d.num = c.num
      /\ d.pkey = c.pkey /\ d.usages = c.usages /\ d.saved = c.saved /\ d.signer = c.signer /\ d.sig = c.sig
  BY <1>2, OnlySame
<1>4. IsContext(d)
  <2>1. Only(c, d, HeldFields) /\ d.num \in Nat
    BY <1>1, <1>2, <1>3 DEF Only, HeldFields
  <2> QED BY <2>1, HeldFacts
<1>5. CASE Decided(c) \/ Cut(c, c.num)
  <2>1. SameChain(c, d)
    BY <1>2, <1>3, <1>5, ErrFacts DEF SameChain
  <2>2. d.num \in Nat /\ c.num <= d.num
    BY <1>1, <1>3
  <2>3. Decided(d) \/ Cut(d, d.num)
    BY <1>1, <1>5, <2>1, <2>2, KeepsDecided
  <2> QED BY <1>2, <1>4, <2>3 DEF Over
<1>6. CASE c.err = "none" /\ AllGood(c)
  <2>1. CASE c.num = 0
    <3>1. Len(c.fed) = 0
      BY <1>6, <2>1 DEF AllGood
    <3>2. d.fed = <<>> /\ d.err = "EMPTY_CHAIN" /\ d.num = 0
      BY <1>2, <1>3, <1>6, <2>1, <3>1, FedFacts
    <3> QED BY <1>2, <1>4, <3>2 DEF Over
  <2>2. CASE c.num # 0
    <3>1. d.err = "NOT_TRUSTED" /\ d.num > 0
      BY <1>1, <1>2, <1>3, <1>6, <2>2
    <3>2. AllGood(d)
      <4>1. Agree(c, d, Len(c.fed))
        BY <1>3 DEF Agree
      <4>2. PassedTo(d, Len(d.fed), Stages)
        BY <1>3, <1>6, <4>1, FedFacts, PassedToSame DEF AllGood
      <4> QED BY <1>3, <1>6, <4>2 DEF AllGood, OfLeaf
    <3> QED BY <1>2, <1>4, <3>1, <3>2 DEF Over
  <2> QED BY <2>1, <2>2
<1> QED BY <1>5, <1>6 DEF Between

-----------------------------------------------------------------------------
IInv == ChainInv(chain)

(* A context that is not set up is at none of the calls.                   *)
LEMMA NotStarted ==
  NoChain.pc = "none" /\ NoChain.err = "none"
BY DEF NoChain, FreshContext

(* What the guards of the actions say of a context that ChainInv allows.   *)
LEMMA PcFacts ==
  ASSUME NEW c, ChainInv(c)
  PROVE  /\ c.pc = "ready" => c \in Contexts
         /\ c.pc = "chain" => IsContext(c) /\ Between(c)
         /\ c.pc = "cert" => IsContext(c) /\ Within(c)
         /\ c.pc = "ended" => IsContext(c) /\ Over(c)
BY NotStarted DEF ChainInv

(* Every step keeps the invariant.                                         *)
LEMMA StepKeeps ==
  ASSUME ChainInv(chain), ChainNext
  PROVE  ChainInv(chain')
<1> DEFINE c == chain
           d == chain'
<1>1. CASE SetUpChain
  <2>1. d \in Contexts
    BY <1>1 DEF SetUpChain
  <2>2. d.pc = "ready"
    BY <2>1, ChainAssumption
  <2> QED BY <2>1, <2>2 DEF ChainInv
<1>2. ASSUME NEW n \in ServerNames, StartChain(n) PROVE ChainInv(d)
  <2>1. c \in Contexts
    BY <1>2, PcFacts DEF StartChain
  <2>2. d = [c EXCEPT !.pc = "chain", !.server = n, !.err = "none", !.num = 0, !.at = 0, !.pkey = NoKey]
    BY <1>2 DEF StartChain
  <2>3. IsContext(d) /\ d.pc = "chain" /\ Between(d)
    BY <2>1, <2>2, StartChainKeeps
  <2> QED BY <2>3 DEF ChainInv
<1>3. CASE StartEmptyCert
  <2>1. IsContext(c) /\ Between(c) /\ c.err = "none"
    BY <1>3, PcFacts DEF StartEmptyCert
  <2>2. d = [c EXCEPT !.pc = "cert", !.err = "TRUNCATED"]
    BY <1>3 DEF StartEmptyCert
  <2>3. IsContext(d) /\ d.pc = "cert" /\ Within(d)
    BY <2>1, <2>2, StartEmptyCertKeeps
  <2> QED BY <2>3 DEF ChainInv
<1>4. ASSUME chain.num < MaxCerts, NEW crt \in Offered[chain.num + 1], StartCert(crt) PROVE ChainInv(d)
  <2>1. IsContext(c) /\ Between(c) /\ c.err = "none"
    BY <1>4, PcFacts DEF StartCert
  <2>2. d = CertStarted(c, crt)
    BY <1>4 DEF StartCert, CertStarted
  <2>3. IsContext(d) /\ d.pc = "cert" /\ Within(d)
    BY <1>4, <2>1, <2>2, StartCertKeeps
  <2> QED BY <2>3 DEF ChainInv
<1>5. CASE StartIgnoredCert
  <2>1. IsContext(c) /\ Between(c) /\ c.err # "none"
    BY <1>5, PcFacts DEF StartIgnoredCert
  <2>2. d = [c EXCEPT !.pc = "cert"]
    BY <1>5 DEF StartIgnoredCert
  <2>3. IsContext(d) /\ d.pc = "cert" /\ Within(d)
    BY <2>1, <2>2, StartIgnoredCertKeeps
  <2> QED BY <2>3 DEF ChainInv
<1>6. ASSUME NEW k \in CertPieces, AppendBytes(k) PROVE ChainInv(d)
  <2>1. IsContext(c) /\ Within(c) /\ c.err = "none" /\ c.at < Stages /\ c.pc = "cert"
    BY <1>6, PcFacts DEF AppendBytes
  <2>2. PICK to : to = IF c.at + k < Stages THEN c.at + k ELSE Stages
    OBVIOUS
  <2>3. PICK u : u = IF c.num + c.at = 0 THEN AllUsages ELSE c.usages
    OBVIOUS
  <2>4. PICK e : e = Fed(c, Len(c.fed), to, u)
    OBVIOUS
  <2>5. IsRecord(c)
    BY <2>1, NoChainFields DEF IsContext, IsRecord
  <2>6. e = [c EXCEPT !.fed[Len(c.fed)].got = to, !.usages = IF c.num + c.at = 0 THEN AllUsages ELSE @]
    BY <2>3, <2>4, <2>5 DEF Fed, IsRecord, Fields
  <2>7. d = AfterStages(e, to - c.at)
    BY <1>6, <2>2, <2>6 DEF AppendBytes
  <2>8. IsContext(d) /\ d.pc = "cert" /\ Within(d)
    BY <2>1, <2>2, <2>3, <2>4, <2>7, AppendBytesKeeps
  <2> QED BY <2>8 DEF ChainInv
<1>7. CASE EndCert
  <2>1. IsContext(c) /\ Within(c)
    BY <1>7, PcFacts DEF EndCert
  <2>2. d = CertEnded(c)
    BY <1>7 DEF EndCert, CertEnded
  <2>3. IsContext(d) /\ d.pc = "chain" /\ Between(d)
    BY <2>1, <2>2, EndCertKeeps
  <2> QED BY <2>3 DEF ChainInv
<1>8. CASE EndChain
  <2>1. IsContext(c) /\ Between(c)
    BY <1>8, PcFacts DEF EndChain
  <2>2. d = ChainEnded(c)
    BY <1>8 DEF EndChain, ChainEnded
  <2>3. IsContext(d) /\ d.pc = "ended" /\ Over(d)
    BY <2>1, <2>2, EndChainKeeps
  <2> QED BY <2>3 DEF ChainInv
<1> QED BY <1>1, <1>2, <1>3, <1>4, <1>5, <1>6, <1>7, <1>8 DEF ChainNext

(* However the certificates are cut into pieces and whatever context they  *)
(* meet, at the end of a chain br_x509_minimal has judged it as its        *)
(* certificates deserve: it accepts exactly the chains that begin with a   *)
(* path of good certificates to an anchor or with an end entity that is    *)
(* one, and returns that end entity's key and usages (xm_end_chain).       *)
THEOREM ChainIsJudged == ChainSpec => []ChainAccepted
<1>1. ChainInit => IInv
  BY DEF IInv, ChainInit, ChainInv
<1>2. IInv /\ [ChainNext]_chain => IInv'
  <2>1. CASE ChainNext
    BY <2>1, StepKeeps DEF IInv
  <2>2. CASE UNCHANGED chain
    BY <2>2 DEF IInv
  <2> QED BY <2>1, <2>2
<1>3. IInv => ChainAccepted
  BY PcFacts, OverJudged DEF IInv, ChainAccepted
<1> QED BY <1>1, <1>2, <1>3, PTL DEF ChainSpec

-----------------------------------------------------------------------------
(* The records.                                                            *)

(* What a text, a tag, a record and an opened record may be.               *)
Body == [data : STRING \union {"damaged"}, keys : SUBSET Nat]
Tags == [header : Nat \X Nat \X Int, text : Body, mask : Int]
Records == [type : Nat, length : Int, body : Body, explicit : Nat, tag : Tags]
Opened == [type : Nat, text : Body, len : Int]
Links ==
  [phase : {"open", "failed"}, form : Forms, size : LinkSizes, outSeq : Nat, inSeq : Nat,
   wire : Seq(Records), sent : Seq(Texts), got : Seq(Opened), faults : Nat, from : Int, to : Int]

(* A tag is damaged, or that of a sealed record.                           *)
SealedAs(l, i) == AeadSeal(l.form, i - 1, l.sent[i])
FromSealed(l, r) == r.tag.mask = -1 \/ \E i \in 1 .. Len(l.sent) : r.tag = SealedAs(l, i).tag
TagsSealed == \A k \in 1 .. Len(link.wire) : FromSealed(link, link.wire[k])
(* Without a fault the wire holds what was sealed and not opened yet.      *)
Orderly ==
  link.faults = 0 =>
    /\ link.phase = "open"
    /\ link.inSeq + Len(link.wire) = Len(link.sent)
    /\ \A k \in 1 .. Len(link.wire) : link.wire[k] = SealedAs(link, link.inSeq + k)
Counted == link.outSeq = Len(link.sent) /\ (link.phase = "open" => link.inSeq = Len(link.got))
LinkInv ==
  \/ link = NoLink
  \/ link \in Links /\ Counted /\ TagsSealed /\ Orderly /\ OpenedInOrder

-----------------------------------------------------------------------------
(* The operators of the ciphers.                                           *)

(* The same key stream twice leaves the text (do_ctr).                     *)
LEMMA MaskTwice ==
  ASSUME NEW n \in Nat, NEW d
  PROVE  Masking(n, Masking(n, Plain(d))) = Plain(d)
BY DEF Masking, Plain

(* Masking a body with the key stream of a nonce leaves a body (do_ctr).   *)
LEMMA MaskTyped ==
  ASSUME NEW n \in Nat, NEW x \in Body
  PROVE  Masking(n, x) \in Body
BY DEF Masking, Body

(* Data under no key stream is a body.                                     *)
LEMMA PlainTyped == ASSUME NEW d \in STRING PROVE Plain(d) \in Body
BY DEF Plain, Body

(* What a record adds to its text is a number of bytes (the explicit nonce *)
(* and the tag).                                                           *)
LEMMA OverheadNat == \A f \in Forms : Overhead(f) \in Nat /\ NonceLen(f) \in Nat
BY AeadRecordAssumption DEF Overhead, NonceLen

(* What is sealed is a record whose tag is not a damaged one.              *)
LEMMA SealTyped ==
  ASSUME NEW f \in Forms, NEW n \in Nat, NEW t \in Texts
  PROVE  AeadSeal(f, n, t) \in Records /\ AeadSeal(f, n, t).tag.mask # -1
<1>1. t.type \in Nat /\ t.data \in STRING /\ t.len \in Nat
  BY AeadRecordAssumption
<1>2. Plain(t.data) \in Body /\ Masking(n, Plain(t.data)) \in Body
  BY <1>1, PlainTyped, MaskTyped
<1>3. Overhead(f) \in Nat
  BY OverheadNat
<1> DEFINE tag1 == Tag(n, t.type, t.len, Masking(n, Plain(t.data)), n)
           tag2 == Tag(n, t.type, t.len, Plain(t.data), n)
<1>4. tag1 \in Tags /\ tag2 \in Tags /\ tag1.mask # -1 /\ tag2.mask # -1
  BY <1>1, <1>2 DEF Tag, Tags
<1>5. f.mode \in {"gcm", "ccm", "chapol"}
  BY AeadRecordAssumption
<1> HIDE DEF tag1, tag2
<1>6. CASE f.mode = "gcm"
  BY <1>1, <1>2, <1>3, <1>4, <1>6 DEF AeadSeal, GcmEncrypt, Records, tag1
<1>7. CASE f.mode = "ccm"
  BY <1>1, <1>2, <1>3, <1>4, <1>7 DEF AeadSeal, CcmEncrypt, Records, tag2
<1>8. CASE f.mode = "chapol"
  BY <1>1, <1>2, <1>3, <1>4, <1>8 DEF AeadSeal, ChapolEncrypt, Records, tag1
<1> QED BY <1>5, <1>6, <1>7, <1>8

(* A record that was not touched opens under its number.                   *)
LEMMA SealOpens ==
  ASSUME NEW f \in Forms, NEW n \in Nat, NEW t \in Texts
  PROVE  /\ LinkLength(f, AeadSeal(f, n, t).length)
         /\ AeadOpen(f, n, AeadSeal(f, n, t)).good
<1>1. t.len \in 0 .. MaxText /\ Overhead(f) \in Nat /\ MaxText \in Nat
  BY AeadRecordAssumption, OverheadNat
<1>2. AeadSeal(f, n, t).length = t.len + Overhead(f) /\ AeadSeal(f, n, t).type = t.type
  BY DEF AeadSeal
<1>3. LinkLength(f, AeadSeal(f, n, t).length)
  BY <1>1, <1>2 DEF LinkLength
<1>4. AeadSeal(f, n, t).length - Overhead(f) = t.len
  BY <1>1, <1>2
<1>5. f.mode \in {"gcm", "ccm", "chapol"}
  BY AeadRecordAssumption
<1>6. CASE f.mode = "gcm"
  BY <1>2, <1>3, <1>4, <1>6 DEF AeadSeal, GcmEncrypt, AeadOpen, GcmDecrypt
<1>7. CASE f.mode = "ccm"
  BY <1>2, <1>3, <1>4, <1>7, MaskTwice DEF AeadSeal, CcmEncrypt, AeadOpen, CcmDecrypt
<1>8. CASE f.mode = "chapol"
  BY <1>2, <1>3, <1>4, <1>8 DEF AeadSeal, ChapolEncrypt, AeadOpen, ChapolDecrypt
<1> QED BY <1>3, <1>5, <1>6, <1>7, <1>8

(* A record that opens does so under a tag that is not damaged; with the   *)
(* tag of a sealed record it is under the number of that record, and opens *)
(* to its text.                                                            *)
LEMMA OpenSound ==
  ASSUME NEW f \in Forms, NEW n \in Nat, NEW r \in Records, AeadOpen(f, n, r).good
  PROVE  /\ r.tag.mask # -1
         /\ AeadOpen(f, n, r).text \in Body
         /\ \A m \in Nat, t \in Texts :
              r.tag = AeadSeal(f, m, t).tag =>
                /\ m = n /\ r.type = t.type /\ r.length - Overhead(f) = t.len
                /\ AeadOpen(f, n, r).text = Plain(t.data)
<1>1. r.explicit \in Nat /\ r.body \in Body
  BY DEF Records
<1>2. Masking(r.explicit, r.body) \in Body /\ Masking(n, r.body) \in Body
  BY <1>1, MaskTyped
<1>3. f.mode \in {"gcm", "ccm", "chapol"}
  BY AeadRecordAssumption
<1>4. CASE f.mode = "gcm"
  <2>1. r.tag = Tag(n, r.type, r.length - Overhead(f), r.body, r.explicit)
    BY <1>4 DEF AeadOpen, GcmDecrypt
  <2>2. AeadOpen(f, n, r).text = Masking(r.explicit, r.body)
    BY <1>4 DEF AeadOpen, GcmDecrypt
  <2>3. ASSUME NEW m \in Nat, NEW t \in Texts, r.tag = AeadSeal(f, m, t).tag
        PROVE  /\ m = n /\ r.type = t.type /\ r.length - Overhead(f) = t.len
               /\ Masking(r.explicit, r.body) = Plain(t.data)
    <3>1. r.tag = Tag(m, t.type, t.len, Masking(m, Plain(t.data)), m)
      BY <1>4, <2>3 DEF AeadSeal, GcmEncrypt
    <3>2. r.body = Masking(m, Plain(t.data)) /\ r.explicit = m
      BY <2>1, <3>1 DEF Tag
    <3>3. m = n /\ r.type = t.type /\ r.length - Overhead(f) = t.len
      BY <2>1, <3>1 DEF Tag
    <3> QED BY <3>2, <3>3, MaskTwice
  <2> QED BY <1>1, <1>2, <2>1, <2>2, <2>3 DEF Tag
<1>5. CASE f.mode = "ccm"
  <2>1. r.tag = Tag(n, r.type, r.length - Overhead(f), Masking(r.explicit, r.body), r.explicit)
    BY <1>5 DEF AeadOpen, CcmDecrypt
  <2>2. AeadOpen(f, n, r).text = Masking(r.explicit, r.body)
    BY <1>5 DEF AeadOpen, CcmDecrypt
  <2>3. ASSUME NEW m \in Nat, NEW t \in Texts, r.tag = AeadSeal(f, m, t).tag
        PROVE  /\ m = n /\ r.type = t.type /\ r.length - Overhead(f) = t.len
               /\ Masking(r.explicit, r.body) = Plain(t.data)
    <3>1. r.tag = Tag(m, t.type, t.len, Plain(t.data), m)
      BY <1>5, <2>3 DEF AeadSeal, CcmEncrypt
    <3> QED BY <2>1, <3>1 DEF Tag
  <2> QED BY <1>1, <1>2, <2>1, <2>2, <2>3 DEF Tag
<1>6. CASE f.mode = "chapol"
  <2>1. r.tag = Tag(n, r.type, r.length - Overhead(f), r.body, n)
    BY <1>6 DEF AeadOpen, ChapolDecrypt
  <2>2. AeadOpen(f, n, r).text = Masking(n, r.body)
    BY <1>6 DEF AeadOpen, ChapolDecrypt
  <2>3. ASSUME NEW m \in Nat, NEW t \in Texts, r.tag = AeadSeal(f, m, t).tag
        PROVE  /\ m = n /\ r.type = t.type /\ r.length - Overhead(f) = t.len
               /\ Masking(n, r.body) = Plain(t.data)
    <3>1. r.tag = Tag(m, t.type, t.len, Masking(m, Plain(t.data)), m)
      BY <1>6, <2>3 DEF AeadSeal, ChapolEncrypt
    <3>2. r.body = Masking(m, Plain(t.data)) /\ m = n
      BY <2>1, <3>1 DEF Tag
    <3>3. r.type = t.type /\ r.length - Overhead(f) = t.len
      BY <2>1, <3>1 DEF Tag
    <3> QED BY <3>2, <3>3, MaskTwice
  <2> QED BY <1>1, <1>2, <2>1, <2>2, <2>3 DEF Tag
<1> QED BY <1>3, <1>4, <1>5, <1>6

-----------------------------------------------------------------------------
(* The steps.                                                              *)

(* Fresh contexts at both ends: nothing was sealed (gen_gcm_init,          *)
(* gen_ccm_init, gen_chapol_init).                                         *)
LEMMA StartKeeps ==
  ASSUME NEW f \in Forms, NEW size \in LinkSizes, StartLink(f, size)
  PROVE  LinkInv'
<1>1. size \in Nat
  BY AeadRecordAssumption
<1>2. link' = [phase |-> "open", form |-> f, size |-> size, outSeq |-> 0, inSeq |-> 0,
               wire |-> <<>>, sent |-> <<>>, got |-> <<>>, faults |-> 0, from |-> 0, to |-> 0]
  BY DEF StartLink
<1>3. (link \in Links)'
  BY <1>2 DEF Links
<1>4. (Counted /\ TagsSealed /\ Orderly)'
  BY <1>2 DEF Counted, TagsSealed, Orderly
<1>5. OpenedInOrder'
  BY <1>1, <1>2 DEF OpenedInOrder
<1> QED BY <1>3, <1>4, <1>5 DEF LinkInv

(* A record that is sealed carries the next number, and is the last on the *)
(* wire (gcm_encrypt, ccm_encrypt, chapol_encrypt).                        *)
LEMMA SealKeeps ==
  ASSUME LinkInv, NEW t \in Texts, SealLink(t)
  PROVE  LinkInv'
<1> DEFINE f == link.form
           r == AeadSeal(f, link.outSeq, t)
           n == Len(link.sent)
<1>1. link \in Links /\ Counted /\ TagsSealed /\ Orderly /\ OpenedInOrder /\ link.phase # "none"
  BY DEF LinkInv, SealLink, NoLink
<1>2. /\ link.outSeq = n /\ n \in Nat /\ f \in Forms /\ link.size \in Nat
      /\ link.sent \in Seq(Texts) /\ link.wire \in Seq(Records) /\ link.got \in Seq(Opened)
  BY <1>1, AeadRecordAssumption DEF Links, Counted
<1>3. r \in Records /\ r.length = t.len + Overhead(f)
  BY <1>2, SealTyped DEF AeadSeal
<1>4. link' = [link EXCEPT !.outSeq = @ + 1, !.sent = Append(@, t), !.wire = Append(@, r),
                 !.from = LinkPlaintext(f, link.size).start - NonceLen(f) - 5,
                 !.to = LinkPlaintext(f, link.size).start - NonceLen(f) - 5 + 5 + r.length]
  BY DEF SealLink
<1>5. LinkPlaintext(f, link.size).start = 5 + NonceLen(f)
  BY DEF LinkPlaintext
<1>6. t.len \in Nat /\ Overhead(f) \in Nat /\ NonceLen(f) \in Nat /\ f.tag \in Nat
      /\ Overhead(f) = NonceLen(f) + f.tag
  BY <1>2, OverheadNat, AeadRecordAssumption DEF Overhead
<1>7. t.len <= link.size - (5 + NonceLen(f)) - f.tag
  <2> DEFINE room == link.size - (5 + NonceLen(f)) - f.tag
  <2>1. t.len <= LinkPlaintext(f, link.size).len
    BY DEF SealLink
  <2>2. LinkPlaintext(f, link.size).len = IF room > MaxText THEN MaxText ELSE room
    BY DEF LinkPlaintext
  <2>3. room \in Int /\ MaxText \in Nat /\ t.len \in Nat
    BY <1>2, <1>6, AeadRecordAssumption
  <2> HIDE DEF room
  <2>4. t.len <= room
    BY <2>1, <2>2, <2>3
  <2> QED BY <2>4 DEF room
<1>a. /\ LinkPlaintext(f, link.size).start - NonceLen(f) - 5 = 0
      /\ LinkPlaintext(f, link.size).start - NonceLen(f) - 5 + 5 + r.length = 5 + r.length
      /\ 5 + r.length \in Int /\ 5 + r.length <= link.size
  <2> DEFINE nl == NonceLen(f)  tag == f.tag  size == link.size  len == t.len  ov == Overhead(f)
  <2>1. nl \in Nat /\ tag \in Nat /\ size \in Nat /\ len \in Nat /\ ov = nl + tag
    BY <1>2, <1>6
  <2>2. LinkPlaintext(f, link.size).start = 5 + nl /\ r.length = len + ov /\ len <= size - (5 + nl) - tag
    BY <1>3, <1>5, <1>7
  <2> HIDE DEF nl, tag, size, len, ov, r
  <2>3. (5 + nl) - nl - 5 = 0 /\ (5 + nl) - nl - 5 + 5 + (len + ov) = 5 + (len + ov)
        /\ 5 + (len + ov) \in Int /\ 5 + (len + ov) <= size
    BY <2>1, <2>2
  <2>4. LinkPlaintext(f, link.size).start - nl - 5 = (5 + nl) - nl - 5
    BY <2>2
  <2>5. LinkPlaintext(f, link.size).start - nl - 5 + 5 + r.length = (5 + nl) - nl - 5 + 5 + (len + ov)
    BY <2>2, <2>4
  <2>6. 5 + r.length = 5 + (len + ov)
    BY <2>2
  <2> QED BY <2>3, <2>4, <2>5, <2>6, Zenon DEF nl, size
<1>d. (n + 1) - 1 = n /\ n = Len(link.sent) /\ link.form = f
  BY <1>2
<1> HIDE DEF r, f, n
<1>b. link' = [link EXCEPT !.outSeq = n + 1, !.sent = Append(link.sent, t),
                 !.wire = Append(link.wire, r), !.from = 0, !.to = 5 + r.length]
  BY <1>2, <1>4, <1>a
<1>c. Append(link.sent, t) \in Seq(Texts) /\ Append(link.wire, r) \in Seq(Records)
  BY <1>2, <1>3
<1>8. /\ link'.phase = link.phase /\ link'.form = f /\ link'.size = link.size
      /\ link'.outSeq = n + 1 /\ link'.inSeq = link.inSeq /\ link'.wire = Append(link.wire, r)
      /\ link'.sent = Append(link.sent, t) /\ link'.got = link.got /\ link'.faults = link.faults
      /\ link'.from = 0 /\ link'.to = 5 + r.length
  BY <1>1, <1>b, <1>d DEF Links
<1>9. (link \in Links)'
  <2>1. link \in Links /\ n + 1 \in Nat /\ 0 \in Int
    BY <1>1, <1>2
  <2> QED BY <2>1, <1>a, <1>b, <1>c DEF Links
<1>e. /\ Len(link'.sent) = n + 1 /\ link'.sent[n + 1] = t /\ \A i \in 1 .. n : link'.sent[i] = link.sent[i]
      /\ Len(link'.wire) = Len(link.wire) + 1 /\ link'.wire[Len(link.wire) + 1] = r
      /\ \A k \in 1 .. Len(link.wire) : link'.wire[k] = link.wire[k]
  BY <1>2, <1>3, <1>8, <1>d
<1>10. \A i \in 1 .. n : SealedAs(link', i) = SealedAs(link, i)
  BY <1>8, <1>d, <1>e DEF SealedAs
<1>11. SealedAs(link', n + 1) = r
  <2>1. SealedAs(link', n + 1) = AeadSeal(f, (n + 1) - 1, t)
    <3>1. link'.form = f /\ link'.sent[n + 1] = t
      BY <1>8, <1>e
    <3> QED BY <3>1 DEF SealedAs
  <2>2. r = AeadSeal(f, n, t)
    BY <1>2, <1>d DEF r
  <2> QED BY <1>d, <2>1, <2>2
<1>12. Counted'
  <2>1. Len(link'.sent) = n + 1 /\ (link.phase = "open" => link.inSeq = Len(link.got))
    BY <1>1, <1>e DEF Counted
  <2> QED BY <1>8, <2>1 DEF Counted
<1>13. TagsSealed'
  <2> SUFFICES ASSUME NEW k \in 1 .. Len(link.wire) + 1 PROVE FromSealed(link', link'.wire[k])
    BY <1>2, <1>e DEF TagsSealed
  <2>1. CASE k \in 1 .. Len(link.wire)
    <3>1. link'.wire[k] = link.wire[k] /\ FromSealed(link, link.wire[k])
      BY <1>1, <1>e, <2>1 DEF TagsSealed
    <3> QED BY <1>2, <1>d, <1>e, <1>10, <3>1 DEF FromSealed
  <2>2. CASE k = Len(link.wire) + 1
    <3>1. link'.wire[k] = r
      BY <1>e, <2>2
    <3>2. n + 1 \in 1 .. Len(link'.sent)
      BY <1>2, <1>e
    <3>3. r.tag = SealedAs(link', n + 1).tag
      BY <1>11
    <3> QED BY <3>1, <3>2, <3>3 DEF FromSealed
  <2> QED BY <1>2, <2>1, <2>2
<1>14. Orderly'
  <2>0. link.inSeq \in Nat /\ Len(link.wire) \in Nat
    BY <1>1, <1>2 DEF Links
  <2> SUFFICES ASSUME link.faults = 0
               PROVE  /\ link.phase = "open"
                      /\ link.inSeq + (Len(link.wire) + 1) = n + 1
                      /\ \A k \in 1 .. Len(link.wire) + 1 :
                           link'.wire[k] = SealedAs(link', link.inSeq + k)
    BY <1>2, <1>8, <1>d, <1>e, <2>0 DEF Orderly
  <2>1. link.phase = "open" /\ link.inSeq + Len(link.wire) = n /\ link.inSeq \in Nat
    BY <1>1, <1>d, <2>0 DEF Orderly
  <2>2. ASSUME NEW k \in 1 .. Len(link.wire)
        PROVE  link'.wire[k] = SealedAs(link', link.inSeq + k)
    <3>1. link'.wire[k] = SealedAs(link, link.inSeq + k)
      BY <1>1, <1>e, <2>1 DEF Orderly
    <3>2. link.inSeq + k \in 1 .. n
      BY <2>0, <2>1
    <3> QED BY <1>10, <3>1, <3>2
  <2>3. link'.wire[Len(link.wire) + 1] = SealedAs(link', link.inSeq + (Len(link.wire) + 1))
    <3>1. link.inSeq + (Len(link.wire) + 1) = n + 1
      <4> DEFINE a == link.inSeq  b == Len(link.wire)
      <4>1. a \in Nat /\ b \in Nat /\ a + b = n
        BY <2>0, <2>1
      <4> HIDE DEF a, b
      <4>2. a + (b + 1) = n + 1
        BY <4>1
      <4> QED BY <4>2 DEF a, b
    <3> QED BY <1>e, <1>11, <3>1
  <2> QED BY <2>0, <2>1, <2>2, <2>3
<1>15. OpenedInOrder'
  <2>1. \A i \in 1 .. Len(link.got) : link'.sent[i] = link.sent[i]
    BY <1>1, <1>2, <1>8 DEF OpenedInOrder
  <2>2. link'.to <= link'.size
    BY <1>a, <1>8
  <2> QED BY <1>1, <1>2, <1>8, <2>1, <2>2 DEF OpenedInOrder
<1> QED BY <1>9, <1>12, <1>13, <1>14, <1>15 DEF LinkInv

(* A record that opens is the one sealed under the number that is due      *)
(* (gcm_decrypt, ccm_decrypt, chapol_decrypt); one that does not is a      *)
(* failure that only a fault explains.                                     *)
LEMMA OpenKeeps ==
  ASSUME LinkInv, OpenLink
  PROVE  LinkInv'
<1> DEFINE f == link.form
           q == link.inSeq
           r == Head(link.wire)
           o == AeadOpen(f, q, r)
<1>1. link \in Links /\ Counted /\ TagsSealed /\ Orderly /\ OpenedInOrder /\ link.phase = "open"
  BY DEF LinkInv, OpenLink, NoLink
<1>2. /\ q \in Nat /\ f \in Forms /\ link.faults \in Nat
      /\ link.sent \in Seq(Texts) /\ link.wire \in Seq(Records) /\ link.got \in Seq(Opened)
  BY <1>1 DEF Links
<1>3. link.wire # <<>> /\ r \in Records /\ r = link.wire[1] /\ 1 \in 1 .. Len(link.wire)
  BY <1>2 DEF OpenLink
<1>4. q = Len(link.got) /\ link.outSeq = Len(link.sent)
  BY <1>1 DEF Counted
<1>5. link' = IF ~LinkLength(f, r.length) THEN [link EXCEPT !.phase = "failed"]
              ELSE IF ~o.good THEN [link EXCEPT !.phase = "failed", !.inSeq = q + 1]
              ELSE [link EXCEPT !.wire = Tail(link.wire), !.inSeq = q + 1,
                     !.got = Append(link.got, [type |-> r.type, text |-> o.text,
                                               len |-> r.length - Overhead(f)])]
  BY DEF OpenLink
(* Without a fault the next record opens.                                  *)
<1>6. ASSUME link.faults = 0
      PROVE  LinkLength(f, r.length) /\ o.good
  <2>1. r = SealedAs(link, q + 1) /\ q + Len(link.wire) = Len(link.sent)
    BY <1>1, <1>3, <1>6 DEF Orderly
  <2>2. q + 1 \in 1 .. Len(link.sent) /\ (q + 1) - 1 = q
    BY <1>2, <1>3, <2>1
  <2>3. link.sent[q + 1] \in Texts
    BY <1>2, <2>2
  <2>4. r = AeadSeal(f, q, link.sent[q + 1])
    BY <2>1, <2>2 DEF SealedAs
  <2> QED BY <1>2, <2>3, <2>4, SealOpens
<1> HIDE DEF f, q, r, o
<1>7. CASE ~(LinkLength(f, r.length) /\ o.good)
  <2>1. link.faults > 0
    BY <1>2, <1>6, <1>7
  <2>2. PICK s \in Nat : link' = [link EXCEPT !.phase = "failed", !.inSeq = s]
    <3>1. CASE ~LinkLength(f, r.length)
      <4>1. link' = [link EXCEPT !.phase = "failed", !.inSeq = q]
        BY <1>1, <1>5, <3>1 DEF Links, q
      <4> QED BY <1>2, <4>1
    <3>2. CASE LinkLength(f, r.length) /\ ~o.good
      <4>1. link' = [link EXCEPT !.phase = "failed", !.inSeq = q + 1]
        BY <1>5, <3>2
      <4>2. q + 1 \in Nat
        BY <1>2
      <4> QED BY <4>1, <4>2
    <3> QED BY <1>7, <3>1, <3>2
  <2>3. (link \in Links)'
    BY <1>1, <2>2 DEF Links
  <2>4. /\ link'.phase = "failed" /\ link'.form = link.form /\ link'.size = link.size
        /\ link'.outSeq = link.outSeq /\ link'.wire = link.wire /\ link'.sent = link.sent
        /\ link'.got = link.got /\ link'.faults = link.faults
        /\ link'.from = link.from /\ link'.to = link.to
    BY <1>1, <2>2 DEF Links
  <2>5. Counted'
    BY <1>4, <2>4 DEF Counted
  <2>6. TagsSealed'
    BY <1>1, <2>4 DEF TagsSealed, FromSealed, SealedAs
  <2>7. Orderly'
    BY <2>1, <2>4 DEF Orderly
  <2>8. OpenedInOrder'
    BY <1>1, <2>1, <2>4 DEF OpenedInOrder
  <2> QED BY <2>3, <2>5, <2>6, <2>7, <2>8 DEF LinkInv
<1>8. CASE LinkLength(f, r.length) /\ o.good
  <2> DEFINE g == [type |-> r.type, text |-> o.text, len |-> r.length - Overhead(f)]
  <2>1. link' = [link EXCEPT !.wire = Tail(link.wire), !.inSeq = q + 1, !.got = Append(link.got, g)]
    BY <1>5, <1>8
  <2>2. /\ r.tag.mask # -1 /\ o.text \in Body
        /\ \A m \in Nat, t \in Texts :
             r.tag = AeadSeal(f, m, t).tag =>
               m = q /\ r.type = t.type /\ r.length - Overhead(f) = t.len /\ o.text = Plain(t.data)
    BY <1>2, <1>3, <1>8, OpenSound DEF o
  <2>3. PICK i \in 1 .. Len(link.sent) : r.tag = SealedAs(link, i).tag
    BY <1>1, <1>3, <2>2 DEF TagsSealed, FromSealed
  <2>4. i - 1 \in Nat /\ link.sent[i] \in Texts /\ r.tag = AeadSeal(f, i - 1, link.sent[i]).tag
    BY <1>2, <2>3 DEF SealedAs, f
  <2>5. /\ i - 1 = q
        /\ g.type = link.sent[i].type /\ g.len = link.sent[i].len /\ g.text = Plain(link.sent[i].data)
    BY <2>2, <2>4
  <2>6. i = Len(link.got) + 1 /\ q + 1 = Len(link.got) + 1 /\ q + 1 \in Nat
    BY <1>2, <1>4, <2>5
  <2>7. g \in Opened
    BY <1>2, <1>3, <2>2, OverheadNat DEF Opened, Records
  <2> HIDE DEF g
  <2>8. /\ Append(link.got, g) \in Seq(Opened) /\ Tail(link.wire) \in Seq(Records)
        /\ Len(Append(link.got, g)) = Len(link.got) + 1
        /\ Append(link.got, g)[Len(link.got) + 1] = g
        /\ \A k \in 1 .. Len(link.got) : Append(link.got, g)[k] = link.got[k]
    BY <1>2, <1>3, <2>7
  <2>9. /\ Len(Tail(link.wire)) = Len(link.wire) - 1
        /\ \A k \in 1 .. Len(link.wire) - 1 : Tail(link.wire)[k] = link.wire[k + 1]
    BY <1>2, <1>3
  <2>10. (link \in Links)'
    <3>1. link \in Links
      BY <1>1
    <3> QED BY <2>1, <2>6, <2>8, <3>1 DEF Links
  <2>11. /\ link'.phase = "open" /\ link'.form = link.form /\ link'.size = link.size
         /\ link'.outSeq = link.outSeq /\ link'.inSeq = q + 1 /\ link'.wire = Tail(link.wire)
         /\ link'.sent = link.sent /\ link'.got = Append(link.got, g)
         /\ link'.faults = link.faults /\ link'.from = link.from /\ link'.to = link.to
    BY <1>1, <2>1 DEF Links
  <2>12. Counted'
    BY <1>4, <2>6, <2>8, <2>11 DEF Counted
  <2>13. TagsSealed'
    <3> SUFFICES ASSUME NEW k \in 1 .. Len(link.wire) - 1 PROVE FromSealed(link', link'.wire[k])
      BY <2>9, <2>11 DEF TagsSealed
    <3>1. link'.wire[k] = link.wire[k + 1] /\ k + 1 \in 1 .. Len(link.wire)
      BY <1>2, <2>9, <2>11
    <3>2. FromSealed(link, link.wire[k + 1])
      BY <1>1, <3>1 DEF TagsSealed
    <3> QED BY <2>11, <3>1, <3>2 DEF FromSealed, SealedAs
  <2>14. Orderly'
    <3> SUFFICES ASSUME link.faults = 0
                 PROVE  /\ (q + 1) + (Len(link.wire) - 1) = Len(link.sent)
                        /\ \A k \in 1 .. Len(link.wire) - 1 :
                             link'.wire[k] = SealedAs(link', (q + 1) + k)
      BY <2>9, <2>11 DEF Orderly
    <3>1. q + Len(link.wire) = Len(link.sent)
          /\ \A k \in 1 .. Len(link.wire) : link.wire[k] = SealedAs(link, q + k)
      BY <1>1 DEF Orderly, q
    <3>2. (q + 1) + (Len(link.wire) - 1) = Len(link.sent)
      <4> DEFINE b == Len(link.wire)
      <4>1. b \in Nat /\ q \in Nat /\ q + b = Len(link.sent)
        BY <1>2, <3>1
      <4> HIDE DEF b
      <4>2. (q + 1) + (b - 1) = q + b
        BY <4>1
      <4> QED BY <4>1, <4>2 DEF b
    <3>3. ASSUME NEW k \in 1 .. Len(link.wire) - 1
          PROVE  link'.wire[k] = SealedAs(link', (q + 1) + k)
      <4>1. link'.wire[k] = link.wire[k + 1] /\ k + 1 \in 1 .. Len(link.wire)
        BY <1>2, <2>9, <2>11
      <4>2. link.wire[k + 1] = SealedAs(link, q + (k + 1)) /\ q + (k + 1) = (q + 1) + k
        BY <1>2, <3>1, <4>1
      <4> QED BY <2>11, <4>1, <4>2 DEF SealedAs
    <3> QED BY <3>2, <3>3
  <2>15. OpenedInOrder'
    <3>1. Len(link.got) + 1 <= Len(link.sent)
      BY <2>6
    <3>2. \A k \in 1 .. Len(link.got) : 
            LET h == link.got[k]  t == link.sent[k] IN
            h.type = t.type /\ h.len = t.len /\ h.text = Plain(t.data)
      BY <1>1 DEF OpenedInOrder
    <3>3. ASSUME NEW k \in 1 .. Len(link.got) + 1
          PROVE  LET h == Append(link.got, g)[k]  t == link.sent[k] IN
                 h.type = t.type /\ h.len = t.len /\ h.text = Plain(t.data)
      <4>1. CASE k \in 1 .. Len(link.got)
        BY <2>8, <3>2, <4>1
      <4>2. CASE k = Len(link.got) + 1
        BY <2>5, <2>6, <2>8, <4>2
      <4> QED BY <1>2, <4>1, <4>2
    <3>4. 0 <= link.from /\ link.to <= link.size
      BY <1>1 DEF OpenedInOrder
    <3> QED BY <2>8, <2>11, <3>1, <3>3, <3>4 DEF OpenedInOrder
  <2> QED BY <2>10, <2>12, <2>13, <2>14, <2>15 DEF LinkInv
<1> QED BY <1>7, <1>8

(* What a fault leaves on the wire are records with a damaged tag or that  *)
(* of a sealed record.                                                     *)
LEMMA FaultKeeps ==
  ASSUME LinkInv, NEW w \in Seq(Records), Fault(w),
         \A k \in 1 .. Len(w) : FromSealed(link, w[k])
  PROVE  LinkInv'
<1>1. link \in Links /\ Counted /\ OpenedInOrder /\ link.phase = "open" /\ link.faults \in Nat
  BY DEF LinkInv, Fault, NoLink, Links
<1>2. link' = [link EXCEPT !.wire = w, !.faults = link.faults + 1]
  BY DEF Fault
<1>3. (link \in Links)'
  <2>1. link \in Links /\ w \in Seq(Records) /\ link.faults + 1 \in Nat
    BY <1>1
  <2> QED BY <1>2, <2>1 DEF Links
<1>4. /\ link'.phase = link.phase /\ link'.form = link.form /\ link'.size = link.size
      /\ link'.outSeq = link.outSeq /\ link'.inSeq = link.inSeq /\ link'.wire = w
      /\ link'.sent = link.sent /\ link'.got = link.got /\ link'.faults = link.faults + 1
      /\ link'.from = link.from /\ link'.to = link.to
  BY <1>1, <1>2 DEF Links
<1>5. Counted'
  BY <1>1, <1>4 DEF Counted
<1>6. TagsSealed'
  BY <1>4 DEF TagsSealed, FromSealed, SealedAs
<1>7. Orderly'
  BY <1>1, <1>4 DEF Orderly
<1>8. OpenedInOrder'
  BY <1>1, <1>4 DEF OpenedInOrder
<1> QED BY <1>3, <1>5, <1>6, <1>7, <1>8 DEF LinkInv

(* A damaged record is still a record, with its tag damaged or as it was.  *)
LEMMA DamagedTyped ==
  ASSUME NEW r \in Records, FromSealed(link, r), NEW d \in Damaged(r)
  PROVE  d \in Records /\ FromSealed(link, d)
<1>1. r.tag \in Tags /\ r.body \in Body
  BY DEF Records
<1> DEFINE b == [r.body EXCEPT !.data = "damaged"]
<1>a. b \in Body
  BY <1>1 DEF Body
<1>b. [r EXCEPT !.body.data = "damaged"] = [r EXCEPT !.body = b]
  OBVIOUS
<1> HIDE DEF b
<1>2. CASE d = [r EXCEPT !.type = r.type + 1]
  BY <1>2 DEF Records, FromSealed
<1>3. CASE d = [r EXCEPT !.explicit = @ + 1]
  BY <1>3 DEF Records, FromSealed
<1>4. CASE d = [r EXCEPT !.body.data = "damaged"]
  BY <1>a, <1>b, <1>4 DEF Records, FromSealed
<1>5. CASE d = [r EXCEPT !.tag.mask = -1]
  <2>1. [r.tag EXCEPT !.mask = -1] \in Tags /\ [r.tag EXCEPT !.mask = -1].mask = -1
    BY <1>1 DEF Tags
  <2>2. d = [r EXCEPT !.tag = [r.tag EXCEPT !.mask = -1]]
    BY <1>5
  <2> QED BY <2>1, <2>2 DEF Records, FromSealed
<1>6. CASE d = [r EXCEPT !.length = @ - 1, !.body.data = "damaged", !.tag.mask = -1]
  <2>1. [r.tag EXCEPT !.mask = -1] \in Tags /\ [r.tag EXCEPT !.mask = -1].mask = -1
    BY <1>1 DEF Tags
  <2>2. d = [r EXCEPT !.length = r.length - 1, !.body = b, !.tag = [r.tag EXCEPT !.mask = -1]]
    BY <1>6 DEF b
  <2>3. r.length - 1 \in Int
    BY DEF Records
  <2> QED BY <1>a, <2>1, <2>2, <2>3 DEF Records, FromSealed
<1> QED BY <1>2, <1>3, <1>4, <1>5, <1>6 DEF Damaged

(* Each of the four faults leaves such records on the wire.                *)
LEMMA FaultsKeep ==
  ASSUME LinkInv, link.phase # "none", NEW i \in 1 .. Len(link.wire),
         DamageRecord(i) \/ LoseRecord(i) \/ DoubleRecord(i) \/ OvertakeRecord(i)
  PROVE  LinkInv'
<1> DEFINE wire == link.wire
           n == Len(wire)
<1>1. wire \in Seq(Records) /\ n \in Nat /\ \A k \in 1 .. n : FromSealed(link, wire[k])
  BY DEF LinkInv, NoLink, Links, TagsSealed
<1>2. CASE DamageRecord(i)
  <2>1. PICK r \in Damaged(wire[i]) : Fault([wire EXCEPT ![i] = r])
    BY <1>2 DEF DamageRecord
  <2>2. r \in Records /\ FromSealed(link, r)
    BY <1>1, DamagedTyped
  <2> DEFINE w == [wire EXCEPT ![i] = r]
  <2>3. w \in Seq(Records) /\ Len(w) = n /\ \A k \in 1 .. n : w[k] = IF k = i THEN r ELSE wire[k]
    BY <1>1, <2>2
  <2>4. \A k \in 1 .. Len(w) : FromSealed(link, w[k])
    BY <1>1, <2>2, <2>3
  <2> QED BY <2>1, <2>3, <2>4, FaultKeeps
<1>3. CASE LoseRecord(i)
  <2> DEFINE w == SubSeq(wire, 1, i - 1) \o SubSeq(wire, i + 1, n)
  <2>1. w \in Seq(Records) /\ Len(w) = n - 1
        /\ \A k \in 1 .. n - 1 : w[k] = IF k < i THEN wire[k] ELSE wire[k + 1]
    <3> DEFINE a == SubSeq(wire, 1, i - 1)  b == SubSeq(wire, i + 1, n)
    <3>1. a \in Seq(Records) /\ Len(a) = i - 1 /\ \A k \in 1 .. i - 1 : a[k] = wire[k]
      BY <1>1
    <3>2. b \in Seq(Records) /\ Len(b) = n - i /\ \A k \in 1 .. n - i : b[k] = wire[i + k]
      BY <1>1
    <3> HIDE DEF a, b
    <3>3. a \o b \in Seq(Records) /\ Len(a \o b) = Len(a) + Len(b)
          /\ \A k \in 1 .. Len(a) + Len(b) :
               (a \o b)[k] = IF k <= Len(a) THEN a[k] ELSE b[k - Len(a)]
      BY <3>1, <3>2, ConcatProperties
    <3>4. ASSUME NEW k \in 1 .. n - 1
          PROVE  (a \o b)[k] = IF k < i THEN wire[k] ELSE wire[k + 1]
      <4>1. k \in 1 .. Len(a) + Len(b)
        BY <1>1, <3>1, <3>2
      <4>2. CASE k < i
        BY <1>1, <3>1, <3>3, <4>1, <4>2
      <4>3. CASE ~(k < i)
        <5>1. k - Len(a) \in 1 .. n - i /\ i + (k - Len(a)) = k + 1 /\ ~(k <= Len(a))
          BY <1>1, <3>1, <4>3
        <5> QED BY <3>2, <3>3, <4>1, <4>3, <5>1
      <4> QED BY <4>2, <4>3
    <3>5. w = a \o b
      BY DEF a, b
    <3> HIDE DEF w
    <3>6. Len(a) + Len(b) = n - 1
      BY <1>1, <3>1, <3>2
    <3> QED BY <3>3, <3>4, <3>5, <3>6
  <2>2. \A k \in 1 .. Len(w) : FromSealed(link, w[k])
    <3> HIDE DEF w
    <3> SUFFICES ASSUME NEW k \in 1 .. n - 1 PROVE FromSealed(link, w[k])
      BY <2>1
    <3>1. k \in 1 .. n /\ k + 1 \in 1 .. n
      BY <1>1
    <3> QED BY <1>1, <2>1, <3>1
  <2>3. Fault(w)
    BY <1>3 DEF LoseRecord
  <2> QED BY <2>1, <2>2, <2>3, FaultKeeps
<1>4. CASE DoubleRecord(i)
  <2> DEFINE w == SubSeq(wire, 1, i) \o SubSeq(wire, i, n)
  <2>1. w \in Seq(Records) /\ Len(w) = n + 1
        /\ \A k \in 1 .. n + 1 : w[k] = IF k <= i THEN wire[k] ELSE wire[k - 1]
    BY <1>1
  <2>2. \A k \in 1 .. Len(w) : FromSealed(link, w[k])
    BY <1>1, <2>1
  <2>3. Fault(w)
    BY <1>4 DEF DoubleRecord
  <2> QED BY <2>1, <2>2, <2>3, FaultKeeps
<1>5. CASE OvertakeRecord(i)
  <2> DEFINE w == [wire EXCEPT ![i] = wire[i + 1], ![i + 1] = wire[i]]
  <2>1. i + 1 \in 1 .. n /\ Fault(w)
    BY <1>1, <1>5 DEF OvertakeRecord
  <2>2. w \in Seq(Records) /\ Len(w) = n
        /\ \A k \in 1 .. n : w[k] = IF k = i + 1 THEN wire[i] ELSE IF k = i THEN wire[i + 1] ELSE wire[k]
    BY <1>1, <2>1
  <2>3. \A k \in 1 .. Len(w) : FromSealed(link, w[k])
    BY <1>1, <2>1, <2>2
  <2> QED BY <2>1, <2>2, <2>3, FaultKeeps
<1> QED BY <1>2, <1>3, <1>4, <1>5

(* The inductive invariant of the records between two ends.                *)
THEOREM LinkInvariance == LinkSpec => []LinkInv
<1>1. LinkInit => LinkInv
  BY DEF LinkInit, LinkInv
<1>2. LinkInv /\ [LinkNext]_link => LinkInv'
  <2> SUFFICES ASSUME LinkInv, [LinkNext]_link PROVE LinkInv'
    OBVIOUS
  <2>1. ASSUME NEW f \in Forms, NEW size \in LinkSizes, StartLink(f, size)
        PROVE  LinkInv'
    BY <2>1, StartKeeps
  <2>2. ASSUME NEW t \in Texts, SealLink(t) PROVE LinkInv'
    BY <2>2, SealKeeps
  <2>3. CASE OpenLink
    BY <2>3, OpenKeeps
  <2>4. ASSUME link.phase # "none", NEW i \in 1 .. Len(link.wire),
               DamageRecord(i) \/ LoseRecord(i) \/ DoubleRecord(i) \/ OvertakeRecord(i)
        PROVE  LinkInv'
    BY <2>4, FaultsKeep
  <2>5. CASE UNCHANGED link
    BY <2>5 DEF LinkInv, Links, Counted, TagsSealed, FromSealed, SealedAs, Orderly, OpenedInOrder
  <2> QED BY <2>1, <2>2, <2>3, <2>4, <2>5 DEF LinkNext
<1> QED BY <1>1, <1>2, PTL DEF LinkSpec

(* However records are damaged, lost, doubled or overtaken, what is opened *)
(* is what was sealed, in order and from the first on (gcm_decrypt,        *)
(* ccm_decrypt, chapol_decrypt).                                           *)
THEOREM InOrder == LinkSpec => []OpenedInOrder
<1>1. LinkInv => OpenedInOrder
  BY DEF LinkInv, OpenedInOrder, NoLink
<1> QED BY <1>1, LinkInvariance, PTL

=============================================================================
