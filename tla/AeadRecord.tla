----------------------------- MODULE AeadRecord -----------------------------
(***************************************************************************)
(* Records protected by GCM, CCM or ChaCha20+Poly1305 (ssl_rec_gcm.c,      *)
(* ssl_rec_ccm.c, ssl_rec_chapol.c), from one end to the other.  What is   *)
(* encrypted keeps the nonce it was encrypted under, and a tag is what it  *)
(* was computed from; the ciphers are modelled in Aead.  On the way a      *)
(* record may be damaged, lost, doubled, or overtaken.                     *)
(***************************************************************************)
EXTENDS Integers, Sequences

CONSTANTS
  Forms,        \* of protection: mode, and bytes of the tag
  Texts,        \* what is sent: type, data and length
  LinkSizes,    \* bytes of the output buffer
  MaxText,      \* 16384
  MaxSealed,    \* records sealed
  MaxFaults     \* faults on the way

ASSUME AeadRecordAssumption ==
  /\ Forms \subseteq [mode : {"gcm", "ccm", "chapol"}, tag : Nat]
  /\ Texts \subseteq [type : Nat, data : STRING, len : 0 .. MaxText]
  /\ LinkSizes \subseteq Nat /\ MaxText \in Nat /\ MaxSealed \in Nat /\ MaxFaults \in Nat

VARIABLE link   \* the contexts of both ends, and the records between them

-----------------------------------------------------------------------------
(* A text is data under key streams, those of the nonces in keys: the same *)
(* one twice leaves none.                                                  *)
Plain(data) == [data |-> data, keys |-> {}]
Masking(nonce, x) ==
  [x EXCEPT !.keys = IF nonce \in x.keys THEN x.keys \ {nonce} ELSE x.keys \union {nonce}]

(* What a tag covers: the sequence number, type and length as a header,    *)
(* and the text; mask is the nonce that it is masked with, or that its key *)
(* is made from.                                                           *)
Tag(seq, type, len, x, nonce) ==
  [header |-> <<seq, type, len>>, text |-> x, mask |-> nonce]
NonceLen(f) == IF f.mode = "chapol" THEN 0 ELSE 8
Overhead(f) == NonceLen(f) + f.tag

(* The nonce is the sequence number, sent with the record.  The tag is     *)
(* over the text as it is sent.                                            *)
GcmEncrypt(seq, t) ==
  [body |-> Masking(seq, Plain(t.data)), explicit |-> seq,
   tag |-> Tag(seq, t.type, t.len, Masking(seq, Plain(t.data)), seq)]
GcmDecryptByNonce(seq, r, len) ==   \* mutant: the number sent is trusted
  [good |-> r.tag = Tag(r.explicit, r.type, len, r.body, r.explicit),
   text |-> Masking(r.explicit, r.body)]
GcmDecrypt(seq, r, len) ==
  [good |-> r.tag = Tag(seq, r.type, len, r.body, r.explicit),
   text |-> Masking(r.explicit, r.body)]

(* As above, with a tag over the text before it is encrypted.              *)
CcmEncrypt(seq, t) ==
  [body |-> Masking(seq, Plain(t.data)), explicit |-> seq,
   tag |-> Tag(seq, t.type, t.len, Plain(t.data), seq)]
CcmDecrypt(seq, r, len) ==
  [good |-> r.tag = Tag(seq, r.type, len, Masking(r.explicit, r.body), r.explicit),
   text |-> Masking(r.explicit, r.body)]

(* No nonce is sent: each end makes it from its own number.                *)
ChapolEncrypt(seq, t) ==
  [body |-> Masking(seq, Plain(t.data)), explicit |-> 0,
   tag |-> Tag(seq, t.type, t.len, Masking(seq, Plain(t.data)), seq)]
ChapolDecrypt(seq, r, len) ==
  [good |-> r.tag = Tag(seq, r.type, len, r.body, seq),
   text |-> Masking(seq, r.body)]

AeadSeal(f, seq, t) ==
  LET e == CASE f.mode = "gcm" -> GcmEncrypt(seq, t)
             [] f.mode = "ccm" -> CcmEncrypt(seq, t)
             [] f.mode = "chapol" -> ChapolEncrypt(seq, t)
  IN  [type |-> t.type, length |-> t.len + Overhead(f),
       body |-> e.body, explicit |-> e.explicit, tag |-> e.tag]
AeadOpen(f, seq, r) ==
  CASE f.mode = "gcm" -> GcmDecrypt(seq, r, r.length - Overhead(f))
    [] f.mode = "ccm" -> CcmDecrypt(seq, r, r.length - Overhead(f))
    [] f.mode = "chapol" -> ChapolDecrypt(seq, r, r.length - Overhead(f))

(* Where the plaintext starts in a buffer, and the most it may be; and the *)
(* lengths that a record may announce.                                     *)
LinkPlaintext(f, size) ==
  LET len == size - (5 + NonceLen(f)) - f.tag
  IN  [start |-> 5 + NonceLen(f), len |-> IF len > MaxText THEN MaxText ELSE len]
LinkLength(f, rlen) == rlen >= Overhead(f) /\ rlen <= MaxText + Overhead(f)

-----------------------------------------------------------------------------
NoLink == [phase |-> "none"]
LinkInit == link = NoLink

(* gen_gcm_init, gen_ccm_init, gen_chapol_init at both ends, with the same *)
(* key and IV.                                                             *)
StartLink(f, size) ==
  /\ link = NoLink
  /\ link' = [phase |-> "open", form |-> f, size |-> size, outSeq |-> 0, inSeq |-> 0,
              wire |-> <<>>, sent |-> <<>>, got |-> <<>>, faults |-> 0, from |-> 0, to |-> 0]

SealLink(t) ==
  /\ link.phase # "none" /\ Len(link.sent) < MaxSealed
  /\ t.len <= LinkPlaintext(link.form, link.size).len
  /\ LET r == AeadSeal(link.form, link.outSeq, t)
         from == LinkPlaintext(link.form, link.size).start - NonceLen(link.form) - 5
     IN  link' = [link EXCEPT !.outSeq = @ + 1, !.sent = Append(@, t), !.wire = Append(@, r),
                              !.from = from, !.to = from + 5 + r.length]

(* The engine checks the length when it has the header, and fails when the *)
(* record does not open.  The number is advanced in any case.              *)
OpenLink ==
  /\ link.phase = "open" /\ link.wire # <<>>
  /\ LET r == Head(link.wire)
         o == AeadOpen(link.form, link.inSeq, r)
     IN  link' = IF ~LinkLength(link.form, r.length) THEN [link EXCEPT !.phase = "failed"]
                 ELSE IF ~o.good THEN [link EXCEPT !.phase = "failed", !.inSeq = @ + 1]
                 ELSE [link EXCEPT !.wire = Tail(@), !.inSeq = @ + 1,
                        !.got = Append(@, [type |-> r.type, text |-> o.text,
                                           len |-> r.length - Overhead(link.form)])]

(* Faults: one part of a record is damaged, or it loses its last byte; it  *)
(* does not arrive, arrives twice, or after the next one.                  *)
Damaged(r) ==
  {[r EXCEPT !.type = r.type + 1], [r EXCEPT !.explicit = @ + 1],
   [r EXCEPT !.body.data = "damaged"], [r EXCEPT !.tag.mask = -1],
   [r EXCEPT !.length = @ - 1, !.body.data = "damaged", !.tag.mask = -1]}
Fault(wire) ==
  /\ link.phase = "open" /\ link.faults < MaxFaults
  /\ link' = [link EXCEPT !.wire = wire, !.faults = @ + 1]
DamageRecord(i) ==
  i \in DOMAIN link.wire /\ \E r \in Damaged(link.wire[i]) : Fault([link.wire EXCEPT ![i] = r])
LoseRecord(i) ==
  i \in DOMAIN link.wire /\
  Fault(SubSeq(link.wire, 1, i - 1) \o SubSeq(link.wire, i + 1, Len(link.wire)))
DoubleRecord(i) ==
  i \in DOMAIN link.wire /\ Fault(SubSeq(link.wire, 1, i) \o SubSeq(link.wire, i, Len(link.wire)))
OvertakeRecord(i) ==
  i + 1 \in DOMAIN link.wire /\
  Fault([link.wire EXCEPT ![i] = link.wire[i + 1], ![i + 1] = link.wire[i]])

LinkNext ==
  \/ \E f \in Forms, size \in LinkSizes : StartLink(f, size)
  \/ link.phase # "none" /\
       \/ \E t \in Texts : SealLink(t)
       \/ OpenLink
       \/ \E i \in 1 .. Len(link.wire) :
            DamageRecord(i) \/ LoseRecord(i) \/ DoubleRecord(i) \/ OvertakeRecord(i)
LinkSpec == LinkInit /\ [][LinkNext]_link
-----------------------------------------------------------------------------
(* What is opened is what was sealed, in this order and from the first on, *)
(* with its type and length, whatever happens on the way, and nothing      *)
(* fails without a fault; a sealed record stays inside its buffer          *)
(* (gcm_decrypt, ccm_decrypt, chapol_decrypt and the calls to seal).       *)
OpenedInOrder ==
  link.phase # "none" =>
    /\ Len(link.got) <= Len(link.sent)
    /\ \A i \in 1 .. Len(link.got) :
         LET g == link.got[i]  t == link.sent[i] IN
         g.type = t.type /\ g.len = t.len /\ g.text = Plain(t.data)
    /\ link.phase = "failed" => link.faults > 0
    /\ 0 <= link.from /\ link.to <= link.size
=============================================================================
