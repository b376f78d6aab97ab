---------------------------- MODULE StreamCalls ----------------------------
(* The calls to the hash functions, HMAC, HKDF and SHAKE as a state        *)
(* machine, next to what these functions are on whole strings.             *)
EXTENDS Streams

-----------------------------------------------------------------------------
HashOf(h, string) ==
  LET n == (2 * h.bs - 1 - h.lb - (Len(string) % h.bs)) % h.bs
      all == string \o <<4>> \o Zeros(n + h.lb - 2) \o BitLen(Len(string))
  IN  Loop(Len(all) \div h.bs, h.iv, LAMBDA v, i : Compress(h, v, Block(all, h.bs, i)))

HmacOf(h, key, string) ==
  LET k == ZeroPadded(IF Len(key) > h.bs THEN HashOf(h, key) ELSE key, h.bs)
      full == IF k = <<>> THEN Zeros(h.bs) ELSE k
      pad(bb) == [i \in 1 .. h.bs |-> XorTable[full[i], bb]]
  IN  HashOf(h, pad(5) \o HashOf(h, pad(3) \o string))

HkdfOf(h, salt, string, info) ==
  LET prk == HmacOf(h, salt, string)
  IN  Loop(MaxChunks - 1, [t |-> <<>>, out |-> <<>>],
        LAMBDA s, i : LET t == HmacOf(h, prk, s.t \o info \o <<i>>)
                      IN  [t |-> t, out |-> s.out \o t]).out

ShakeOf(string, len) ==
  LET n == Rate - 1 - (Len(string) % Rate)
      padded == string \o IF n = 0 THEN <<5>> ELSE <<1>> \o Zeros(n - 1) \o <<4>>
      a == Loop(Len(padded) \div Rate, Zeros(Rate + 2),
                LAMBDA s, i : Permute(XorBlock(s, Block(padded, Rate, i))))
  IN  Loop(len, [a |-> a, out |-> <<>>],
        LAMBDA s, i : [a |-> Permute(s.a), out |-> s.out \o Take(s.a, Rate)]).out

-----------------------------------------------------------------------------
Key(n) == [i \in 1 .. n |-> (5 * i * i + 2) % 8]
Info == <<6, 1>>

NoStream == [kind |-> "none", phase |-> "none"]
StreamInit == stream = NoStream

StreamBegin(kind, h, key, outLen, size) ==
  /\ stream = NoStream
  /\ stream' = [kind |-> kind, h |-> h, key |-> Key(key), size |-> size, given |-> 0,
                phase |-> "feed", out |-> <<>>, short |-> FALSE,
                c |-> CASE kind = "hash" -> HashInit(h)
                        [] kind = "multi" -> MultiInit
                        [] kind = "hmac" -> HmacInit(h, KeyInit(h, Key(key)), outLen)
                        [] kind = "hkdf" -> HkdfInit(h, Key(key))
                        [] OTHER -> ShakeInit]

Feed(n) ==
  LET data == Data(stream.given, stream.given + n)
  IN  /\ stream.phase = "feed" /\ stream.given + n <= stream.size
      /\ stream' = [stream EXCEPT !.given = @ + n,
                     !.c = CASE stream.kind = "hash" -> HashUpdate(stream.h, @, data)
                             [] stream.kind = "multi" -> MultiUpdate(@, data)
                             [] stream.kind = "shake" -> ShakeInject(@, data)
                             [] OTHER -> HmacUpdate(stream.h, @, data)]

Fed == stream.phase = "feed" /\ stream.given = stream.size
Out(out) == stream' = [stream EXCEPT !.phase = "done", !.out = out]

OutHash == Fed /\ stream.kind = "hash" /\ Out(HashOut(stream.h, stream.c))
OutMulti == Fed /\ stream.kind = "multi" /\ Out(MultiOut(stream.c, stream.h))
OutHmac == Fed /\ stream.kind = "hmac" /\ Out(HmacOut(stream.h, stream.c))
(* The rest of the data with the secret length, room more bytes behind it. *)
OutHmacCT(less, room) ==
  LET len == stream.size - stream.given
  IN  /\ stream.phase = "feed" /\ stream.kind = "hmac" /\ less <= len
      /\ Out(HmacOutCT(stream.h, stream.c, Data(stream.given, stream.size + room), len, len - less))

Turn ==
  /\ Fed /\ stream.kind \in {"hkdf", "shake"}
  /\ stream' = [stream EXCEPT !.phase = "produce",
                 !.c = IF stream.kind = "hkdf" THEN HkdfFlip(stream.h, @) ELSE ShakeFlip(@)]
(* After a short answer the caller stops.                                  *)
Produce(n) ==
  LET r == IF stream.kind = "hkdf" THEN HkdfProduce(stream.h, stream.c, Info, n)
           ELSE ShakeProduce(stream.c, n)
  IN  /\ stream.phase = "produce" /\ ~stream.short
      /\ Len(stream.out) + n <= MaxChunks * Len(stream.h.iv)
      /\ stream' = [stream EXCEPT !.c = r.c, !.out = @ \o r.out, !.short = Len(r.out) < n]

StreamNext ==
  \/ \E kind \in {"hash", "multi", "hmac", "hkdf", "shake"}, h \in Hashes,
        key \in KeySizes, outLen \in OutSizes, size \in StreamSizes :
       StreamBegin(kind, h, key, outLen, size)
  \/ \E n \in StreamPieces : Feed(n) \/ Produce(n)
  \/ OutHash \/ OutMulti \/ OutHmac \/ Turn
  \/ \E less, room \in KeySizes : OutHmacCT(less, room)
StreamSpec == StreamInit /\ [][StreamNext]_stream

(* What comes out depends on the string and the key alone, not on the      *)
(* lengths of the calls, nor on which hash functions run side by side, nor *)
(* on the bounds given for a secret length; HKDF gives 255 chunks and says *)
(* when it has no more (a buffer per context, sha2small.c, multihash.c,    *)
(* hmac.c, hmac_ct.c, hkdf.c, shake.c).                                    *)
StreamsIgnorePieces ==
  LET string == Data(0, stream.size)
      got == stream.out
  IN  /\ stream.phase = "done" =>
           IF stream.kind = "hmac"
           THEN got # <<>> /\ got = Take(HmacOf(stream.h, stream.key, string), Len(got))
           ELSE got = HashOf(stream.h, string)
      /\ stream.phase = "produce" =>
           IF stream.kind = "shake" THEN ~stream.short /\ got = Take(ShakeOf(string, Len(got)), Len(got))
           ELSE LET all == HkdfOf(stream.h, stream.key, string, Info)
                IN  got = Take(all, Len(got)) /\ (stream.short => got = all)
=============================================================================
