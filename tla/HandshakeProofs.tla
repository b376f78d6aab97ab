-------------------------- MODULE HandshakeProofs --------------------------
(***************************************************************************)
(* Proofs about Handshake: two ends that both accept application data have *)
(* the same session, and the cache remembers a session as both ends made   *)
(* it; for every choice of the configurations, of the size of the cache    *)
(* and of the number of handshakes.                                        *)
(***************************************************************************)
EXTENDS Handshake, SequenceTheorems, TLAPS

-----------------------------------------------------------------------------
(* The inductive invariant.                                                *)

(* The messages of one type on their way, and that no message of a         *)
(* handshake is there twice.                                               *)
Msgs(ch, t) == {ch[i].m : i \in {j \in DOMAIN ch : ch[j].m.t = t}}
Flight == {"ClientHello", "ServerHello", "ServerDone", "ClientKey", "Finished"}
Once(ch) ==
  \A i, j \in DOMAIN ch : ch[i].m.t \in Flight /\ ch[i].m.t = ch[j].m.t => i = j

(* A channel is a sequence, of whatever is in it.                          *)
Channel(ch) == ch \in Seq({ch[i] : i \in DOMAIN ch})

(* The components of a context that the code reads and writes by name.     *)
Fields == {"pc", "config", "ver", "suite", "id", "secret", "resumed", "reneg", "saved", "hash",
           "vin", "vout", "frag", "peerFrag", "err"}
IsContext(e) ==
  /\ e = [f \in Fields |-> e[f]]
  /\ e.saved = [who \in {"client", "server"} |-> e.saved[who]]

(* What is on its way: C from the client, S from the server; Hello, Key,   *)
(* Done and Finished.                                                      *)
CH == Msgs(toServer, "ClientHello")
CK == Msgs(toServer, "ClientKey")
CF == Msgs(toServer, "Finished")
SH == Msgs(toClient, "ServerHello")
SD == Msgs(toClient, "ServerDone")
SF == Msgs(toClient, "Finished")

(* What each end is by itself, whatever the other does.  A session ID of   *)
(* the client's is older than the handshake under way.                     *)
ClientAlone ==
  /\ IsContext(client)
  /\ client.config \in ClientConfigs \union {NoConfig}
  /\ client.pc \in {"closed", "hello", "done", "finished", "app", "failed"}
  /\ client.id \in 0 .. started
  /\ IF client.pc = "closed" THEN toServer = <<>> /\ toClient = <<>> ELSE started > 0
  /\ client.pc = "hello" => client.id < started
  /\ client.pc \in {"done", "finished", "app"} =>
       /\ client.vin = client.ver /\ client.vout = client.ver
       /\ client.ver \in client.config.min .. client.config.max
       /\ client.suite \in client.config.suites
  /\ client.pc = "finished" /\ ~client.resumed => client.saved.client.secret = client.secret

ServerAlone ==
  /\ IsContext(server)
  /\ server.config \in ServerConfigs \union {NoConfig}
  /\ server.pc \in {"closed", "hello", "key", "finished", "app", "asked", "failed"}
  /\ server.resumed \in BOOLEAN /\ server.reneg \in 0 .. 2
  /\ IF client.pc = "closed" THEN server.pc = "closed" ELSE server.config # NoConfig
  /\ server.pc \in {"key", "finished", "app", "asked"} =>
       /\ server.ver \in Int /\ server.vin = server.ver /\ server.vout = server.ver
       /\ server.reneg # 0
  /\ server.pc \in {"key", "finished"} /\ ~server.resumed =>
       /\ server.suite \in server.config.suites
       /\ server.id \in 1 .. started
  /\ server.pc = "finished" /\ ~server.resumed => server.secret = server.id
  /\ server.pc = "finished" /\ server.resumed => server.saved.server.secret = server.secret

(* The hello messages are typed, and name sessions that were made.         *)
Wire ==
  /\ Channel(toServer) /\ Channel(toClient)
  /\ started \in 0 .. MaxHandshakes
  /\ \A m \in CH : m.id \in 0 .. started /\ m.max \in Int
  /\ \A m \in SH : m.id \in 0 .. started /\ m.ver \in Int

(* A list of sessions as the server makes them.                            *)
Known(s, suites) ==
  /\ Channel(s)
  /\ \A i \in DOMAIN s :
       /\ s[i].id # 0 /\ s[i].par.ver \in Int
       /\ s[i].id \notin OtherIds => s[i].par.secret = s[i].id /\ s[i].par.suite \in suites

CacheSound == Known(sessions, server.config.suites)

(* The secret on its way belongs to the session that the server has named, *)
(* even when the client has given up since.                                *)
KeyKnown ==
  server.pc # "failed" =>
    /\ \A m \in CK : m.secret = started
    /\ server.pc = "key" => server.id = started /\ ~server.resumed

(* The two ends together: where the client waits, what the server has      *)
(* done, and what is on its way between them.  A failed end sends nothing  *)
(* more, so that nothing has to be known of the pair.                      *)
Same(fields) == \A f \in fields : client[f] = server[f]
Named == {"ver", "suite", "id", "resumed", "reneg"}
NothingForClient == SH = {} /\ SD = {} /\ SF = {}
Offered(m) ==
  /\ m.ver = server.ver /\ m.id = server.id /\ m.suite = server.suite
  /\ m.reneg = <<>> <=> server.reneg = 1
  /\ server.resumed <=> m.id = client.id /\ client.id # 0

AtHello ==
  /\ CK = {}
  /\ \/ /\ CH # {} /\ (\A m \in CH : m.id = client.id) /\ NothingForClient
        /\ \/ server.pc \in {"hello", "app", "asked"} /\ CF = {}
           \/ server.pc = "finished" /\ server.resumed
     \/ /\ CH = {} /\ CF = {}
        /\ \/ server.pc \in {"app", "asked"} /\ NothingForClient
           \/ server.pc = "key" /\ (\A m \in SH : Offered(m)) /\ SF = {}
           \/ /\ server.pc = "finished" /\ server.resumed /\ SD = {}
              /\ (\A m \in SH : Offered(m)) /\ SF \subseteq {server.saved.server}
AtDone ==
  /\ CH = {} /\ CK = {} /\ CF = {} /\ SH = {} /\ SF = {}
  /\ server.pc = "key" /\ Same(Named)
AtFinished ==
  /\ CH = {} /\ SH = {} /\ SD = {} /\ Same(Named)
  /\ \/ server.pc = "key" /\ SF = {} /\ CF \subseteq {client.saved.client}
     \/ server.pc = "finished" /\ ~server.resumed /\ CK = {} /\ SF = {} /\ CF \subseteq {client.saved.client}
     \/ /\ server.pc \in {"app", "asked"} /\ ~server.resumed
        /\ CK = {} /\ CF = {} /\ SF \subseteq {server.saved.server}
        /\ client.secret = server.secret /\ client.saved.client = server.saved.client
     \/ server.pc = "finished" /\ server.resumed /\ CK = {} /\ CF = {} /\ SF \subseteq {server.saved.server}
AtApp ==
  /\ CH = {} /\ CK = {} /\ NothingForClient /\ Same(Named \union {"secret"})
  /\ client.saved.server = server.saved.server
  /\ \/ server.pc \in {"app", "asked"} /\ CF = {} /\ client.saved.client = server.saved.client
     \/ server.pc = "finished" /\ server.resumed /\ CF \subseteq {client.saved.client}

Joint ==
  server.pc # "failed" /\ client.pc # "failed" =>
    /\ Once(toServer) /\ Once(toClient)
    /\ client.pc = "hello" => AtHello
    /\ client.pc = "done" => AtDone
    /\ client.pc = "finished" => AtFinished
    /\ client.pc = "app" => AtApp

Inv == ClientAlone /\ ServerAlone /\ Wire /\ CacheSound /\ KeyKnown /\ Joint

-----------------------------------------------------------------------------
(* Channels.                                                               *)

(* Nothing is on its way in an empty channel.                              *)
LEMMA EmptyChannel ==
  Channel(<<>>) /\ Once(<<>>) /\ \A t : Msgs(<<>>, t) = {}
BY DEF Channel, Once, Msgs

(* A sequence over any set is a channel.                                   *)
LEMMA ChannelOf ==
  ASSUME NEW s, NEW S, s \in Seq(S)
  PROVE  Channel(s)
<1> DEFINE T == {s[i] : i \in DOMAIN s}
<1>1. Len(s) \in Nat /\ s \in [1 .. Len(s) -> S] BY LenProperties
<1>2. s \in [1 .. Len(s) -> T] BY <1>1
<1> HIDE DEF T
<1>3. s \in Seq(T) BY <1>1, <1>2, SeqDef
<1> QED BY <1>3 DEF Channel, T

(* What is left when the first message is taken: of a handshake message    *)
(* that is there once, nothing.                                            *)
LEMMA TailMsgs ==
  ASSUME NEW s, Channel(s), s # <<>>, NEW t
  PROVE  /\ Channel(Tail(s))
         /\ Msgs(Tail(s), t) \subseteq Msgs(s, t)
         /\ Head(s).m.t # t => Msgs(Tail(s), t) = Msgs(s, t)
         /\ Head(s).m.t = t => Head(s).m \in Msgs(s, t)
         /\ Once(s) => Once(Tail(s))
         /\ Once(s) /\ Head(s).m.t = t /\ t \in Flight => Msgs(Tail(s), t) = {}
<1> DEFINE S == {s[i] : i \in DOMAIN s}
<1> DEFINE u == Tail(s)
<1>0. s \in Seq(S) /\ Len(s) \in Nat \ {0} /\ DOMAIN s = 1 .. Len(s) /\ Head(s) = s[1] BY DEF Channel
<1>1. /\ u \in Seq(S) /\ Len(u) = Len(s) - 1 /\ DOMAIN u = 1 .. Len(s) - 1
      /\ \A i \in DOMAIN u : u[i] = s[i + 1] /\ i + 1 \in DOMAIN s
  BY <1>0
<1> HIDE DEF u
<1>2. Channel(u) BY <1>1, ChannelOf
<1>3. Msgs(u, t) \subseteq Msgs(s, t) BY <1>1 DEF Msgs
<1>4. ASSUME Head(s).m.t # t PROVE Msgs(s, t) \subseteq Msgs(u, t)
  <2> SUFFICES ASSUME NEW i \in DOMAIN s, s[i].m.t = t PROVE s[i].m \in Msgs(u, t) BY DEF Msgs
  <2>1. i # 1 BY <1>4, <1>0
  <2>2. i - 1 \in DOMAIN u /\ (i - 1) + 1 = i BY <2>1, <1>0, <1>1
  <2>3. u[i - 1] = s[i] BY <2>2, <1>1
  <2> QED BY <1>4, <2>2, <2>3 DEF Msgs
<1>5. Head(s).m.t = t => Head(s).m \in Msgs(s, t) BY <1>0 DEF Msgs
<1>6. Once(s) => Once(u)
  <2> SUFFICES ASSUME Once(s), NEW i \in DOMAIN u, NEW j \in DOMAIN u,
                      u[i].m.t \in Flight, u[i].m.t = u[j].m.t PROVE i = j BY DEF Once
  <2>1. i + 1 = j + 1 BY <1>1 DEF Once
  <2> QED BY <2>1, <1>1, <1>0
<1>7. ASSUME Once(s), Head(s).m.t = t, t \in Flight PROVE Msgs(u, t) = {}
  <2> SUFFICES ASSUME NEW i \in DOMAIN u, u[i].m.t = t PROVE FALSE BY DEF Msgs
  <2>0. 1 \in DOMAIN s /\ i + 1 \in DOMAIN s /\ s[i + 1].m.t = s[1].m.t BY <1>0, <1>1, <1>7
  <2>1. i + 1 = 1 BY <2>0, <1>0, <1>7 DEF Once
  <2> QED BY <2>1, <1>1, <1>0
<1> QED BY <1>2, <1>3, <1>4, <1>5, <1>6, <1>7 DEF u

(* What is there when a record is added.                                   *)
LEMMA AppendMsgs ==
  ASSUME NEW s, Channel(s), NEW r, NEW t
  PROVE  /\ Channel(Append(s, r))
         /\ Msgs(Append(s, r), t) = Msgs(s, t) \union (IF r.m.t = t THEN {r.m} ELSE {})
         /\ Once(s) /\ (r.m.t \in Flight => Msgs(s, r.m.t) = {}) => Once(Append(s, r))
<1> DEFINE S == {s[i] : i \in DOMAIN s} \union {r}
<1> DEFINE u == Append(s, r)
<1>0. s \in Seq(S) /\ Len(s) \in Nat /\ DOMAIN s = 1 .. Len(s) BY DEF Channel
<1>1. /\ u \in Seq(S) /\ Len(u) = Len(s) + 1 /\ DOMAIN u = 1 .. Len(s) + 1
      /\ \A i \in DOMAIN s : u[i] = s[i] /\ i \in DOMAIN u
      /\ u[Len(s) + 1] = r
  BY <1>0
<1> HIDE DEF u
<1>2. Channel(u) BY <1>1, ChannelOf
<1>3. \A i \in DOMAIN u : i \in DOMAIN s \/ i = Len(s) + 1 BY <1>0, <1>1
<1>4. Len(s) + 1 \in DOMAIN u /\ Len(s) + 1 \notin DOMAIN s BY <1>0, <1>1
<1>5. Msgs(u, t) = Msgs(s, t) \union (IF r.m.t = t THEN {r.m} ELSE {})
  <2>1. Msgs(u, t) \subseteq Msgs(s, t) \union (IF r.m.t = t THEN {r.m} ELSE {}) BY <1>1, <1>3 DEF Msgs
  <2>2. Msgs(s, t) \subseteq Msgs(u, t) BY <1>1 DEF Msgs
  <2>3. r.m.t = t => r.m \in Msgs(u, t) BY <1>1, <1>4 DEF Msgs
  <2> QED BY <2>1, <2>2, <2>3
<1>6. ASSUME Once(s), r.m.t \in Flight => Msgs(s, r.m.t) = {} PROVE Once(u)
  <2> SUFFICES ASSUME NEW i \in DOMAIN u, NEW j \in DOMAIN u,
                      u[i].m.t \in Flight, u[i].m.t = u[j].m.t PROVE i = j BY DEF Once
  <2>1. CASE i \in DOMAIN s /\ j \in DOMAIN s BY <2>1, <1>1, <1>6 DEF Once
  <2>2. CASE i \in DOMAIN s /\ j = Len(s) + 1
    <3>1. s[i].m \in Msgs(s, r.m.t) BY <2>2, <1>1 DEF Msgs
    <3> QED BY <3>1, <1>6, <1>1, <2>2
  <2>3. CASE j \in DOMAIN s /\ i = Len(s) + 1
    <3>1. s[j].m \in Msgs(s, r.m.t) BY <2>3, <1>1 DEF Msgs
    <3> QED BY <3>1, <1>6, <1>1, <2>3
  <2> QED BY <2>1, <2>2, <2>3, <1>3
<1> QED BY <1>2, <1>5, <1>6 DEF u

(* A flight of one message adds one record.                                *)
LEMMA SentOne ==
  ASSUME NEW s, Channel(s), NEW e, NEW a
  PROVE  s \o Sent(e, <<a>>) = Append(s, [v |-> e.vout, m |-> a])
<1> DEFINE ra == [v |-> e.vout, m |-> a]
<1> DEFINE S == {s[i] : i \in DOMAIN s} \union {ra}
<1>1. s \in Seq(S) BY DEF Channel
<1>2. Sent(e, <<a>>) = <<ra>> BY DEF Sent
<1> HIDE DEF ra
<1>3. <<ra>> \in Seq(S) OBVIOUS
<1> HIDE DEF S
<1>4. s \o <<ra>> = Append(s, ra) BY <1>1, <1>3
<1> QED BY <1>2, <1>4 DEF ra

(* A flight of two messages adds two records.                              *)
LEMMA SentTwo ==
  ASSUME NEW s, Channel(s), NEW e, NEW a, NEW b
  PROVE  s \o Sent(e, <<a, b>>) = Append(Append(s, [v |-> e.vout, m |-> a]), [v |-> e.vout, m |-> b])
<1> DEFINE ra == [v |-> e.vout, m |-> a]
<1> DEFINE rb == [v |-> e.vout, m |-> b]
<1> DEFINE S == {s[i] : i \in DOMAIN s} \union {ra, rb}
<1>1. s \in Seq(S) BY DEF Channel
<1>2. Sent(e, <<a, b>>) = <<ra, rb>> BY DEF Sent
<1> HIDE DEF ra, rb
<1>3. <<ra, rb>> \in Seq(S) OBVIOUS
<1> HIDE DEF S
<1>4. s \o <<ra, rb>> = Append(Append(s, ra), rb) BY <1>1, <1>3
<1> QED BY <1>2, <1>4 DEF ra, rb

-----------------------------------------------------------------------------
(* The cache.                                                              *)

(* Saving a session keeps the list one of known sessions (Saved, in        *)
(* lru_save).                                                              *)
LEMMA SavedKnown ==
  ASSUME NEW s, NEW suites, Known(s, suites), NEW id, NEW par, id # 0, par.ver \in Int,
         id \notin OtherIds => par.secret = id /\ par.suite \in suites
  PROVE  Known(Cache!Saved(s, [id |-> id, par |-> par]), suites)
<1> DEFINE new == [id |-> id, par |-> par]
<1> DEFINE n == IF Len(s) < CacheSize THEN Len(s) + 1 ELSE CacheSize
<1> DEFINE u == [j \in 1 .. n |-> IF j = 1 THEN new ELSE s[j - 1]]
<1>0. CASE Cache!Saved(s, new) = s BY <1>0
<1>1. CASE Cache!Saved(s, new) = u
  <2>0. Len(s) \in Nat /\ DOMAIN s = 1 .. Len(s) BY DEF Known, Channel
  <2>1. n \in Nat /\ n <= Len(s) + 1 BY <2>0, HandshakeAssumption
  <2>2. \A j \in 1 .. n : u[j] = new \/ \E i \in DOMAIN s : u[j] = s[i]
    <3> SUFFICES ASSUME NEW j \in 1 .. n, j # 1 PROVE j - 1 \in DOMAIN s OBVIOUS
    <3> QED BY <2>0, <2>1
  <2>3. DOMAIN u = 1 .. n OBVIOUS
  <2>4. Channel(u)
    <3> DEFINE S == {new} \union {s[i] : i \in DOMAIN s}
    <3>1. \A j \in 1 .. n : u[j] \in S BY <2>2
    <3>2. u \in [1 .. n -> S] BY <3>1
    <3> HIDE DEF u, n, S
    <3>3. u \in Seq(S) BY <3>2, <2>1, SeqDef
    <3> QED BY <3>3, ChannelOf
  <2> HIDE DEF u, n
  <2>5. new.id = id /\ new.par = par OBVIOUS
  <2> HIDE DEF new
  <2>6. \A j \in DOMAIN u :
          /\ u[j].id # 0 /\ u[j].par.ver \in Int
          /\ u[j].id \notin OtherIds => u[j].par.secret = u[j].id /\ u[j].par.suite \in suites
    BY <2>2, <2>3, <2>5 DEF Known
  <2>7. Known(u, suites) BY <2>4, <2>6 DEF Known
  <2> QED BY <1>1, <2>7 DEF new
<1> QED BY <1>0, <1>1 DEF Cache!Saved

(* Nor does moving an entry to the front (ToFront, in lru_load).           *)
LEMMA ToFrontKnown ==
  ASSUME NEW s, NEW suites, Known(s, suites), NEW i \in DOMAIN s
  PROVE  Known(Cache!ToFront(s, i), suites)
<1> DEFINE u == Cache!ToFront(s, i)
<1>0. Len(s) \in Nat /\ DOMAIN s = 1 .. Len(s) BY DEF Known, Channel
<1>1. u = [j \in DOMAIN s |-> IF j = 1 THEN s[i] ELSE IF j <= i THEN s[j - 1] ELSE s[j]]
  BY DEF Cache!ToFront
<1> HIDE DEF u
<1>2. \A j \in DOMAIN s : \E k \in DOMAIN s : u[j] = s[k]
  <2> SUFFICES ASSUME NEW j \in DOMAIN s PROVE \E k \in DOMAIN s : u[j] = s[k] OBVIOUS
  <2>1. CASE j = 1 BY <2>1, <1>1
  <2>2. CASE j # 1 /\ j <= i
    <3>1. j - 1 \in DOMAIN s BY <2>2, <1>0
    <3> QED BY <3>1, <2>2, <1>1
  <2>3. CASE j # 1 /\ ~(j <= i) BY <2>3, <1>1
  <2> QED BY <2>1, <2>2, <2>3
<1>3. DOMAIN u = DOMAIN s BY <1>1
<1>4. Channel(u)
  <2> DEFINE S == {s[k] : k \in DOMAIN s}
  <2>1. u \in [1 .. Len(s) -> S] BY <1>0, <1>1, <1>2
  <2>2. u \in Seq(S) BY <2>1, <1>0, SeqDef
  <2> QED BY <2>2, ChannelOf
<1>5. Known(u, suites) BY <1>2, <1>3, <1>4 DEF Known
<1> QED BY <1>5 DEF u

(* A load changes no entry, and what it finds has an ID and a version      *)
(* (LoadHit, LoadMiss).                                                    *)
LEMMA LoadKnown ==
  ASSUME NEW suites, Known(sessions, suites), NEW id, Cache!LoadHit(id) \/ Cache!LoadMiss(id)
  PROVE  /\ Known(sessions', suites)
         /\ loaded'.found => id # 0 /\ loaded'.par.ver \in Int
<1>1. CASE Cache!LoadHit(id)
  <2>1. PICK i \in Cache!Live(sessions, id) :
           sessions' = Cache!ToFront(sessions, i) /\ loaded' = Cache!Found(sessions[i].par)
    BY <1>1 DEF Cache!LoadHit
  <2>2. i \in DOMAIN sessions /\ sessions[i].id = id BY DEF Cache!Live
  <2>3. Known(sessions', suites) BY <2>1, <2>2, ToFrontKnown
  <2>4. loaded'.par = sessions[i].par BY <2>1 DEF Cache!Found
  <2> QED BY <2>2, <2>3, <2>4 DEF Known
<1>2. CASE Cache!LoadMiss(id)
  <2>1. sessions' = sessions /\ ~loaded'.found BY <1>2 DEF Cache!LoadMiss, Cache!None
  <2> QED BY <2>1
<1> QED BY <1>1, <1>2

-----------------------------------------------------------------------------
(* Contexts: what each of the operators that change one leaves alone.      *)

(* A failure changes the place in the program and the error.               *)
LEMMA FailedContext ==
  ASSUME NEW e, IsContext(e), NEW code, NEW m
  PROVE  /\ IsContext(Failed(e, code, m)) /\ Failed(e, code, m).pc = "failed"
         /\ \A f \in Fields \ {"pc", "err"} : Failed(e, code, m)[f] = e[f]
BY DEF IsContext, Failed, Fields

(* Hashing a message changes the hash only.                                *)
LEMMA HashedContext ==
  ASSUME NEW e, IsContext(e), NEW m
  PROVE  /\ IsContext(Hashed(e, m))
         /\ \A f \in Fields \ {"hash"} : Hashed(e, m)[f] = e[f]
BY DEF IsContext, Hashed, Fields

(* compute-Finished changes the hash and one of the two saved values.      *)
LEMMA WriteFinishedContext ==
  ASSUME NEW e, IsContext(e), NEW who \in {"client", "server"}
  PROVE  /\ IsContext(WriteFinished(e, who))
         /\ \A f \in Fields \ {"hash", "saved"} : WriteFinished(e, who)[f] = e[f]
         /\ WriteFinished(e, who).saved[who] = Finished(e, who)
         /\ \A w \in {"client", "server"} \ {who} : WriteFinished(e, who).saved[w] = e.saved[w]
<1> DEFINE d == [e EXCEPT !.saved[who] = Finished(e, who)]
<1>1. /\ IsContext(d) /\ \A f \in Fields \ {"saved"} : d[f] = e[f]
      /\ d.saved[who] = Finished(e, who)
      /\ \A w \in {"client", "server"} \ {who} : d.saved[w] = e.saved[w]
  BY DEF IsContext, Fields
<1> HIDE DEF d
<1>2. WriteFinished(e, who) = Hashed(d, Finished(e, who)) BY DEF WriteFinished, d
<1> QED BY <1>1, <1>2, HashedContext DEF Fields

(* A Finished holds the secret it was computed from.                       *)
LEMMA FinishedParts ==
  ASSUME NEW e, NEW who
  PROVE  Finished(e, who).t = "Finished" /\ Finished(e, who).secret = e.secret
BY DEF Finished

(* A context as br_ssl_server_init_* leaves it.                            *)
LEMMA StartingContext ==
  ASSUME NEW f
  PROVE  /\ IsContext(Context(f)) /\ Context(f).pc = "closed" /\ Context(f).config = f
         /\ Context(f).resumed = FALSE /\ Context(f).reneg = 0 /\ Context(f).id = 0
BY DEF IsContext, Context, Fields, NoSaved

-----------------------------------------------------------------------------
(* Steps that do little.                                                   *)

(* The names used below are fields.                                        *)
LEMMA FieldNames ==
  /\ \A f \in {"config", "ver", "suite", "id", "secret", "resumed", "reneg", "vin", "vout"} :
       f \in Fields \ {"hash", "pc", "saved", "err"}
  /\ "saved" \in Fields \ {"hash", "pc", "err"} /\ "pc" \in Fields \ {"hash", "saved"}
BY DEF Fields

(* A step that neither adds nor takes a handshake message, and changes no  *)
(* context but for its hash, or for a server that asks for a               *)
(* renegotiation.                                                          *)
LEMMA Calm ==
  ASSUME Inv, client.pc # "closed", UNCHANGED <<started, sessions>>,
         CH' = CH, CK' = CK, CF' = CF, SH' = SH, SD' = SD, SF' = SF,
         Channel(toServer)', Channel(toClient)',
         Once(toServer) => Once(toServer)', Once(toClient) => Once(toClient)',
         IsContext(client'), \A f \in Fields \ {"hash"} : client'[f] = client[f],
         IsContext(server'), \A f \in Fields \ {"hash", "pc"} : server'[f] = server[f],
         server'.pc = server.pc \/ (server.pc = "app" /\ server'.pc = "asked")
  PROVE  Inv'
<1>1. /\ client'.pc = client.pc /\ client'.config = client.config /\ client'.ver = client.ver
      /\ client'.suite = client.suite /\ client'.id = client.id /\ client'.secret = client.secret
      /\ client'.resumed = client.resumed /\ client'.reneg = client.reneg
      /\ client'.saved = client.saved /\ client'.vin = client.vin /\ client'.vout = client.vout
  BY FieldNames
<1>2. /\ server'.config = server.config /\ server'.ver = server.ver
      /\ server'.suite = server.suite /\ server'.id = server.id /\ server'.secret = server.secret
      /\ server'.resumed = server.resumed /\ server'.reneg = server.reneg
      /\ server'.saved = server.saved /\ server'.vin = server.vin /\ server'.vout = server.vout
  BY FieldNames
<1>3. ClientAlone' BY <1>1 DEF Inv, ClientAlone
<1>4. ServerAlone' BY <1>1, <1>2 DEF Inv, ServerAlone
<1>5. Wire' BY DEF Inv, Wire
<1>6. CacheSound' BY <1>2 DEF Inv, CacheSound
<1>7. KeyKnown' BY <1>2 DEF Inv, KeyKnown
<1>8. ASSUME server'.pc # "failed", client'.pc # "failed", Joint PROVE
      /\ (Once(toServer) /\ Once(toClient))'
      /\ (client.pc = "hello" => AtHello)'
      /\ (client.pc = "done" => AtDone)'
      /\ (client.pc = "finished" => AtFinished)'
      /\ (client.pc = "app" => AtApp)'
  <2>0. server.pc # "failed" /\ client.pc # "failed" BY <1>8, <1>1
  <2>1. (Once(toServer) /\ Once(toClient))' BY <2>0, <1>8 DEF Joint
  <2>2. (client.pc = "hello" => AtHello)'
    BY <2>0, <1>8, <1>1, <1>2 DEF Joint, AtHello, Offered, NothingForClient
  <2>3. (client.pc = "done" => AtDone)'
    BY <2>0, <1>8, <1>1, <1>2 DEF Joint, AtDone, Same, Named
  <2>4. (client.pc = "finished" => AtFinished)'
    BY <2>0, <1>8, <1>1, <1>2 DEF Joint, AtFinished, Same, Named
  <2>5. (client.pc = "app" => AtApp)'
    BY <2>0, <1>8, <1>1, <1>2 DEF Joint, AtApp, Same, Named, NothingForClient
  <2> QED BY <2>1, <2>2, <2>3, <2>4, <2>5
<1> QED BY <1>3, <1>4, <1>5, <1>6, <1>7, <1>8 DEF Inv, Joint

(* A client that fails keeps the invariant.                                *)
LEMMA ClientGivesUp ==
  ASSUME Inv, client.pc # "closed", UNCHANGED <<server, started, sessions>>,
         CH' \subseteq CH, CK' \subseteq CK, SH' \subseteq SH, Channel(toServer)', Channel(toClient)',
         IsContext(client'), client'.pc = "failed",
         client'.config = client.config, client'.id = client.id
  PROVE  Inv'
<1>1. ClientAlone' BY DEF Inv, ClientAlone
<1>2. ServerAlone' BY DEF Inv, ServerAlone
<1>3. Wire' BY DEF Inv, Wire
<1>4. CacheSound' BY DEF Inv, CacheSound
<1>5. KeyKnown' BY DEF Inv, KeyKnown
<1>6. Joint' BY DEF Joint
<1> QED BY <1>1, <1>2, <1>3, <1>4, <1>5, <1>6 DEF Inv

(* A server that fails keeps the invariant.                                *)
LEMMA ServerGivesUp ==
  ASSUME Inv, client.pc # "closed", UNCHANGED <<client, started>>,
         CH' \subseteq CH, SH' \subseteq SH, Channel(toServer)', Channel(toClient)',
         IsContext(server'), server'.pc = "failed", server'.config = server.config,
         server'.resumed = server.resumed, server'.reneg \in 0 .. 2,
         Known(sessions', server.config.suites)
  PROVE  Inv'
<1>1. ClientAlone' BY DEF Inv, ClientAlone
<1>2. ServerAlone' BY DEF Inv, ServerAlone
<1>3. Wire' BY DEF Inv, Wire
<1>4. CacheSound' BY DEF Inv, CacheSound
<1>5. KeyKnown' BY DEF KeyKnown
<1>6. Joint' BY DEF Joint
<1> QED BY <1>1, <1>2, <1>3, <1>4, <1>5, <1>6 DEF Inv

-----------------------------------------------------------------------------
(* Taking messages and adding them.                                        *)

(* What is on its way when the client takes the first message.             *)
LEMMA ClientTakes ==
  ASSUME Channel(toClient), toClient # <<>>, toClient' = Tail(toClient)
  PROVE  /\ Channel(toClient)' /\ (Once(toClient) => Once(toClient)')
         /\ SH' \subseteq SH /\ SD' \subseteq SD /\ SF' \subseteq SF
         /\ Head(toClient).m.t # "ServerHello" => SH' = SH
         /\ Head(toClient).m.t # "ServerDone" => SD' = SD
         /\ Head(toClient).m.t # "Finished" => SF' = SF
         /\ Head(toClient).m.t = "ServerHello" => Head(toClient).m \in SH /\ (Once(toClient) => SH' = {})
         /\ Head(toClient).m.t = "ServerDone" => (Once(toClient) => SD' = {})
         /\ Head(toClient).m.t = "Finished" => Head(toClient).m \in SF /\ (Once(toClient) => SF' = {})
<1>1. Msgs(toClient, "ServerHello")' = Msgs(Tail(toClient), "ServerHello") OBVIOUS
<1>2. Msgs(toClient, "ServerDone")' = Msgs(Tail(toClient), "ServerDone") OBVIOUS
<1>3. Msgs(toClient, "Finished")' = Msgs(Tail(toClient), "Finished") OBVIOUS
<1>4. Channel(toClient)' /\ (Once(toClient) => Once(toClient)')
  <2>1. Channel(Tail(toClient)) /\ (Once(toClient) => Once(Tail(toClient))) BY TailMsgs
  <2> QED BY <2>1
<1>5. {"ServerHello", "ServerDone", "Finished"} \subseteq Flight BY DEF Flight
<1>6. /\ SH' \subseteq SH
      /\ Head(toClient).m.t # "ServerHello" => SH' = SH
      /\ Head(toClient).m.t = "ServerHello" => Head(toClient).m \in SH /\ (Once(toClient) => SH' = {})
  BY <1>1, <1>5, TailMsgs DEF SH
<1>7. /\ SD' \subseteq SD
      /\ Head(toClient).m.t # "ServerDone" => SD' = SD
      /\ Head(toClient).m.t = "ServerDone" => (Once(toClient) => SD' = {})
  BY <1>2, <1>5, TailMsgs DEF SD
<1>8. /\ SF' \subseteq SF
      /\ Head(toClient).m.t # "Finished" => SF' = SF
      /\ Head(toClient).m.t = "Finished" => Head(toClient).m \in SF /\ (Once(toClient) => SF' = {})
  BY <1>3, <1>5, TailMsgs DEF SF
<1> QED BY <1>4, <1>6, <1>7, <1>8

(* What is on its way when the server takes the first message.             *)
LEMMA ServerTakes ==
  ASSUME Channel(toServer), toServer # <<>>, toServer' = Tail(toServer)
  PROVE  /\ Channel(toServer)' /\ (Once(toServer) => Once(toServer)')
         /\ CH' \subseteq CH /\ CK' \subseteq CK /\ CF' \subseteq CF
         /\ Head(toServer).m.t # "ClientHello" => CH' = CH
         /\ Head(toServer).m.t # "ClientKey" => CK' = CK
         /\ Head(toServer).m.t # "Finished" => CF' = CF
         /\ Head(toServer).m.t = "ClientHello" => Head(toServer).m \in CH /\ (Once(toServer) => CH' = {})
         /\ Head(toServer).m.t = "ClientKey" => Head(toServer).m \in CK /\ (Once(toServer) => CK' = {})
         /\ Head(toServer).m.t = "Finished" => Head(toServer).m \in CF /\ (Once(toServer) => CF' = {})
<1>1. Msgs(toServer, "ClientHello")' = Msgs(Tail(toServer), "ClientHello") OBVIOUS
<1>2. Msgs(toServer, "ClientKey")' = Msgs(Tail(toServer), "ClientKey") OBVIOUS
<1>3. Msgs(toServer, "Finished")' = Msgs(Tail(toServer), "Finished") OBVIOUS
<1>4. Channel(toServer)' /\ (Once(toServer) => Once(toServer)')
  <2>1. Channel(Tail(toServer)) /\ (Once(toServer) => Once(Tail(toServer))) BY TailMsgs
  <2> QED BY <2>1
<1>5. {"ClientHello", "ClientKey", "Finished"} \subseteq Flight BY DEF Flight
<1>6. /\ CH' \subseteq CH
      /\ Head(toServer).m.t # "ClientHello" => CH' = CH
      /\ Head(toServer).m.t = "ClientHello" => Head(toServer).m \in CH /\ (Once(toServer) => CH' = {})
  BY <1>1, <1>5, TailMsgs DEF CH
<1>7. /\ CK' \subseteq CK
      /\ Head(toServer).m.t # "ClientKey" => CK' = CK
      /\ Head(toServer).m.t = "ClientKey" => Head(toServer).m \in CK /\ (Once(toServer) => CK' = {})
  BY <1>2, <1>5, TailMsgs DEF CK
<1>8. /\ CF' \subseteq CF
      /\ Head(toServer).m.t # "Finished" => CF' = CF
      /\ Head(toServer).m.t = "Finished" => Head(toServer).m \in CF /\ (Once(toServer) => CF' = {})
  BY <1>3, <1>5, TailMsgs DEF CF
<1> QED BY <1>4, <1>6, <1>7, <1>8

(* What is on its way when the client adds a message.                      *)
LEMMA ClientPuts ==
  ASSUME Channel(toServer), NEW e, NEW a, toServer' = toServer \o Sent(e, <<a>>)
  PROVE  /\ Channel(toServer)'
         /\ Once(toServer) /\ (a.t \in Flight => Msgs(toServer, a.t) = {}) => Once(toServer)'
         /\ CH' = CH \union (IF a.t = "ClientHello" THEN {a} ELSE {})
         /\ CK' = CK \union (IF a.t = "ClientKey" THEN {a} ELSE {})
         /\ CF' = CF \union (IF a.t = "Finished" THEN {a} ELSE {})
<1> DEFINE r == [v |-> e.vout, m |-> a]
<1>1. toServer' = Append(toServer, r) BY SentOne
<1>2. r.m = a OBVIOUS
<1> HIDE DEF r
<1>3. /\ Channel(toServer)'
      /\ Once(toServer) /\ (a.t \in Flight => Msgs(toServer, a.t) = {}) => Once(toServer)'
  <2>1. /\ Channel(Append(toServer, r))
        /\ Once(toServer) /\ (a.t \in Flight => Msgs(toServer, a.t) = {}) => Once(Append(toServer, r))
    BY <1>2, AppendMsgs
  <2> QED BY <1>1, <2>1
<1>4. \A t : Msgs(toServer, t)' = Msgs(toServer, t) \union (IF a.t = t THEN {a} ELSE {})
  <2> TAKE t
  <2>1. Msgs(Append(toServer, r), t) = Msgs(toServer, t) \union (IF a.t = t THEN {a} ELSE {})
    BY <1>2, AppendMsgs
  <2> QED BY <1>1, <2>1
<1> QED BY <1>3, <1>4 DEF CH, CK, CF

(* What is on its way when the server adds a message.                      *)
LEMMA ServerPuts ==
  ASSUME Channel(toClient), NEW e, NEW a, toClient' = toClient \o Sent(e, <<a>>)
  PROVE  /\ Channel(toClient)'
         /\ Once(toClient) /\ (a.t \in Flight => Msgs(toClient, a.t) = {}) => Once(toClient)'
         /\ SH' = SH \union (IF a.t = "ServerHello" THEN {a} ELSE {})
         /\ SD' = SD \union (IF a.t = "ServerDone" THEN {a} ELSE {})
         /\ SF' = SF \union (IF a.t = "Finished" THEN {a} ELSE {})
<1> DEFINE r == [v |-> e.vout, m |-> a]
<1>1. toClient' = Append(toClient, r) BY SentOne
<1>2. r.m = a OBVIOUS
<1> HIDE DEF r
<1>3. /\ Channel(toClient)'
      /\ Once(toClient) /\ (a.t \in Flight => Msgs(toClient, a.t) = {}) => Once(toClient)'
  <2>1. /\ Channel(Append(toClient, r))
        /\ Once(toClient) /\ (a.t \in Flight => Msgs(toClient, a.t) = {}) => Once(Append(toClient, r))
    BY <1>2, AppendMsgs
  <2> QED BY <1>1, <2>1
<1>4. \A t : Msgs(toClient, t)' = Msgs(toClient, t) \union (IF a.t = t THEN {a} ELSE {})
  <2> TAKE t
  <2>1. Msgs(Append(toClient, r), t) = Msgs(toClient, t) \union (IF a.t = t THEN {a} ELSE {})
    BY <1>2, AppendMsgs
  <2> QED BY <1>1, <2>1
<1> QED BY <1>3, <1>4 DEF SH, SD, SF

(* Channels that do not change hold the same messages.                     *)
LEMMA Untouched ==
  /\ toServer' = toServer => CH' = CH /\ CK' = CK /\ CF' = CF
  /\ toClient' = toClient => SH' = SH /\ SD' = SD /\ SF' = SF
BY DEF CH, CK, CF, SH, SD, SF

(* What is there when a flight of two messages is added.                   *)
LEMMA AppendTwo ==
  ASSUME NEW s, Channel(s), NEW e, NEW a, NEW b, a.t # b.t
  PROVE  /\ Channel(s \o Sent(e, <<a, b>>))
         /\ \A t : Msgs(s \o Sent(e, <<a, b>>), t) =
                     Msgs(s, t) \union (IF a.t = t THEN {a} ELSE {}) \union (IF b.t = t THEN {b} ELSE {})
         /\ Once(s) /\ Msgs(s, a.t) = {} /\ Msgs(s, b.t) = {} => Once(s \o Sent(e, <<a, b>>))
<1> DEFINE ra == [v |-> e.vout, m |-> a]
<1> DEFINE rb == [v |-> e.vout, m |-> b]
<1> DEFINE u == Append(s, ra)
<1> DEFINE w == Append(u, rb)
<1>1. s \o Sent(e, <<a, b>>) = Append(Append(s, [v |-> e.vout, m |-> a]), [v |-> e.vout, m |-> b])
  BY SentTwo
<1>2. ra.m = a /\ rb.m = b OBVIOUS
<1>6. s \o Sent(e, <<a, b>>) = w BY <1>1
<1> HIDE DEF ra, rb
<1>3. /\ Channel(u) /\ (Once(s) /\ Msgs(s, a.t) = {} => Once(u))
      /\ \A t : Msgs(u, t) = Msgs(s, t) \union (IF a.t = t THEN {a} ELSE {})
  <2>1. \A t : Msgs(u, t) = Msgs(s, t) \union (IF a.t = t THEN {a} ELSE {}) BY <1>2, AppendMsgs
  <2>2. Channel(u) /\ (Once(s) /\ Msgs(s, a.t) = {} => Once(u)) BY <1>2, AppendMsgs
  <2> QED BY <2>1, <2>2
<1> HIDE DEF u
<1>4. /\ Channel(w) /\ (Once(u) /\ Msgs(u, b.t) = {} => Once(w))
      /\ \A t : Msgs(w, t) = Msgs(u, t) \union (IF b.t = t THEN {b} ELSE {})
  <2>1. \A t : Msgs(w, t) = Msgs(u, t) \union (IF b.t = t THEN {b} ELSE {}) BY <1>2, <1>3, AppendMsgs
  <2>2. Channel(w) /\ (Once(u) /\ Msgs(u, b.t) = {} => Once(w)) BY <1>2, <1>3, AppendMsgs
  <2> QED BY <2>1, <2>2
<1>5. Msgs(s, b.t) = {} => Msgs(u, b.t) = {} BY <1>3
<1> HIDE DEF w
<1> QED BY <1>6, <1>3, <1>4, <1>5

-----------------------------------------------------------------------------
(* One lemma for each action that neither starts a handshake nor is part   *)
(* of one.                                                                 *)

(* A HelloRequest within a handshake is hashed, and nothing else.          *)
LEMMA SkipHelloRequestKeeps == ASSUME Inv, SkipHelloRequest PROVE Inv'
<1>1. /\ toClient # <<>> /\ toClient' = Tail(toClient) /\ Head(toClient).m.t = "HelloRequest"
      /\ client.pc # "closed" /\ client' = Hashed(client, Head(toClient).m)
      /\ UNCHANGED <<toServer, server, started, sessions>>
  BY DEF SkipHelloRequest, ClientGets, ClientIs, Skip, CacheSame
<1>2. Channel(toServer) /\ Channel(toClient) /\ IsContext(client) /\ IsContext(server)
  BY DEF Inv, Wire, ClientAlone, ServerAlone
<1>3. IsContext(client') /\ \A f \in Fields \ {"hash"} : client'[f] = client[f]
  BY <1>1, <1>2, HashedContext
<1>4. /\ SH' = SH /\ SD' = SD /\ SF' = SF /\ Channel(toClient)' /\ (Once(toClient) => Once(toClient)')
  BY <1>1, <1>2, ClientTakes
<1>5. CH' = CH /\ CK' = CK /\ CF' = CF BY <1>1, Untouched
<1>6. Channel(toServer)' /\ (Once(toServer) => Once(toServer)') BY <1>1, <1>2
<1>7. /\ IsContext(server') /\ server'.pc = server.pc
      /\ \A f \in Fields \ {"hash", "pc"} : server'[f] = server[f]
  BY <1>1, <1>2
<1> QED BY <1>1, <1>3, <1>4, <1>5, <1>6, <1>7, Calm

(* A server that asks for a renegotiation sends a HelloRequest.            *)
LEMMA ServerRenegotiatesKeeps == ASSUME Inv, ServerRenegotiates PROVE Inv'
<1> DEFINE ask == [t |-> "HelloRequest"]
<1>1. /\ server.pc = "app" /\ server' = [server EXCEPT !.pc = "asked"]
      /\ toClient' = toClient \o Sent([server EXCEPT !.pc = "asked"], <<ask>>)
      /\ UNCHANGED <<client, toServer, started, sessions>>
  BY DEF ServerRenegotiates, MayRenegotiate, ServerAnswers, CacheSame
<1>2. Channel(toServer) /\ Channel(toClient) /\ IsContext(client) /\ IsContext(server)
  BY DEF Inv, Wire, ClientAlone, ServerAlone
<1>3. /\ IsContext(server') /\ server'.pc = "asked"
      /\ \A f \in Fields \ {"hash", "pc"} : server'[f] = server[f]
  BY <1>1, <1>2 DEF IsContext, Fields
<1>4. ask.t = "HelloRequest" OBVIOUS
<1> HIDE DEF ask
<1>5. /\ SH' = SH /\ SD' = SD /\ SF' = SF /\ Channel(toClient)' /\ (Once(toClient) => Once(toClient)')
  BY <1>1, <1>2, <1>4, ServerPuts DEF Flight
<1>6. CH' = CH /\ CK' = CK /\ CF' = CF BY <1>1, Untouched
<1>7. Channel(toServer)' /\ (Once(toServer) => Once(toServer)') BY <1>1, <1>2
<1>8. IsContext(client') /\ client' = client BY <1>1, <1>2
<1>9. client.pc # "closed" BY <1>1 DEF Inv, ServerAlone
<1> QED BY <1>1, <1>3, <1>4, <1>5, <1>6, <1>7, <1>8, <1>9, Calm

(* Application data is no message of a handshake.                          *)
LEMMA SendDataKeeps == ASSUME Inv, SendData PROVE Inv'
<1>0. UNCHANGED <<client, server, started, sessions>>
  BY DEF SendData, ClientAnswers, ServerAnswers, CacheSame
<1>1. Channel(toServer) /\ Channel(toClient) /\ IsContext(client) /\ IsContext(server)
  BY DEF Inv, Wire, ClientAlone, ServerAlone
<1>2. Data.t = "Data" BY DEF Data
<1>3. /\ IsContext(client') /\ \A f \in Fields \ {"hash"} : client'[f] = client[f]
      /\ IsContext(server') /\ \A f \in Fields \ {"hash", "pc"} : server'[f] = server[f]
      /\ server'.pc = server.pc
  BY <1>0, <1>1
<1>4. CASE client.pc = "app" /\ ClientAnswers(client, <<Data>>) /\ UNCHANGED toClient
  <2>1. toServer' = toServer \o Sent(client, <<Data>>) BY <1>4 DEF ClientAnswers
  <2>2. /\ Channel(toServer)' /\ (Once(toServer) => Once(toServer)')
        /\ CH' = CH /\ CK' = CK /\ CF' = CF
    BY <2>1, <1>1, <1>2, ClientPuts DEF Flight
  <2>3. /\ Channel(toClient)' /\ (Once(toClient) => Once(toClient)')
        /\ SH' = SH /\ SD' = SD /\ SF' = SF
    BY <1>4, <1>1, Untouched
  <2> QED BY <1>4, <1>0, <1>3, <2>2, <2>3, Calm
<1>5. CASE server.pc = "app" /\ ServerAnswers(server, <<Data>>) /\ UNCHANGED toServer
  <2>1. toClient' = toClient \o Sent(server, <<Data>>) BY <1>5 DEF ServerAnswers
  <2>2. /\ Channel(toClient)' /\ (Once(toClient) => Once(toClient)')
        /\ SH' = SH /\ SD' = SD /\ SF' = SF
    BY <2>1, <1>1, <1>2, ServerPuts DEF Flight
  <2>3. /\ Channel(toServer)' /\ (Once(toServer) => Once(toServer)')
        /\ CH' = CH /\ CK' = CK /\ CF' = CF
    BY <1>5, <1>1, Untouched
  <2>4. client.pc # "closed" BY <1>5 DEF Inv, ServerAlone
  <2> QED BY <1>5, <1>0, <1>3, <2>2, <2>3, <2>4, Calm
<1> QED BY <1>4, <1>5 DEF SendData

(* Nor when it is read.                                                    *)
LEMMA ReadDataKeeps == ASSUME Inv, ReadData PROVE Inv'
<1>0. UNCHANGED <<client, server, started, sessions>> BY DEF ReadData, CacheSame
<1>1. Channel(toServer) /\ Channel(toClient) /\ IsContext(client) /\ IsContext(server)
  BY DEF Inv, Wire, ClientAlone, ServerAlone
<1>3. /\ IsContext(client') /\ \A f \in Fields \ {"hash"} : client'[f] = client[f]
      /\ IsContext(server') /\ \A f \in Fields \ {"hash", "pc"} : server'[f] = server[f]
      /\ server'.pc = server.pc
  BY <1>0, <1>1
<1>4. CASE ClientGets({"app"}, "Data") /\ UNCHANGED toServer
  <2>1. /\ client.pc = "app" /\ toClient # <<>> /\ Head(toClient).m.t = "Data"
        /\ toClient' = Tail(toClient)
    BY <1>4 DEF ClientGets
  <2>2. /\ Channel(toClient)' /\ (Once(toClient) => Once(toClient)')
        /\ SH' = SH /\ SD' = SD /\ SF' = SF
    BY <2>1, <1>1, ClientTakes
  <2>3. /\ Channel(toServer)' /\ (Once(toServer) => Once(toServer)')
        /\ CH' = CH /\ CK' = CK /\ CF' = CF
    BY <1>4, <1>1, Untouched
  <2> QED BY <2>1, <1>0, <1>3, <2>2, <2>3, Calm
<1>5. CASE ServerGets({"app"}, "Data") /\ UNCHANGED toClient
  <2>1. /\ server.pc = "app" /\ toServer # <<>> /\ Head(toServer).m.t = "Data"
        /\ toServer' = Tail(toServer)
    BY <1>5 DEF ServerGets
  <2>2. /\ Channel(toServer)' /\ (Once(toServer) => Once(toServer)')
        /\ CH' = CH /\ CK' = CK /\ CF' = CF
    BY <2>1, <1>1, ServerTakes
  <2>3. /\ Channel(toClient)' /\ (Once(toClient) => Once(toClient)')
        /\ SH' = SH /\ SD' = SD /\ SF' = SF
    BY <1>5, <1>1, Untouched
  <2>4. client.pc # "closed" BY <2>1 DEF Inv, ServerAlone
  <2> QED BY <1>0, <1>3, <2>2, <2>3, <2>4, Calm
<1> QED BY <1>4, <1>5 DEF ReadData

(* The client fails on what it does not expect.                            *)
LEMMA ClientFailsKeeps == ASSUME Inv, ClientFails PROVE Inv'
<1>1. PICK code, m : client' = Failed(client, code, m) BY DEF ClientFails, ClientIs
<1>2. /\ client.pc # "closed" /\ toClient # <<>> /\ toClient' = Tail(toClient)
      /\ UNCHANGED <<toServer, server, started, sessions>>
  BY DEF ClientFails, ClientIs, CacheSame, Waiting
<1>3. Channel(toServer) /\ Channel(toClient) /\ IsContext(client) BY DEF Inv, Wire, ClientAlone
<1>4. Channel(toClient)' /\ SH' \subseteq SH BY <1>2, <1>3, ClientTakes
<1>5. Channel(toServer)' /\ CH' = CH /\ CK' = CK BY <1>2, <1>3, Untouched
<1>6. /\ IsContext(client') /\ client'.pc = "failed"
      /\ client'.config = client.config /\ client'.id = client.id
  BY <1>1, <1>3, FailedContext DEF Fields
<1> QED BY <1>2, <1>4, <1>5, <1>6, ClientGivesUp

(* The server fails on what it does not expect.                            *)
LEMMA ServerFailsKeeps == ASSUME Inv, ServerFails PROVE Inv'
<1>1. PICK code, m : server' = Failed(server, code, m) BY DEF ServerFails, ServerIs
<1>2. /\ server.pc # "closed" /\ toServer # <<>> /\ toServer' = Tail(toServer)
      /\ UNCHANGED <<toClient, client, started, sessions>>
  BY DEF ServerFails, ServerIs, CacheSame, Waiting
<1>3. Channel(toServer) /\ Channel(toClient) /\ IsContext(server) /\ server.reneg \in 0 .. 2
  BY DEF Inv, Wire, ServerAlone
<1>4. Channel(toServer)' /\ CH' \subseteq CH BY <1>2, <1>3, ServerTakes
<1>5. Channel(toClient)' /\ SH' = SH BY <1>2, <1>3, Untouched
<1>6. /\ IsContext(server') /\ server'.pc = "failed" /\ server'.config = server.config
      /\ server'.resumed = server.resumed /\ server'.reneg = server.reneg
  BY <1>1, <1>3, FailedContext DEF Fields
<1>7. client.pc # "closed" BY <1>2 DEF Inv, ServerAlone
<1>8. Known(sessions', server.config.suites) BY <1>2 DEF Inv, CacheSound
<1> QED BY <1>2, <1>3, <1>4, <1>5, <1>6, <1>7, <1>8, ServerGivesUp

(* A lost connection leaves nothing on its way; the cache and the client's *)
(* session stay.                                                           *)
LEMMA LostKeeps == ASSUME Inv, Lost PROVE Inv'
<1>1. /\ client' = [client EXCEPT !.pc = "closed"] /\ server' = [server EXCEPT !.pc = "closed"]
      /\ toServer' = <<>> /\ toClient' = <<>> /\ UNCHANGED <<started, sessions>>
  BY DEF Lost, CacheSame
<1>2. IsContext(client) /\ IsContext(server) BY DEF Inv, ClientAlone, ServerAlone
<1>3. /\ IsContext(client') /\ client'.pc = "closed"
      /\ \A f \in Fields \ {"pc"} : client'[f] = client[f]
  BY <1>1, <1>2 DEF IsContext, Fields
<1>4. /\ IsContext(server') /\ server'.pc = "closed"
      /\ \A f \in Fields \ {"pc"} : server'[f] = server[f]
  BY <1>1, <1>2 DEF IsContext, Fields
<1>5. client'.config = client.config /\ client'.id = client.id BY <1>3 DEF Fields
<1>6. /\ server'.config = server.config /\ server'.resumed = server.resumed
      /\ server'.reneg = server.reneg
  BY <1>4 DEF Fields
<1>7. /\ CH' = {} /\ CK' = {} /\ SH' = {} /\ Channel(toServer)' /\ Channel(toClient)'
  BY <1>1, EmptyChannel DEF CH, CK, SH
<1>8. ClientAlone' BY <1>1, <1>3, <1>5 DEF Inv, ClientAlone
<1>9. ServerAlone' BY <1>1, <1>3, <1>4, <1>6 DEF Inv, ServerAlone
<1>10. Wire' BY <1>1, <1>7 DEF Inv, Wire
<1>11. CacheSound' BY <1>1, <1>6 DEF Inv, CacheSound
<1>12. KeyKnown' BY <1>4, <1>7 DEF KeyKnown
<1>13. Joint'
  <2>1. (Once(toServer) /\ Once(toClient))' BY <1>1, EmptyChannel
  <2> QED BY <2>1, <1>3 DEF Joint
<1> QED BY <1>8, <1>9, <1>10, <1>11, <1>12, <1>13 DEF Inv

(* The server is set up once, before it has saved anything.                *)
LEMMA SetUpServerKeeps == ASSUME Inv, NEW f \in ServerConfigs, SetUpServer(f) PROVE Inv'
<1>1. /\ server.config = NoConfig /\ server' = Context(f)
      /\ UNCHANGED <<client, toServer, toClient, started, sessions>>
  BY DEF SetUpServer, CacheSame
<1>2. client.pc = "closed" BY <1>1 DEF Inv, ServerAlone
<1>3. /\ IsContext(server') /\ server'.pc = "closed" /\ server'.config = f
      /\ server'.resumed = FALSE /\ server'.reneg = 0
  BY <1>1, StartingContext
<1>4. /\ CH' = CH /\ CK' = CK /\ SH' = SH BY <1>1, Untouched
<1>5. ClientAlone' BY <1>1 DEF Inv, ClientAlone
<1>6. ServerAlone'
  <2>0. server'.resumed \in BOOLEAN BY <1>3, Zenon
  <2>1. server'.reneg \in 0 .. 2 BY <1>3
  <2>2. client'.pc = "closed" /\ server'.config \in ServerConfigs \union {NoConfig} BY <1>1, <1>2, <1>3
  <2> QED BY <1>3, <2>0, <2>1, <2>2 DEF ServerAlone
<1>7. Wire' BY <1>1, <1>4 DEF Inv, Wire
<1>8. CacheSound'
  <2>1. server.config.suites = {} BY <1>1 DEF NoConfig
  <2> QED BY <1>1, <2>1 DEF Inv, CacheSound, Known
<1>9. toServer = <<>> /\ toClient = <<>> BY <1>2 DEF Inv, ClientAlone
<1>10. CK' = {} BY <1>9, <1>4, EmptyChannel DEF CK
<1>11. KeyKnown' BY <1>3, <1>10 DEF KeyKnown
<1>12. Joint'
  <2>1. (Once(toServer) /\ Once(toClient))' BY <1>1, <1>9, EmptyChannel
  <2> QED BY <2>1, <1>1, <1>2 DEF Joint
<1> QED BY <1>5, <1>6, <1>7, <1>8, <1>11, <1>12 DEF Inv

(* A session of another client has an ID of its own.                       *)
LEMMA OtherClientKeeps == ASSUME Inv, NEW id \in OtherIds, OtherClient(id) PROVE Inv'
<1> DEFINE par == [ver |-> TLS12, suite |-> "other", secret |-> id]
<1>1. /\ sessions' = Cache!Saved(sessions, [id |-> id, par |-> par])
      /\ UNCHANGED <<client, server, toServer, toClient, started>>
  BY DEF OtherClient, Cache!Save
<1>2. id # 0 BY HandshakeAssumption
<1>3. par.ver \in Int BY DEF TLS12
<1> HIDE DEF par
<1>4. Known(sessions', server.config.suites)
  BY <1>1, <1>2, <1>3, SavedKnown DEF Inv, CacheSound
<1>5. CacheSound' BY <1>1, <1>4 DEF CacheSound
<1>6. /\ CH' = CH /\ CK' = CK /\ CF' = CF /\ SH' = SH /\ SD' = SD /\ SF' = SF BY <1>1, Untouched
<1>7. ClientAlone' BY <1>1 DEF Inv, ClientAlone
<1>8. ServerAlone' BY <1>1 DEF Inv, ServerAlone
<1>9. Wire' BY <1>1, <1>6 DEF Inv, Wire
<1>10. KeyKnown' BY <1>1, <1>6 DEF Inv, KeyKnown
<1>11. Joint'
  BY <1>1, <1>6 DEF Inv, Joint, AtHello, AtDone, AtFinished, AtApp, Same, Offered, NothingForClient
<1> QED BY <1>5, <1>7, <1>8, <1>9, <1>10, <1>11 DEF Inv

-----------------------------------------------------------------------------
(* A handshake starts.                                                     *)

(* What a ClientHello says.                                                *)
LEMMA HelloParts ==
  ASSUME NEW e
  PROVE  /\ ClientHello(e).t = "ClientHello" /\ ClientHello(e).id = e.id
         /\ ClientHello(e).max = e.config.max
BY DEF ClientHello

(* The client starts a handshake in an open connection: nothing of an      *)
(* earlier one is on its way to it.                                        *)
LEMMA StartKeeps ==
  ASSUME Inv, client.pc = "app", started < MaxHandshakes, StartHandshake(client),
         started' = started + 1, UNCHANGED <<server, sessions>>,
         SH' = SH, SD' = SD, SF' = SF, Channel(toClient)', Once(toClient) => Once(toClient)'
  PROVE  Inv'
<1> DEFINE h == ClientHello(client)
<1>1. /\ client' = [client EXCEPT !.pc = "hello", !.hash = <<h>>]
      /\ toServer' = toServer \o Sent([client EXCEPT !.pc = "hello", !.hash = <<h>>], <<h>>)
  BY DEF StartHandshake, ClientAnswers
<1>2. h.t = "ClientHello" /\ h.id = client.id /\ h.max = client.config.max BY HelloParts
<1> HIDE DEF h
<1>3. /\ Channel(toServer) /\ IsContext(client) /\ started \in 0 .. MaxHandshakes
      /\ client.id \in 0 .. started /\ MaxHandshakes \in Nat
  BY HandshakeAssumption DEF Inv, Wire, ClientAlone
<1>4. /\ IsContext(client') /\ client'.pc = "hello" /\ client'.config = client.config
      /\ client'.id = client.id
  BY <1>1, <1>3 DEF IsContext, Fields
<1>5. /\ CH' = CH \union {h} /\ CK' = CK /\ CF' = CF /\ Channel(toServer)'
      /\ Once(toServer) /\ Msgs(toServer, "ClientHello") = {} => Once(toServer)'
  BY <1>1, <1>2, <1>3, ClientPuts
<1>6. h.max \in Int
  <2>1. NoConfig.max = 1 BY DEF NoConfig
  <2> QED BY <1>2, <2>1, HandshakeAssumption DEF Inv, ClientAlone, TLS12
<1>7. ClientAlone' BY <1>3, <1>4 DEF Inv, ClientAlone
<1>8. ServerAlone' BY <1>3, <1>4 DEF Inv, ServerAlone
<1>9. Wire' BY <1>2, <1>3, <1>5, <1>6 DEF Inv, Wire
<1>10. CacheSound' BY DEF Inv, CacheSound
<1>11. ASSUME server.pc # "failed" PROVE Joint /\ AtApp /\ Once(toServer) /\ Once(toClient)
  BY <1>11 DEF Inv, Joint
<1>12. KeyKnown'
  <2> SUFFICES ASSUME server.pc # "failed" PROVE CK' = {} /\ server.pc # "key" BY DEF KeyKnown
  <2> QED BY <1>5, <1>11 DEF AtApp
<1>13. Joint'
  <2> SUFFICES ASSUME server.pc # "failed" PROVE (Once(toServer) /\ Once(toClient) /\ AtHello)'
    BY <1>4 DEF Joint
  <2>1. CH = {} /\ CK = {} /\ NothingForClient BY <1>11 DEF AtApp
  <2>2. Once(toServer)' BY <1>11, <1>5, <2>1 DEF CH
  <2>3. Once(toClient)' BY <1>11
  <2>4. CH' = {h} /\ CK' = {} /\ NothingForClient' BY <2>1, <1>5 DEF NothingForClient
  <2>5. \/ server.pc \in {"hello", "app", "asked"} /\ CF' = {}
        \/ server.pc = "finished" /\ server.resumed
    BY <1>11, <1>5 DEF AtApp
  <2>6. AtHello' BY <1>2, <1>4, <2>4, <2>5 DEF AtHello
  <2> QED BY <2>2, <2>3, <2>6
<1> QED BY <1>7, <1>8, <1>9, <1>10, <1>12, <1>13 DEF Inv

(* The client starts a renegotiation by itself.                            *)
LEMMA ClientRenegotiatesKeeps == ASSUME Inv, ClientRenegotiates PROVE Inv'
<1>1. /\ client.pc = "app" /\ started < MaxHandshakes /\ StartHandshake(client)
      /\ started' = started + 1 /\ UNCHANGED <<server, sessions, toClient>>
  BY DEF ClientRenegotiates, MayRenegotiate, CacheSame
<1>2. SH' = SH /\ SD' = SD /\ SF' = SF BY <1>1, Untouched
<1>3. Channel(toClient)' /\ (Once(toClient) => Once(toClient)') BY <1>1 DEF Inv, Wire
<1> QED BY <1>1, <1>2, <1>3, StartKeeps

(* The client starts one when the server asks, or refuses.                 *)
LEMMA ReadHelloRequestKeeps == ASSUME Inv, ReadHelloRequest PROVE Inv'
<1>1. /\ client.pc = "app" /\ toClient # <<>> /\ toClient' = Tail(toClient)
      /\ Head(toClient).m.t = "HelloRequest" /\ UNCHANGED <<server, sessions>>
  BY DEF ReadHelloRequest, ClientGets, CacheSame
<1>2. Channel(toServer) /\ Channel(toClient) /\ IsContext(client) /\ IsContext(server)
  BY DEF Inv, Wire, ClientAlone, ServerAlone
<1>3. /\ SH' = SH /\ SD' = SD /\ SF' = SF /\ Channel(toClient)' /\ (Once(toClient) => Once(toClient)')
  BY <1>1, <1>2, ClientTakes
<1>4. CASE ClientAnswers(client, <<NoRenegotiation>>) /\ UNCHANGED started
  <2>1. client' = client /\ toServer' = toServer \o Sent(client, <<NoRenegotiation>>)
    BY <1>4 DEF ClientAnswers
  <2>2. NoRenegotiation.t = "Alert" BY DEF NoRenegotiation, Alert
  <2>3. /\ Channel(toServer)' /\ (Once(toServer) => Once(toServer)')
        /\ CH' = CH /\ CK' = CK /\ CF' = CF
    BY <2>1, <1>2, <2>2, ClientPuts DEF Flight
  <2>4. /\ IsContext(client') /\ \A f \in Fields \ {"hash"} : client'[f] = client[f]
        /\ IsContext(server') /\ \A f \in Fields \ {"hash", "pc"} : server'[f] = server[f]
        /\ server'.pc = server.pc
    BY <1>1, <1>2, <2>1
  <2> QED BY <1>4, <1>1, <1>3, <2>3, <2>4, Calm
<1>5. CASE started < MaxHandshakes /\ StartHandshake(client) /\ started' = started + 1
  BY <1>5, <1>1, <1>3, StartKeeps
<1> QED BY <1>4, <1>5 DEF ReadHelloRequest

(* A new connection: both contexts are reset.                              *)
LEMMA ConnectKeeps ==
  ASSUME Inv, NEW f \in ClientConfigs, NEW resume \in BOOLEAN, Connect(f, resume)
  PROVE  Inv'
<1> DEFINE r == ResetClient(client, f, resume)
<1> DEFINE h == ClientHello(r)
<1>1. /\ client.pc = "closed" /\ server.config # NoConfig /\ started < MaxHandshakes
      /\ client' = [r EXCEPT !.pc = "hello", !.hash = <<h>>]
      /\ toServer' = toServer \o Sent([r EXCEPT !.pc = "hello", !.hash = <<h>>], <<h>>)
      /\ server' = ResetServer(server) /\ started' = started + 1
      /\ UNCHANGED <<toClient, sessions>>
  BY DEF Connect, StartHandshake, ClientAnswers, CacheSame
<1>2. h.t = "ClientHello" /\ h.id = r.id /\ h.max = r.config.max BY HelloParts
<1> HIDE DEF h
<1>3. /\ IsContext(client) /\ IsContext(server) /\ started \in 0 .. MaxHandshakes
      /\ client.id \in 0 .. started /\ MaxHandshakes \in Nat
      /\ toServer = <<>> /\ toClient = <<>>
  BY <1>1, HandshakeAssumption DEF Inv, Wire, ClientAlone, ServerAlone
<1>4. IsContext(r) /\ r.config = f /\ r.id = IF resume THEN client.id ELSE 0
  BY <1>3 DEF ResetClient, IsContext, Fields
<1> HIDE DEF r
<1>5. /\ IsContext(client') /\ client'.pc = "hello" /\ client'.config = f /\ client'.id = r.id
  BY <1>1, <1>4 DEF IsContext, Fields
<1>6. /\ IsContext(server') /\ server'.pc = "hello" /\ server'.config = server.config
      /\ server'.resumed = server.resumed /\ server'.reneg = 0
  BY <1>1, <1>3 DEF ResetServer, IsContext, Fields
<1>7. r.id \in 0 .. started BY <1>3, <1>4
<1>8. /\ CH = {} /\ CK = {} /\ CF = {} /\ SH = {} /\ SD = {} /\ SF = {} /\ Channel(toServer)
      /\ Once(toServer) /\ Once(toClient)
  BY <1>3, EmptyChannel DEF CH, CK, CF, SH, SD, SF
<1>9. /\ CH' = {h} /\ CK' = {} /\ CF' = {} /\ Channel(toServer)'
      /\ Once(toServer) /\ Msgs(toServer, "ClientHello") = {} => Once(toServer)'
  BY <1>1, <1>2, <1>8, ClientPuts
<1>10. SH' = {} /\ SD' = {} /\ SF' = {} BY <1>1, <1>8, Untouched
<1>11. h.max \in Int BY <1>2, <1>4, HandshakeAssumption DEF TLS12
<1>12. ClientAlone' BY <1>1, <1>3, <1>5, <1>7 DEF ClientAlone
<1>13. ServerAlone' BY <1>1, <1>5, <1>6 DEF Inv, ServerAlone
<1>14. Wire' BY <1>1, <1>2, <1>3, <1>7, <1>9, <1>10, <1>11, EmptyChannel DEF Wire
<1>15. CacheSound' BY <1>1, <1>6 DEF Inv, CacheSound
<1>16. KeyKnown' BY <1>6, <1>9 DEF KeyKnown
<1>17. Joint'
  <2>1. Once(toServer)' BY <1>8, <1>9 DEF CH
  <2>2. Once(toClient)' BY <1>1, <1>8
  <2>3. AtHello' BY <1>2, <1>5, <1>6, <1>9, <1>10 DEF AtHello, NothingForClient
  <2> QED BY <1>5, <2>1, <2>2, <2>3 DEF Joint
<1> QED BY <1>12, <1>13, <1>14, <1>15, <1>16, <1>17 DEF Inv

(* A server that refuses a renegotiation skips the ClientHello.            *)
LEMMA SkipClientHelloKeeps == ASSUME Inv, SkipClientHello PROVE Inv'
<1>1. /\ server.pc = "app" /\ toServer # <<>> /\ toServer' = Tail(toServer)
      /\ Head(toServer).m.t = "ClientHello" /\ UNCHANGED <<client, server, started, sessions>>
      /\ toClient' = toClient \o Sent(server, <<NoRenegotiation>>)
  BY DEF SkipClientHello, ServerGets, ServerAnswers, CacheSame
<1>2. Channel(toServer) /\ Channel(toClient) BY DEF Inv, Wire
<1>3. /\ CH' \subseteq CH /\ CK' = CK /\ CF' = CF /\ CH # {} /\ Channel(toServer)'
      /\ Once(toServer) => Once(toServer)' /\ CH' = {}
  BY <1>1, <1>2, ServerTakes
<1>4. NoRenegotiation.t = "Alert" BY DEF NoRenegotiation, Alert
<1>5. /\ SH' = SH /\ SD' = SD /\ SF' = SF /\ Channel(toClient)'
      /\ Once(toClient) => Once(toClient)'
  BY <1>1, <1>2, <1>4, ServerPuts DEF Flight
<1>6. ClientAlone'
  <2>1. client.pc # "closed" BY <1>1 DEF Inv, ServerAlone
  <2> QED BY <1>1, <2>1 DEF Inv, ClientAlone
<1>7. ServerAlone' BY <1>1 DEF Inv, ServerAlone
<1>8. Wire' BY <1>1, <1>3, <1>5 DEF Inv, Wire
<1>9. CacheSound' BY <1>1 DEF Inv, CacheSound
<1>10. KeyKnown' BY <1>1, <1>3 DEF Inv, KeyKnown
<1>11. Joint'
  <2> SUFFICES ASSUME client.pc # "failed", client.pc # "closed"
               PROVE  Joint'
    BY <1>1 DEF Joint, Inv, ServerAlone
  <2>1. /\ Once(toServer) /\ Once(toClient)
        /\ client.pc = "hello" => AtHello
        /\ client.pc = "done" => AtDone
        /\ client.pc = "finished" => AtFinished
        /\ client.pc = "app" => AtApp
    BY <1>1 DEF Inv, Joint
  <2>2. client.pc = "hello" BY <2>1, <1>3 DEF AtDone, AtFinished, AtApp, Inv, ClientAlone
  <2>3. CK = {} /\ NothingForClient /\ CF = {} BY <2>1, <2>2, <1>1, <1>3 DEF AtHello
  <2>4. AtHello' BY <2>3, <2>1, <1>1, <1>3, <1>5 DEF AtHello, NothingForClient
  <2> QED BY <2>1, <2>2, <2>4, <1>1, <1>3, <1>5 DEF Joint
<1> QED BY <1>6, <1>7, <1>8, <1>9, <1>10, <1>11 DEF Inv

-----------------------------------------------------------------------------
(* The client's part of a handshake.                                       *)

(* A ServerHello that passes the checks names the version of its record    *)
(* and something the client allows (read-ServerHello).                     *)
LEMMA HelloChecked ==
  ASSUME NEW e, NEW m, HelloError(e, m) = "none", m.ver \in Int, e.config.min \in Int, e.config.max \in Int
  PROVE  /\ m.ver \in e.config.min .. e.config.max /\ m.ver = e.vin
         /\ m.suite \in e.config.suites
<1>1. ~(m.ver < e.config.min \/ m.ver > e.config.max) BY DEF HelloError
<1>2. m.ver = e.vin BY <1>1 DEF HelloError
<1>3. ~(Resuming(e, m) /\ e.ver # m.ver) BY <1>1, <1>2 DEF HelloError
<1>4. m.suite \in e.config.suites BY <1>1, <1>2, <1>3 DEF HelloError
<1> QED BY <1>1, <1>2, <1>4

(* The bounds of the versions are integers.                                *)
LEMMA ConfigTyped ==
  ASSUME Inv
  PROVE  /\ client.config.min \in Int /\ client.config.max \in Int
         /\ server.config.min \in Int /\ server.config.max \in Int
<1>1. NoConfig.min = 1 /\ NoConfig.max = 1 BY DEF NoConfig
<1> QED BY <1>1, HandshakeAssumption DEF Inv, ClientAlone, ServerAlone, TLS12

(* The client takes version, suite, session ID and reneg as the server has *)
(* them.                                                                   *)
LEMMA ReadServerHelloKeeps == ASSUME Inv, ReadServerHello PROVE Inv'
<1> DEFINE m == Head(toClient).m
<1> DEFINE e == [client EXCEPT !.vin = Head(toClient).v]
<1> DEFINE d == [e EXCEPT !.vout = m.ver, !.ver = m.ver, !.suite = m.suite, !.id = m.id,
                          !.resumed = Resuming(e, m),
                          !.reneg = IF m.reneg = <<>> THEN 1 ELSE 2,
                          !.pc = IF Resuming(e, m) THEN "finished" ELSE "done"]
<1>1. /\ client.pc = "hello" /\ toClient # <<>> /\ toClient' = Tail(toClient) /\ m.t = "ServerHello"
      /\ client' = IF HelloError(e, m) # "none" THEN Failed(e, HelloError(e, m), m) ELSE Hashed(d, m)
      /\ UNCHANGED <<toServer, server, started, sessions>>
  BY DEF ReadServerHello, ClientGets, ClientIs, CacheSame
<1>2. /\ Channel(toServer) /\ Channel(toClient) /\ IsContext(client) /\ started \in 0 .. MaxHandshakes
      /\ client.id \in 0 .. started
  BY DEF Inv, Wire, ClientAlone
<1>3. /\ IsContext(e) /\ e.vin = Head(toClient).v /\ e.config = client.config /\ e.id = client.id
      /\ e.secret = client.secret /\ e.saved = client.saved
  BY <1>2 DEF IsContext, Fields
<1>4. /\ SH' \subseteq SH /\ SD' = SD /\ SF' = SF /\ m \in SH /\ Channel(toClient)'
      /\ Once(toClient) => SH' = {} /\ Once(toClient)'
  BY <1>1, <1>2, ClientTakes
<1>5. /\ CH' = CH /\ CK' = CK /\ CF' = CF /\ Channel(toServer)' BY <1>1, <1>2, Untouched
<1>6. m.id \in 0 .. started /\ m.ver \in Int BY <1>4 DEF Inv, Wire
<1> HIDE DEF m, e
<1>7. CASE HelloError(e, m) # "none"
  <2>1. /\ IsContext(client') /\ client'.pc = "failed"
        /\ client'.config = client.config /\ client'.id = client.id
    BY <1>1, <1>3, <1>7, FailedContext DEF Fields
  <2> QED BY <1>1, <1>4, <1>5, <2>1, ClientGivesUp
<1>8. CASE HelloError(e, m) = "none"
  <2>1. /\ m.ver \in client.config.min .. client.config.max /\ m.ver = e.vin
        /\ m.suite \in client.config.suites
    BY <1>3, <1>6, <1>8, HelloChecked, ConfigTyped
  <2>2. /\ IsContext(d) /\ d.config = client.config /\ d.id = m.id /\ d.ver = m.ver
        /\ d.vin = m.ver /\ d.vout = m.ver /\ d.suite = m.suite /\ d.resumed = Resuming(e, m)
        /\ d.reneg = (IF m.reneg = <<>> THEN 1 ELSE 2)
        /\ d.pc = (IF Resuming(e, m) THEN "finished" ELSE "done")
    BY <1>3, <2>1 DEF IsContext, Fields
  <2> HIDE DEF d
  <2>3. IsContext(client') /\ \A f \in Fields \ {"hash"} : client'[f] = d[f]
    BY <1>1, <1>8, <2>2, HashedContext
  <2>4. /\ client'.pc = d.pc /\ client'.config = d.config /\ client'.ver = d.ver
        /\ client'.suite = d.suite /\ client'.id = d.id /\ client'.resumed = d.resumed
        /\ client'.reneg = d.reneg /\ client'.vin = d.vin /\ client'.vout = d.vout
    BY <2>3, FieldNames
  <2>5. /\ client'.config = client.config /\ client'.id = m.id /\ client'.ver = m.ver
        /\ client'.vin = m.ver /\ client'.vout = m.ver /\ client'.suite = m.suite
        /\ client'.resumed = (m.id = client.id /\ client.id # 0)
        /\ client'.reneg = (IF m.reneg = <<>> THEN 1 ELSE 2)
        /\ client'.pc = (IF m.id = client.id /\ client.id # 0 THEN "finished" ELSE "done")
    BY <1>3, <2>2, <2>4 DEF Resuming
  <2>6. ClientAlone' BY <1>1, <1>6, <2>1, <2>3, <2>5 DEF Inv, ClientAlone
  <2>7. ServerAlone' BY <1>1, <2>5 DEF Inv, ServerAlone
  <2>8. Wire' BY <1>1, <1>4, <1>5 DEF Inv, Wire
  <2>9. CacheSound' BY <1>1 DEF Inv, CacheSound
  <2>10. KeyKnown' BY <1>1, <1>5 DEF Inv, KeyKnown
  <2>11. Joint'
    <3> SUFFICES ASSUME server.pc # "failed" PROVE Joint' BY <1>1 DEF Joint
    <3>1. Once(toServer) /\ Once(toClient) /\ AtHello BY <1>1 DEF Inv, Joint
    <3>2. CH = {} /\ CF = {} /\ CK = {} /\ Offered(m) BY <3>1, <1>4 DEF AtHello, NothingForClient
    <3>3. server.resumed \in BOOLEAN /\ server.reneg \in 0 .. 2 BY DEF Inv, ServerAlone
    <3>4. CASE server.pc = "key"
      <4>1. SF = {} /\ ~server.resumed BY <3>1, <3>4, <1>4 DEF AtHello, NothingForClient, Inv, KeyKnown
      <4>2. client'.pc = "done" /\ ~client'.resumed BY <2>5, <3>2, <4>1 DEF Offered
      <4>3. server.reneg \in {1, 2} BY <3>3, <3>4 DEF Inv, ServerAlone
      <4>4. /\ client'.ver = server.ver /\ client'.suite = server.suite /\ client'.id = server.id
            /\ client'.reneg = server.reneg
        BY <2>5, <3>2, <4>3 DEF Offered
      <4>5. client'.resumed = server.resumed BY <2>5, <3>2, <3>3, <4>1, <4>2 DEF Offered
      <4>6. AtDone' BY <1>1, <1>4, <1>5, <3>1, <3>2, <3>4, <4>1, <4>4, <4>5 DEF AtDone, Same, Named
      <4> QED BY <1>1, <1>4, <3>1, <4>2, <4>6 DEF Joint
    <3>5. CASE server.pc = "finished" /\ server.resumed
      <4>1. SD = {} /\ SF \subseteq {server.saved.server}
        BY <3>1, <3>5, <1>4 DEF AtHello, NothingForClient
      <4>2. client'.pc = "finished" /\ client'.resumed BY <2>5, <3>2, <3>5 DEF Offered
      <4>3. server.reneg \in {1, 2} BY <3>3, <3>5 DEF Inv, ServerAlone
      <4>4. /\ client'.ver = server.ver /\ client'.suite = server.suite /\ client'.id = server.id
            /\ client'.reneg = server.reneg
        BY <2>5, <3>2, <4>3 DEF Offered
      <4>5. client'.resumed = server.resumed BY <2>5, <3>2, <3>3, <3>5 DEF Offered
      <4>6. AtFinished'
        BY <1>1, <1>4, <1>5, <3>1, <3>2, <3>5, <4>1, <4>4, <4>5 DEF AtFinished, Same, Named
      <4> QED BY <1>1, <1>4, <3>1, <4>2, <4>6 DEF Joint
    <3> QED BY <3>1, <3>2, <3>4, <3>5, <1>4 DEF AtHello, NothingForClient
  <2> QED BY <2>6, <2>7, <2>8, <2>9, <2>10, <2>11 DEF Inv
<1> QED BY <1>7, <1>8

(* The client makes the secret and sends its flight.                       *)
LEMMA ReadServerDoneKeeps == ASSUME Inv, ReadServerDone PROVE Inv'
<1> DEFINE key == [t |-> "ClientKey", secret |-> started]
<1> DEFINE a == [client EXCEPT !.secret = started]
<1> DEFINE b == Hashed(a, Head(toClient).m)
<1> DEFINE e == Hashed(b, key)
<1> DEFINE w == WriteFinished(e, "client")
<1>1. /\ client.pc = "done" /\ toClient # <<>> /\ toClient' = Tail(toClient)
      /\ Head(toClient).m.t = "ServerDone"
      /\ client' = [w EXCEPT !.pc = "finished"]
      /\ toServer' = toServer \o Sent([w EXCEPT !.pc = "finished"], <<key, Finished(e, "client")>>)
      /\ UNCHANGED <<server, started, sessions>>
  BY DEF ReadServerDone, ClientGets, ClientAnswers, CacheSame
<1>2. Channel(toServer) /\ Channel(toClient) /\ IsContext(client) BY DEF Inv, Wire, ClientAlone
<1>3. IsContext(a) /\ a.secret = started /\ \A f \in Fields \ {"secret"} : a[f] = client[f]
  BY <1>2 DEF IsContext, Fields
<1> HIDE DEF a
<1>4. IsContext(b) /\ \A f \in Fields \ {"hash"} : b[f] = a[f] BY <1>3, HashedContext
<1> HIDE DEF b
<1>5. IsContext(e) /\ \A f \in Fields \ {"hash"} : e[f] = b[f] BY <1>4, HashedContext
<1> HIDE DEF e
<1>6. /\ IsContext(w) /\ \A f \in Fields \ {"hash", "saved"} : w[f] = e[f]
      /\ w.saved.client = Finished(e, "client")
  BY <1>5, WriteFinishedContext
<1> HIDE DEF w
<1>7. /\ IsContext(client') /\ client'.pc = "finished" /\ client'.saved = w.saved
      /\ \A f \in Fields \ {"pc"} : client'[f] = w[f]
  BY <1>1, <1>6 DEF IsContext, Fields
<1>8. \A f \in Fields \ {"hash", "saved", "pc", "secret"} : client'[f] = client[f]
  BY <1>3, <1>4, <1>5, <1>6, <1>7
<1>9. /\ client'.config = client.config /\ client'.ver = client.ver /\ client'.suite = client.suite
      /\ client'.id = client.id /\ client'.resumed = client.resumed /\ client'.reneg = client.reneg
      /\ client'.vin = client.vin /\ client'.vout = client.vout
  BY <1>8 DEF Fields
<1>10. e.secret = started /\ client'.secret = started
  BY <1>3, <1>4, <1>5, <1>6, <1>7 DEF Fields
<1>11. client'.saved.client = Finished(e, "client") /\ Finished(e, "client").secret = started
       /\ Finished(e, "client").t = "Finished"
  BY <1>6, <1>7, <1>10, FinishedParts
<1>12. key.t = "ClientKey" /\ key.secret = started OBVIOUS
<1> DEFINE fin == Finished(e, "client")
<1> HIDE DEF key, fin
<1>13. /\ SH' = SH /\ SD' \subseteq SD /\ SF' = SF /\ Channel(toClient)'
       /\ Once(toClient) => SD' = {} /\ Once(toClient)'
  BY <1>1, <1>2, ClientTakes
<1>14. fin.t = "Finished" /\ toServer' = toServer \o Sent([w EXCEPT !.pc = "finished"], <<key, fin>>)
  BY <1>1, <1>11 DEF fin
<1>15. /\ Channel(toServer)'
       /\ CH' = CH /\ CK' = CK \union {key} /\ CF' = CF \union {fin}
       /\ Once(toServer) /\ CK = {} /\ CF = {} => Once(toServer)'
  <2> DEFINE u == toServer \o Sent([w EXCEPT !.pc = "finished"], <<key, fin>>)
  <2>1. /\ Channel(u)
        /\ \A t : Msgs(u, t) = Msgs(toServer, t) \union (IF key.t = t THEN {key} ELSE {})
                                                 \union (IF fin.t = t THEN {fin} ELSE {})
        /\ Once(toServer) /\ Msgs(toServer, key.t) = {} /\ Msgs(toServer, fin.t) = {} => Once(u)
    BY <1>2, <1>12, <1>14, AppendTwo
  <2>2. toServer' = u BY <1>14
  <2> HIDE DEF u
  <2> QED BY <1>12, <1>14, <2>1, <2>2 DEF CH, CK, CF
<1>16. ClientAlone' BY <1>1, <1>7, <1>9, <1>10, <1>11 DEF Inv, ClientAlone
<1>17. ServerAlone' BY <1>1, <1>7 DEF Inv, ServerAlone
<1>18. Wire' BY <1>1, <1>13, <1>15 DEF Inv, Wire
<1>19. CacheSound' BY <1>1 DEF Inv, CacheSound
<1>20. KeyKnown' BY <1>1, <1>12, <1>15 DEF Inv, KeyKnown
<1>21. Joint'
  <2> SUFFICES ASSUME server.pc # "failed" PROVE (Once(toServer) /\ Once(toClient) /\ AtFinished)'
    BY <1>1, <1>7 DEF Joint
  <2>1. Once(toServer) /\ Once(toClient) /\ AtDone BY <1>1 DEF Inv, Joint
  <2>2. CF' = {client'.saved.client} BY <1>11, <1>15, <2>1 DEF AtDone, fin
  <2>3. AtFinished' BY <1>1, <1>9, <1>13, <1>15, <2>1, <2>2 DEF AtDone, AtFinished, Same, Named
  <2> QED BY <1>13, <1>15, <2>1, <2>3 DEF AtDone
<1> QED BY <1>16, <1>17, <1>18, <1>19, <1>20, <1>21 DEF Inv

(* The Finished of the server equals what the client computes: they have   *)
(* the same secret, and save the same value.                               *)
LEMMA ClientReadsFinishedKeeps == ASSUME Inv, ClientReadsFinished PROVE Inv'
<1> DEFINE m == Head(toClient).m
<1> DEFINE e == WriteFinished(client, "server")
<1> DEFINE w == WriteFinished(e, "client")
<1> DEFINE fin == Finished(e, "client")
<1>1. /\ client.pc = "finished" /\ toClient # <<>> /\ toClient' = Tail(toClient) /\ m.t = "Finished"
      /\ IF m # Finished(client, "server") THEN ClientIs(Failed(client, "bad_finished", m))
         ELSE IF client.resumed THEN ClientAnswers([w EXCEPT !.pc = "app"], <<fin>>)
         ELSE ClientIs([e EXCEPT !.pc = "app"])
      /\ UNCHANGED <<server, started, sessions>>
  BY DEF ClientReadsFinished, ClientGets, FinishedGood, CacheSame
<1>2. Channel(toServer) /\ Channel(toClient) /\ IsContext(client) BY DEF Inv, Wire, ClientAlone
<1>3. /\ SH' = SH /\ SD' = SD /\ SF' \subseteq SF /\ m \in SF /\ Channel(toClient)'
      /\ Once(toClient) => SF' = {} /\ Once(toClient)'
  BY <1>1, <1>2, ClientTakes
<1> HIDE DEF m
<1>4. CASE m # Finished(client, "server")
  <2>1. client' = Failed(client, "bad_finished", m) /\ toServer' = toServer
    BY <1>1, <1>4 DEF ClientIs
  <2>2. /\ IsContext(client') /\ client'.pc = "failed"
        /\ client'.config = client.config /\ client'.id = client.id
    BY <1>2, <2>1, FailedContext DEF Fields
  <2>3. CH' = CH /\ CK' = CK /\ Channel(toServer)' BY <1>2, <2>1, Untouched
  <2> QED BY <1>1, <1>3, <2>2, <2>3, ClientGivesUp
<1>5. ASSUME m = Finished(client, "server") PROVE Inv'
  <2>1. /\ IsContext(e) /\ \A f \in Fields \ {"hash", "saved"} : e[f] = client[f]
        /\ e.saved.server = m /\ e.saved.client = client.saved.client
    BY <1>2, <1>5, WriteFinishedContext
  <2>2. m.secret = client.secret BY <1>5, FinishedParts
  <2> HIDE DEF e
  <2>3. /\ IsContext(w) /\ \A f \in Fields \ {"hash", "saved"} : w[f] = e[f]
        /\ w.saved.client = fin /\ w.saved.server = e.saved.server
    BY <2>1, WriteFinishedContext
  <2>4. fin.t = "Finished" BY FinishedParts
  <2> HIDE DEF w, fin
  <2>5. PICK x \in {e, w} : client' = [x EXCEPT !.pc = "app"] /\ (~client.resumed => x = e)
                            /\ (client.resumed => x = w)
    BY <1>1, <1>5 DEF ClientIs, ClientAnswers
  <2>6. /\ IsContext(x) /\ \A f \in Fields \ {"hash", "saved"} : x[f] = client[f]
        /\ x.saved.server = m
    BY <2>1, <2>3
  <2>7. /\ IsContext(client') /\ client'.pc = "app" /\ client'.saved = x.saved
        /\ \A f \in Fields \ {"pc"} : client'[f] = x[f]
    BY <2>5, <2>6 DEF IsContext, Fields
  <2>8. \A f \in Fields \ {"hash", "saved", "pc"} : client'[f] = client[f] BY <2>6, <2>7
  <2>9. /\ client'.config = client.config /\ client'.ver = client.ver /\ client'.suite = client.suite
        /\ client'.id = client.id /\ client'.resumed = client.resumed /\ client'.reneg = client.reneg
        /\ client'.vin = client.vin /\ client'.vout = client.vout /\ client'.secret = client.secret
    BY <2>8, FieldNames DEF Fields
  <2>10. client'.saved.server = m BY <2>6, <2>7
  <2>11. /\ CH' = CH /\ CK' = CK /\ Channel(toServer)'
         /\ Once(toServer) /\ CF = {} => Once(toServer)'
         /\ IF client.resumed THEN CF' = CF \union {fin} /\ client'.saved.client = fin
            ELSE CF' = CF /\ client'.saved.client = client.saved.client
    <3>1. CASE client.resumed
      <4>1. toServer' = toServer \o Sent([w EXCEPT !.pc = "app"], <<fin>>)
        BY <1>1, <1>5, <3>1 DEF ClientAnswers
      <4>2. /\ CH' = CH /\ CK' = CK /\ CF' = CF \union {fin} /\ Channel(toServer)'
            /\ Once(toServer) /\ Msgs(toServer, "Finished") = {} => Once(toServer)'
        <5>1. /\ Channel(toServer)'
              /\ Once(toServer) /\ (fin.t \in Flight => Msgs(toServer, fin.t) = {}) => Once(toServer)'
              /\ CH' = CH \union (IF fin.t = "ClientHello" THEN {fin} ELSE {})
              /\ CK' = CK \union (IF fin.t = "ClientKey" THEN {fin} ELSE {})
              /\ CF' = CF \union (IF fin.t = "Finished" THEN {fin} ELSE {})
          BY <1>2, <4>1, ClientPuts
        <5> QED BY <2>4, <5>1
      <4>3. client'.saved.client = fin BY <2>3, <2>5, <2>7, <3>1
      <4> QED BY <3>1, <4>2, <4>3 DEF CF
    <3>2. CASE ~client.resumed
      <4>1. toServer' = toServer BY <1>1, <1>5, <3>2 DEF ClientIs
      <4>2. client'.saved.client = client.saved.client BY <2>1, <2>5, <2>7, <3>2
      <4> QED BY <1>2, <3>2, <4>1, <4>2, Untouched
    <3> QED BY <3>1, <3>2
  <2>12. ClientAlone' BY <1>1, <2>7, <2>9 DEF Inv, ClientAlone
  <2>13. ServerAlone' BY <1>1, <2>7 DEF Inv, ServerAlone
  <2>14. Wire' BY <1>1, <1>3, <2>11 DEF Inv, Wire
  <2>15. CacheSound' BY <1>1 DEF Inv, CacheSound
  <2>16. KeyKnown' BY <1>1, <2>11 DEF Inv, KeyKnown
  <2>17. Joint'
    <3> SUFFICES ASSUME server.pc # "failed" PROVE (Once(toServer) /\ Once(toClient) /\ AtApp)'
      BY <1>1, <2>7 DEF Joint
    <3>1. Once(toServer) /\ Once(toClient) /\ AtFinished BY <1>1 DEF Inv, Joint
    <3>2. SF # {} /\ SF \subseteq {server.saved.server} => m = server.saved.server BY <1>3
    <3>3. CF = {} /\ CK = {} /\ m = server.saved.server
      BY <1>3, <3>1, <3>2 DEF AtFinished
    <3>4. CH' = {} /\ CK' = {} /\ NothingForClient'
      BY <1>3, <2>11, <3>1, <3>3 DEF AtFinished, NothingForClient
    <3>5. client.resumed = server.resumed BY <3>1 DEF AtFinished, Same, Named
    <3>6. client'.secret = server'.secret
      <4>1. CASE client.resumed
        <5>1. server.pc = "finished" /\ server.resumed BY <1>3, <3>1, <3>5, <4>1 DEF AtFinished
        <5>2. server.saved.server.secret = server.secret BY <5>1 DEF Inv, ServerAlone
        <5> QED BY <1>1, <2>2, <2>9, <3>3, <5>2
      <4>2. CASE ~client.resumed
        <5>1. client.secret = server.secret BY <1>3, <3>1, <3>5, <4>2 DEF AtFinished
        <5> QED BY <1>1, <2>9, <5>1
      <4> QED BY <4>1, <4>2
    <3>7. Same(Named \union {"secret"})'
      BY <1>1, <2>9, <3>1, <3>6 DEF AtFinished, Same, Named
    <3>8. client'.saved.server = server'.saved.server BY <1>1, <2>10, <3>3
    <3>9. \/ server'.pc \in {"app", "asked"} /\ CF' = {} /\ client'.saved.client = server'.saved.client
          \/ server'.pc = "finished" /\ server'.resumed /\ CF' \subseteq {client'.saved.client}
      <4>1. CASE client.resumed
        <5>1. server.pc = "finished" /\ server.resumed BY <1>3, <3>1, <3>5, <4>1 DEF AtFinished
        <5> QED BY <1>1, <2>11, <3>3, <4>1, <5>1
      <4>2. CASE ~client.resumed
        <5>1. /\ server.pc \in {"app", "asked"} /\ client.saved.client = server.saved.client
          BY <1>3, <3>1, <3>5, <4>2 DEF AtFinished
        <5> QED BY <1>1, <2>11, <3>3, <4>2, <5>1
      <4> QED BY <4>1, <4>2
    <3>10. AtApp' BY <3>4, <3>7, <3>8, <3>9 DEF AtApp
    <3> QED BY <1>3, <2>11, <3>1, <3>3, <3>10
  <2> QED BY <2>12, <2>13, <2>14, <2>15, <2>16, <2>17 DEF Inv
<1> QED BY <1>4, <1>5

-----------------------------------------------------------------------------
(* The server's part: the key and the Finished.                            *)

(* The server takes the secret of the session that it has named.           *)
LEMMA ReadClientKeyKeeps == ASSUME Inv, ReadClientKey PROVE Inv'
<1> DEFINE m == Head(toServer).m
<1> DEFINE d == [server EXCEPT !.secret = m.secret, !.pc = "finished"]
<1>1. /\ server.pc = "key" /\ toServer # <<>> /\ toServer' = Tail(toServer) /\ m.t = "ClientKey"
      /\ server' = Hashed(d, m) /\ UNCHANGED <<toClient, client, started, sessions>>
  BY DEF ReadClientKey, ServerGets, ServerIs, CacheSame
<1>2. Channel(toServer) /\ Channel(toClient) /\ IsContext(server) BY DEF Inv, Wire, ServerAlone
<1>3. /\ IsContext(d) /\ d.secret = m.secret /\ d.pc = "finished"
      /\ \A f \in Fields \ {"pc", "secret"} : d[f] = server[f]
  BY <1>2 DEF IsContext, Fields
<1>4. /\ CH' = CH /\ CK' \subseteq CK /\ CF' = CF /\ m \in CK /\ Channel(toServer)'
      /\ Once(toServer) => CK' = {} /\ Once(toServer)'
  BY <1>1, <1>2, ServerTakes
<1> HIDE DEF m, d
<1>5. IsContext(server') /\ \A f \in Fields \ {"hash"} : server'[f] = d[f]
  BY <1>1, <1>3, HashedContext
<1>6. /\ server'.pc = "finished" /\ server'.secret = m.secret /\ server'.saved = server.saved
      /\ server'.config = server.config /\ server'.ver = server.ver /\ server'.suite = server.suite
      /\ server'.id = server.id /\ server'.resumed = server.resumed /\ server'.reneg = server.reneg
      /\ server'.vin = server.vin /\ server'.vout = server.vout
  BY <1>3, <1>5 DEF Fields
<1>7. m.secret = started /\ server.id = started /\ ~server.resumed
  BY <1>1, <1>4 DEF Inv, KeyKnown
<1>8. SH' = SH /\ SD' = SD /\ SF' = SF /\ Channel(toClient)' BY <1>1, <1>2, Untouched
<1>9. client.pc # "closed" BY <1>1 DEF Inv, ServerAlone
<1>10. ClientAlone' BY <1>1, <1>9 DEF Inv, ClientAlone
<1>11. ServerAlone' BY <1>1, <1>5, <1>6, <1>7, <1>9 DEF Inv, ServerAlone
<1>12. Wire' BY <1>1, <1>4, <1>8 DEF Inv, Wire
<1>13. CacheSound' BY <1>1, <1>6 DEF Inv, CacheSound
<1>14. KeyKnown' BY <1>1, <1>4, <1>6 DEF Inv, KeyKnown
<1>15. Joint'
  <2> SUFFICES ASSUME client.pc # "failed" PROVE Joint' BY <1>1 DEF Joint
  <2>1. /\ Once(toServer) /\ Once(toClient)
        /\ client.pc = "hello" => AtHello
        /\ client.pc = "done" => AtDone
        /\ client.pc = "finished" => AtFinished
        /\ client.pc = "app" => AtApp
    BY <1>1 DEF Inv, Joint
  <2>2. client.pc = "finished" /\ AtFinished
    BY <2>1, <1>4, <1>9 DEF AtHello, AtDone, AtApp, Inv, ClientAlone
  <2>3. AtFinished' BY <2>1, <2>2, <1>1, <1>4, <1>6, <1>7, <1>8 DEF AtFinished, Same, Named
  <2> QED BY <2>1, <2>2, <2>3, <1>1, <1>4 DEF Joint
<1> QED BY <1>10, <1>11, <1>12, <1>13, <1>14, <1>15 DEF Inv

(* The Finished of the client equals what the server computes; a new       *)
(* session is saved with its secret.                                       *)
LEMMA ServerReadsFinishedKeeps == ASSUME Inv, ServerReadsFinished PROVE Inv'
<1> DEFINE m == Head(toServer).m
<1> DEFINE a == WriteFinished(server, "client")
<1> DEFINE e == [a EXCEPT !.pc = "app"]
<1> DEFINE w == WriteFinished(e, "server")
<1> DEFINE fin == Finished(e, "server")
<1>1. /\ server.pc = "finished" /\ toServer # <<>> /\ toServer' = Tail(toServer) /\ m.t = "Finished"
      /\ IF m # Finished(server, "client")
         THEN ServerIs(Failed(server, "bad_finished", m)) /\ CacheSame
         ELSE IF server.resumed THEN ServerIs(e) /\ CacheSame
         ELSE ServerAnswers(w, <<fin>>) /\ Cache!Save(e.id, SessionOf(e))
      /\ UNCHANGED <<client, started>>
  BY DEF ServerReadsFinished, ServerGets, FinishedGood
<1>2. Channel(toServer) /\ Channel(toClient) /\ IsContext(server) BY DEF Inv, Wire, ServerAlone
<1>3. /\ CH' = CH /\ CK' = CK /\ CF' \subseteq CF /\ m \in CF /\ Channel(toServer)'
      /\ Once(toServer) => CF' = {} /\ Once(toServer)'
  BY <1>1, <1>2, ServerTakes
<1>4. client.pc # "closed" BY <1>1 DEF Inv, ServerAlone
<1> HIDE DEF m
<1>5. CASE m # Finished(server, "client")
  <2>1. server' = Failed(server, "bad_finished", m) /\ UNCHANGED <<toClient, sessions>>
    BY <1>1, <1>5 DEF ServerIs, CacheSame
  <2>2. /\ IsContext(server') /\ server'.pc = "failed" /\ server'.config = server.config
        /\ server'.resumed = server.resumed /\ server'.reneg = server.reneg
    BY <1>2, <2>1, FailedContext DEF Fields
  <2>3. server'.reneg \in 0 .. 2 BY <2>2 DEF Inv, ServerAlone
  <2>4. SH' = SH /\ Channel(toClient)' BY <1>2, <2>1, Untouched
  <2>5. Known(sessions', server.config.suites) BY <2>1 DEF Inv, CacheSound
  <2> QED BY <1>1, <1>3, <1>4, <2>2, <2>3, <2>4, <2>5, ServerGivesUp
<1>6. ASSUME m = Finished(server, "client") PROVE Inv'
  <2>1. /\ IsContext(a) /\ \A f \in Fields \ {"hash", "saved"} : a[f] = server[f]
        /\ a.saved.client = m /\ a.saved.server = server.saved.server
    BY <1>2, <1>6, WriteFinishedContext
  <2>2. m.secret = server.secret BY <1>6, FinishedParts
  <2> HIDE DEF a
  <2>3. /\ IsContext(e) /\ e.pc = "app" /\ e.saved = a.saved
        /\ \A f \in Fields \ {"pc"} : e[f] = a[f]
    BY <2>1 DEF IsContext, Fields
  <2> HIDE DEF e
  <2>4. /\ IsContext(w) /\ \A f \in Fields \ {"hash", "saved"} : w[f] = e[f]
        /\ w.saved.server = fin /\ w.saved.client = e.saved.client
    BY <2>3, WriteFinishedContext
  <2>5. fin.t = "Finished" BY FinishedParts
  <2> HIDE DEF w, fin
  <2>6. \A x \in {e, w} : /\ IsContext(x) /\ x.pc = "app" /\ x.saved.client = m
                          /\ \A f \in Fields \ {"hash", "saved", "pc"} : x[f] = server[f]
    BY <2>1, <2>3, <2>4, FieldNames
  <2>7. server' = (IF server.resumed THEN e ELSE w) BY <1>1, <1>6 DEF ServerIs, ServerAnswers
  <2>8. /\ IsContext(server') /\ server'.pc = "app" /\ server'.saved.client = m
        /\ \A f \in Fields \ {"hash", "saved", "pc"} : server'[f] = server[f]
    BY <2>6, <2>7
  <2>9. /\ server'.config = server.config /\ server'.ver = server.ver /\ server'.suite = server.suite
        /\ server'.id = server.id /\ server'.resumed = server.resumed /\ server'.reneg = server.reneg
        /\ server'.vin = server.vin /\ server'.vout = server.vout /\ server'.secret = server.secret
    BY <2>8 DEF Fields
  <2>10. /\ SH' = SH /\ SD' = SD /\ Channel(toClient)'
         /\ Once(toClient) /\ SF = {} => Once(toClient)'
         /\ IF server.resumed
            THEN /\ SF' = SF /\ server'.saved.server = server.saved.server
                 /\ Once(toClient)' = Once(toClient)
            ELSE SF' = SF \union {fin} /\ server'.saved.server = fin
    <3>1. CASE server.resumed
      <4>1. toClient' = toClient BY <1>1, <1>6, <3>1 DEF ServerIs
      <4>2. server'.saved.server = server.saved.server BY <2>1, <2>3, <2>7, <3>1
      <4> QED BY <1>2, <3>1, <4>1, <4>2, Untouched
    <3>2. CASE ~server.resumed
      <4>1. toClient' = toClient \o Sent(w, <<fin>>) BY <1>1, <1>6, <3>2 DEF ServerAnswers
      <4>2. /\ SH' = SH /\ SD' = SD /\ SF' = SF \union {fin} /\ Channel(toClient)'
            /\ Once(toClient) /\ Msgs(toClient, "Finished") = {} => Once(toClient)'
        <5>1. /\ Channel(toClient)'
              /\ Once(toClient) /\ (fin.t \in Flight => Msgs(toClient, fin.t) = {}) => Once(toClient)'
              /\ SH' = SH \union (IF fin.t = "ServerHello" THEN {fin} ELSE {})
              /\ SD' = SD \union (IF fin.t = "ServerDone" THEN {fin} ELSE {})
              /\ SF' = SF \union (IF fin.t = "Finished" THEN {fin} ELSE {})
          BY <1>2, <4>1, ServerPuts
        <5> QED BY <2>5, <5>1
      <4>3. server'.saved.server = fin BY <2>4, <2>7, <3>2
      <4> QED BY <3>2, <4>2, <4>3 DEF SF
    <3> QED BY <3>1, <3>2
  <2>11. ClientAlone' BY <1>1, <1>4 DEF Inv, ClientAlone
  <2>12. ServerAlone' BY <1>1, <1>4, <2>8, <2>9 DEF Inv, ServerAlone
  <2>13. Wire' BY <1>1, <1>3, <2>10 DEF Inv, Wire
  <2>14. CacheSound'
    <3>1. CASE server.resumed
      <4>1. sessions' = sessions BY <1>1, <1>6, <3>1 DEF CacheSame
      <4> QED BY <2>9, <4>1 DEF Inv, CacheSound
    <3>2. CASE ~server.resumed
      <4> DEFINE par == SessionOf(e)
      <4>1. sessions' = Cache!Saved(sessions, [id |-> e.id, par |-> par])
        BY <1>1, <1>6, <3>2 DEF Cache!Save
      <4>2. /\ e.id = server.id /\ e.ver = server.ver /\ e.suite = server.suite
            /\ e.secret = server.secret
        BY <2>1, <2>3 DEF Fields
      <4>3. par.ver = e.ver /\ par.suite = e.suite /\ par.secret = e.secret BY DEF SessionOf
      <4>4. /\ server.id \in 1 .. started /\ server.ver \in Int /\ started \in 0 .. MaxHandshakes
            /\ server.suite \in server.config.suites /\ server.secret = server.id
        BY <1>1, <3>2 DEF Inv, ServerAlone, Wire
      <4>5. e.id # 0 BY <4>2, <4>4
      <4> HIDE DEF par
      <4>6. Known(sessions', server.config.suites)
        BY <4>1, <4>2, <4>3, <4>4, <4>5, SavedKnown DEF Inv, CacheSound
      <4> QED BY <2>9, <4>6 DEF CacheSound
    <3> QED BY <3>1, <3>2
  <2>15. KeyKnown' BY <1>1, <1>3, <2>8 DEF Inv, KeyKnown
  <2>16. Joint'
    <3> SUFFICES ASSUME client.pc # "failed" PROVE Joint' BY <1>1 DEF Joint
    <3>1. /\ Once(toServer) /\ Once(toClient)
          /\ client.pc = "hello" => AtHello
          /\ client.pc = "done" => AtDone
          /\ client.pc = "finished" => AtFinished
          /\ client.pc = "app" => AtApp
      BY <1>1 DEF Inv, Joint
    <3>2. CF' = {} /\ Once(toServer)' BY <1>3, <3>1
    <3>3. CASE server.resumed
      <4>1. SF' = SF /\ server'.saved.server = server.saved.server /\ Once(toClient)'
        BY <2>10, <3>1, <3>3
      <4>2. CASE client.pc = "hello"
        <5>1. CH # {} /\ (\A x \in CH : x.id = client.id) /\ NothingForClient /\ CK = {}
          BY <1>1, <1>3, <3>1, <4>2 DEF AtHello
        <5>2. AtHello' BY <1>1, <1>3, <2>8, <2>10, <3>2, <4>1, <5>1 DEF AtHello, NothingForClient
        <5> QED BY <1>1, <3>2, <4>1, <4>2, <5>2 DEF Joint
      <4>3. CASE client.pc = "app"
        <5>1. CF \subseteq {client.saved.client} BY <1>1, <1>3, <3>1, <4>3 DEF AtApp
        <5>2. m = client.saved.client BY <1>3, <5>1
        <5>3. AtApp'
          BY <1>1, <1>3, <2>8, <2>9, <2>10, <3>1, <3>2, <4>1, <4>3, <5>2
          DEF AtApp, Same, Named, NothingForClient
        <5> QED BY <1>1, <3>2, <4>1, <4>3, <5>3 DEF Joint
      <4> QED BY <1>1, <1>3, <1>4, <3>1, <3>3, <4>2, <4>3
               DEF AtDone, AtFinished, Inv, ClientAlone
    <3>4. CASE ~server.resumed
      <4>1. client.pc = "finished" /\ AtFinished
        BY <1>1, <1>3, <1>4, <3>1, <3>4 DEF AtHello, AtDone, AtApp, Inv, ClientAlone
      <4>2. CK = {} /\ SF = {} /\ CF \subseteq {client.saved.client} BY <1>1, <3>4, <4>1 DEF AtFinished
      <4>3. m = client.saved.client BY <1>3, <4>2
      <4>4. ~client.resumed BY <3>4, <4>1 DEF AtFinished, Same, Named
      <4>5. client.secret = server.secret BY <2>2, <4>1, <4>3, <4>4 DEF Inv, ClientAlone
      <4>6. SF' = {server'.saved.server} BY <2>10, <3>4, <4>2
      <4>7. Same(Named)' BY <1>1, <2>9, <4>1 DEF AtFinished, Same, Named
      <4>8. AtFinished'
        BY <1>1, <1>3, <2>8, <2>9, <2>10, <3>2, <3>4, <4>1, <4>2, <4>3, <4>5, <4>6, <4>7 DEF AtFinished
      <4> QED BY <1>1, <2>10, <3>1, <3>2, <4>1, <4>2, <4>8 DEF Joint
    <3> QED BY <3>3, <3>4
  <2> QED BY <2>11, <2>12, <2>13, <2>14, <2>15, <2>16 DEF Inv
<1> QED BY <1>5, <1>6

-----------------------------------------------------------------------------
(* The server's part: the ClientHello.                                     *)

(* The extensions of a ClientHello change reneg and the fragment lengths.  *)
LEMMA WithExtensionsContext ==
  ASSUME NEW e, IsContext(e), e.reneg \in 0 .. 2, NEW m
  PROVE  /\ IsContext(WithExtensions(e, m)) /\ WithExtensions(e, m).reneg \in {1, 2}
         /\ \A f \in Fields \ {"reneg", "frag", "peerFrag"} : WithExtensions(e, m)[f] = e[f]
<1> DEFINE d == WithExtensions(e, m)
<1>1. IsContext(d) /\ \A f \in Fields \ {"reneg", "frag", "peerFrag"} : d[f] = e[f]
  BY DEF WithExtensions, IsContext, Fields
<1>2. d.reneg = IF e.reneg # 0 THEN e.reneg ELSE IF m.reneg = <<>> THEN 1 ELSE 2
  BY DEF WithExtensions, IsContext, Fields
<1> QED BY <1>1, <1>2

(* The version chosen is the version of the records, both ways.            *)
LEMMA WithVersionContext ==
  ASSUME NEW e, IsContext(e), NEW v
  PROVE  /\ IsContext(WithVersion(e, v))
         /\ WithVersion(e, v).ver = v /\ WithVersion(e, v).vin = v /\ WithVersion(e, v).vout = v
         /\ \A f \in Fields \ {"ver", "vin", "vout"} : WithVersion(e, v)[f] = e[f]
BY DEF WithVersion, IsContext, Fields

(* A ClientHello begins a new hash.                                        *)
LEMMA OpenedContext ==
  ASSUME NEW m, IsContext(server), server.reneg \in 0 .. 2
  PROVE  /\ IsContext(Opened(m)) /\ Opened(m).reneg \in {1, 2}
         /\ \A f \in Fields \ {"reneg", "frag", "peerFrag", "hash"} : Opened(m)[f] = server[f]
<1> DEFINE d == WithExtensions(server, m)
<1>1. /\ IsContext(d) /\ d.reneg \in {1, 2}
      /\ \A f \in Fields \ {"reneg", "frag", "peerFrag"} : d[f] = server[f]
  BY WithExtensionsContext
<1> HIDE DEF d
<1>2. Opened(m) = [d EXCEPT !.hash = <<m>>] BY DEF Opened, d
<1> QED BY <1>1, <1>2 DEF IsContext, Fields

(* What a ServerHello says.                                                *)
LEMMA ServerHelloParts ==
  ASSUME NEW e, NEW initial
  PROVE  LET h == ServerHello(e, initial) IN
         /\ h.t = "ServerHello" /\ h.ver = e.ver /\ h.id = e.id /\ h.suite = e.suite
         /\ h.reneg = <<>> <=> e.reneg # 2
<1> DEFINE r == IF e.reneg # 2 THEN <<>>
                ELSE IF initial THEN <<NoFinished>> ELSE <<e.saved.client, e.saved.server>>
<1>1. r = <<>> <=> e.reneg # 2
  <2>1. <<NoFinished>> # <<>> /\ <<e.saved.client, e.saved.server>> # <<>> OBVIOUS
  <2> QED BY <2>1
<1> HIDE DEF r
<1>2. ServerHello(e, initial) =
        [t |-> "ServerHello", ver |-> e.ver, id |-> e.id, suite |-> e.suite, frag |-> e.peerFrag,
         reneg |-> r]
  BY DEF ServerHello, r
<1> QED BY <1>1, <1>2

(* The server takes a ClientHello and asks the cache.                      *)
LEMMA HelloTaken ==
  ASSUME Inv, GetsHello
  PROVE  LET m == Head(toServer).m IN
         /\ server.pc \in {"hello", "app", "asked"} /\ client.pc # "closed"
         /\ UNCHANGED <<client, started>>
         /\ CH' \subseteq CH /\ CK' = CK /\ CF' = CF /\ m \in CH /\ Channel(toServer)'
         /\ Once(toServer) => CH' = {} /\ Once(toServer)'
         /\ m.id \in 0 .. started /\ m.max \in Int
         /\ Known(sessions', server.config.suites)
         /\ loaded'.found => m.id # 0 /\ loaded'.par.ver \in Int
<1> DEFINE m == Head(toServer).m
<1>1. /\ server.pc \in {"hello", "app", "asked"} /\ toServer # <<>> /\ toServer' = Tail(toServer)
      /\ m.t = "ClientHello" /\ UNCHANGED <<client, started>>
      /\ Cache!LoadHit(m.id) \/ Cache!LoadMiss(m.id)
  BY DEF GetsHello, ServerGets
<1>2. Channel(toServer) /\ Known(sessions, server.config.suites) BY DEF Inv, Wire, CacheSound
<1>3. /\ CH' \subseteq CH /\ CK' = CK /\ CF' = CF /\ m \in CH /\ Channel(toServer)'
      /\ Once(toServer) => CH' = {} /\ Once(toServer)'
  BY <1>1, <1>2, ServerTakes
<1>4. m.id \in 0 .. started /\ m.max \in Int BY <1>3 DEF Inv, Wire
<1>5. /\ Known(sessions', server.config.suites)
      /\ loaded'.found => m.id # 0 /\ loaded'.par.ver \in Int
  BY <1>1, <1>2, LoadKnown
<1>6. client.pc # "closed" BY <1>1 DEF Inv, ServerAlone
<1> QED BY <1>1, <1>3, <1>4, <1>5, <1>6

(* A ClientHello is refused.                                               *)
LEMMA HelloRefusedKeeps == ASSUME Inv, HelloRefused PROVE Inv'
<1> DEFINE m == Head(toServer).m
<1> DEFINE d == WithExtensions(server, m)
<1> DEFINE w == WithVersion(d, Version(d, m))
<1>1. GetsHello BY DEF HelloRefused
<1>2. /\ client.pc # "closed" /\ UNCHANGED <<client, started>> /\ CH' \subseteq CH /\ Channel(toServer)'
      /\ Known(sessions', server.config.suites)
  BY <1>1, HelloTaken
<1>3. Channel(toClient) /\ IsContext(server) /\ server.reneg \in 0 .. 2
  BY DEF Inv, Wire, ServerAlone
<1>4. /\ IsContext(d) /\ d.reneg \in {1, 2} /\ d.config = server.config /\ d.resumed = server.resumed
  BY <1>3, WithExtensionsContext DEF Fields
<1>5. /\ IsContext(w) /\ w.reneg \in {1, 2} /\ w.config = server.config /\ w.resumed = server.resumed
  <2> HIDE DEF d
  <2> QED BY <1>4, WithVersionContext DEF Fields
<1>6. PICK code \in {Refusal(server, m, loaded')} :
         IF code = "bad_secreneg" THEN ServerIs(Failed(server, code, m))
         ELSE FailAlert(IF code = "handshake_failure" THEN w ELSE d, code, m)
  BY DEF HelloRefused
<1>7. PICK x \in {server, d, w} : server' = Failed(x, code, m)
  BY <1>6 DEF ServerIs, FailAlert, ServerAnswers
<1>8. \A y \in {server, d, w} : /\ IsContext(y) /\ y.reneg \in 0 .. 2 /\ y.config = server.config
                                /\ y.resumed = server.resumed
  BY <1>3, <1>4, <1>5
<1>9. /\ IsContext(server') /\ server'.pc = "failed" /\ server'.config = server.config
      /\ server'.resumed = server.resumed /\ server'.reneg \in 0 .. 2
  BY <1>7, <1>8, FailedContext DEF Fields
<1>10. SH' = SH /\ Channel(toClient)'
  <2>1. CASE code = "bad_secreneg"
    <3>1. toClient' = toClient BY <1>6, <2>1 DEF ServerIs
    <3> QED BY <1>3, <3>1, Untouched
  <2>2. CASE code # "bad_secreneg"
    <3>1. PICK y : toClient' = toClient \o Sent(y, <<Alert(code)>>)
      BY <1>6, <2>2 DEF FailAlert, ServerAnswers
    <3>2. Alert(code).t = "Alert" BY DEF Alert
    <3>3. Channel(toClient)' /\ SH' = SH \union (IF Alert(code).t = "ServerHello" THEN {Alert(code)} ELSE {})
      BY <1>3, <3>1, ServerPuts
    <3> QED BY <3>2, <3>3
  <2> QED BY <2>1, <2>2
<1> QED BY <1>2, <1>9, <1>10, ServerGivesUp

(* A session is resumed: its ID is the client's, and is not empty.         *)
LEMMA HelloResumesKeeps == ASSUME Inv, HelloResumes PROVE Inv'
<1> DEFINE m == Head(toServer).m
<1> DEFINE par == loaded'.par
<1> DEFINE o == WithVersion(Opened(m), par.ver)
<1> DEFINE e == [o EXCEPT !.id = m.id, !.suite = par.suite, !.secret = par.secret,
                          !.resumed = TRUE, !.pc = "finished"]
<1> DEFINE hello == ServerHello(e, Initial(server))
<1> DEFINE h == Hashed(e, hello)
<1> DEFINE w == WriteFinished(h, "server")
<1> DEFINE fin == Finished(h, "server")
<1>1. /\ GetsHello /\ Resumable(m, loaded') /\ server' = w
      /\ toClient' = toClient \o Sent(w, <<hello, fin>>)
  BY DEF HelloResumes, ServerAnswers, ResumeFlight
<1>2. loaded'.found BY <1>1 DEF Resumable
<1>3. /\ server.pc \in {"hello", "app", "asked"} /\ client.pc # "closed"
      /\ UNCHANGED <<client, started>> /\ CH' \subseteq CH /\ CK' = CK /\ CF' = CF /\ m \in CH
      /\ Channel(toServer)' /\ (Once(toServer) => CH' = {} /\ Once(toServer)')
      /\ m.id \in 0 .. started /\ Known(sessions', server.config.suites)
      /\ m.id # 0 /\ par.ver \in Int
  BY <1>1, <1>2, HelloTaken
<1>4. Channel(toClient) /\ IsContext(server) /\ server.reneg \in 0 .. 2
  BY DEF Inv, Wire, ServerAlone
<1> HIDE DEF m, par
<1>5. /\ IsContext(Opened(m)) /\ Opened(m).reneg \in {1, 2} /\ Opened(m).config = server.config
      /\ Opened(m).saved = server.saved
  BY <1>4, OpenedContext DEF Fields
<1>6. /\ IsContext(o) /\ o.reneg \in {1, 2} /\ o.config = server.config
      /\ o.ver = par.ver /\ o.vin = par.ver /\ o.vout = par.ver
  BY <1>5, WithVersionContext DEF Fields
<1> HIDE DEF o
<1>7. /\ IsContext(e) /\ e.reneg \in {1, 2} /\ e.config = server.config
      /\ e.ver = par.ver /\ e.vin = par.ver /\ e.vout = par.ver /\ e.id = m.id
      /\ e.resumed = TRUE /\ e.pc = "finished"
  BY <1>6 DEF IsContext, Fields
<1> HIDE DEF e
<1>8. /\ hello.t = "ServerHello" /\ hello.ver = e.ver /\ hello.id = e.id /\ hello.suite = e.suite
      /\ hello.reneg = <<>> <=> e.reneg # 2
  BY ServerHelloParts
<1> HIDE DEF hello
<1>9. IsContext(h) /\ \A f \in Fields \ {"hash"} : h[f] = e[f] BY <1>7, HashedContext
<1> HIDE DEF h
<1>10. /\ IsContext(w) /\ \A f \in Fields \ {"hash", "saved"} : w[f] = h[f]
       /\ w.saved.server = fin
  BY <1>9, WriteFinishedContext
<1>11. fin.t = "Finished" /\ fin.secret = h.secret BY FinishedParts
<1> HIDE DEF w, fin
<1>12. \A f \in Fields \ {"hash", "saved"} : server'[f] = e[f] BY <1>1, <1>9, <1>10
<1>13. /\ IsContext(server') /\ server'.config = server.config /\ server'.ver = e.ver
       /\ server'.vin = e.ver /\ server'.vout = e.ver /\ server'.id = m.id
       /\ server'.suite = e.suite /\ server'.reneg = e.reneg /\ server'.secret = e.secret
       /\ server'.resumed /\ server'.resumed \in BOOLEAN /\ server'.pc = "finished"
       /\ server'.saved.server = fin /\ fin.secret = e.secret
  <2>1. server'.resumed = TRUE BY <1>7, <1>12 DEF Fields
  <2>2. server'.resumed \in BOOLEAN BY <2>1, Zenon
  <2> QED BY <1>1, <1>7, <1>9, <1>10, <1>11, <1>12, <2>1, <2>2 DEF Fields
<1>14. /\ Channel(toClient)' /\ SH' = SH \union {hello} /\ SD' = SD /\ SF' = SF \union {fin}
       /\ Once(toClient) /\ SH = {} /\ SF = {} => Once(toClient)'
  <2> DEFINE u == toClient \o Sent(w, <<hello, fin>>)
  <2>1. /\ Channel(u)
        /\ \A t : Msgs(u, t) = Msgs(toClient, t) \union (IF hello.t = t THEN {hello} ELSE {})
                                                 \union (IF fin.t = t THEN {fin} ELSE {})
        /\ Once(toClient) /\ Msgs(toClient, hello.t) = {} /\ Msgs(toClient, fin.t) = {} => Once(u)
    BY <1>4, <1>8, <1>11, AppendTwo
  <2>2. toClient' = u BY <1>1
  <2> HIDE DEF u
  <2>3. hello.t = "ServerHello" /\ fin.t = "Finished" BY <1>8, <1>11
  <2>4. Channel(toClient)' BY <2>1, <2>2
  <2>5. SH' = SH \union {hello} /\ SD' = SD /\ SF' = SF \union {fin}
    BY <2>1, <2>2, <2>3 DEF SH, SD, SF
  <2>6. Once(toClient) /\ SH = {} /\ SF = {} => Once(toClient)' BY <2>1, <2>2, <2>3 DEF SH, SF
  <2> QED BY <2>4, <2>5, <2>6
<1>15. ClientAlone' BY <1>3 DEF Inv, ClientAlone
<1>16. ServerAlone' BY <1>3, <1>7, <1>13 DEF Inv, ServerAlone
<1>17. Wire' BY <1>3, <1>7, <1>8, <1>14 DEF Inv, Wire
<1>18. CacheSound' BY <1>3, <1>13 DEF CacheSound
<1>19. KeyKnown' BY <1>3, <1>13 DEF Inv, KeyKnown
<1>20. Joint'
  <2> SUFFICES ASSUME client.pc # "failed" PROVE Joint' BY <1>3 DEF Joint
  <2>1. /\ Once(toServer) /\ Once(toClient)
        /\ client.pc = "hello" => AtHello
        /\ client.pc = "done" => AtDone
        /\ client.pc = "finished" => AtFinished
        /\ client.pc = "app" => AtApp
    BY <1>3 DEF Inv, Joint
  <2>2. client.pc = "hello" /\ AtHello
    BY <2>1, <1>3 DEF AtDone, AtFinished, AtApp, Inv, ClientAlone
  <2>3. /\ CK = {} /\ CF = {} /\ NothingForClient /\ m.id = client.id
    BY <2>2, <1>3 DEF AtHello
  <2>4. CH' = {} /\ CF' = {} /\ CK' = {} /\ SH' = {hello} /\ SD' = {} /\ SF' = {fin}
    BY <2>1, <2>3, <1>3, <1>14 DEF NothingForClient
  <2>5. \A x \in SH' : Offered(x)'
    <3>1. hello.ver = server'.ver /\ hello.id = server'.id /\ hello.suite = server'.suite
      BY <1>7, <1>8, <1>13
    <3>2. hello.reneg = <<>> <=> server'.reneg = 1 BY <1>7, <1>8, <1>13
    <3>3. server'.resumed /\ hello.id = client'.id /\ client'.id # 0
      BY <1>3, <1>7, <1>8, <1>13, <2>3
    <3> QED BY <2>4, <3>1, <3>2, <3>3 DEF Offered
  <2>6. AtHello' BY <1>13, <2>4, <2>5 DEF AtHello
  <2> QED BY <1>3, <1>14, <2>1, <2>2, <2>3, <2>6 DEF Joint, NothingForClient
<1> QED BY <1>15, <1>16, <1>17, <1>18, <1>19, <1>20 DEF Inv

(* A new session is made: its ID is not one that the client has.           *)
LEMMA HelloAcceptedKeeps == ASSUME Inv, HelloAccepted PROVE Inv'
<1> DEFINE m == Head(toServer).m
<1> DEFINE o == WithVersion(Opened(m), Version(server, m))
<1> DEFINE done == [t |-> "ServerDone"]
<1> DEFINE e(s) == [o EXCEPT !.id = started, !.suite = s, !.resumed = FALSE, !.pc = "key"]
<1> DEFINE hello(s) == ServerHello(e(s), Initial(server))
<1>1. PICK s \in CommonSuites(server, m) :
         /\ server' = Hashed(Hashed(e(s), hello(s)), done)
         /\ toClient' = toClient \o Sent(Hashed(Hashed(e(s), hello(s)), done), <<hello(s), done>>)
  BY DEF HelloAccepted, ServerAnswers
<1>2. GetsHello BY DEF HelloAccepted
<1>3. /\ server.pc \in {"hello", "app", "asked"} /\ client.pc # "closed"
      /\ UNCHANGED <<client, started>> /\ CH' \subseteq CH /\ CK' = CK /\ CF' = CF /\ m \in CH
      /\ Channel(toServer)' /\ (Once(toServer) => CH' = {} /\ Once(toServer)')
      /\ m.max \in Int /\ Known(sessions', server.config.suites)
  BY <1>2, HelloTaken
<1>4. /\ Channel(toClient) /\ IsContext(server) /\ server.reneg \in 0 .. 2
      /\ started \in 0 .. MaxHandshakes /\ started > 0
  BY <1>3 DEF Inv, Wire, ServerAlone, ClientAlone
<1>5. s \in server.config.suites BY DEF CommonSuites
<1>6. Version(server, m) \in Int BY <1>3, ConfigTyped DEF Version, MinOf
<1> HIDE DEF m
<1>7. /\ IsContext(Opened(m)) /\ Opened(m).reneg \in {1, 2} /\ Opened(m).config = server.config
  BY <1>4, OpenedContext DEF Fields
<1>8. /\ IsContext(o) /\ o.reneg \in {1, 2} /\ o.config = server.config
      /\ o.ver \in Int /\ o.vin = o.ver /\ o.vout = o.ver
  BY <1>6, <1>7, WithVersionContext DEF Fields
<1> HIDE DEF o
<1> DEFINE k == e(s)
<1> DEFINE hi == hello(s)
<1> DEFINE a == Hashed(k, hi)
<1>9. /\ IsContext(k) /\ k.reneg \in {1, 2} /\ k.config = server.config
      /\ k.ver \in Int /\ k.vin = k.ver /\ k.vout = k.ver /\ k.id = started
      /\ k.suite = s /\ k.resumed = FALSE /\ k.pc = "key"
  BY <1>8 DEF IsContext, Fields
<1>10. server' = Hashed(a, done) /\ toClient' = toClient \o Sent(Hashed(a, done), <<hi, done>>)
  BY <1>1
<1>11. hi = ServerHello(k, Initial(server)) OBVIOUS
<1> HIDE DEF k, hi
<1>12. /\ hi.t = "ServerHello" /\ hi.ver = k.ver /\ hi.id = k.id /\ hi.suite = k.suite
       /\ hi.reneg = <<>> <=> k.reneg # 2
  BY <1>11, ServerHelloParts
<1>13. IsContext(a) /\ \A f \in Fields \ {"hash"} : a[f] = k[f] BY <1>9, HashedContext
<1> HIDE DEF a
<1>14. IsContext(server') /\ \A f \in Fields \ {"hash"} : server'[f] = a[f]
  BY <1>10, <1>13, HashedContext
<1>15. /\ server'.config = server.config /\ server'.ver = k.ver /\ server'.vin = k.ver
       /\ server'.vout = k.ver /\ server'.id = started /\ server'.suite = s
       /\ server'.reneg = k.reneg /\ ~server'.resumed /\ server'.resumed \in BOOLEAN
       /\ server'.pc = "key"
  <2>1. server'.resumed = FALSE BY <1>9, <1>13, <1>14 DEF Fields
  <2>2. server'.resumed \in BOOLEAN BY <2>1, Zenon
  <2> QED BY <1>9, <1>13, <1>14, <2>1, <2>2 DEF Fields
<1>16. done.t = "ServerDone" OBVIOUS
<1> HIDE DEF done
<1>17. /\ Channel(toClient)' /\ SH' = SH \union {hi} /\ SD' = SD \union {done} /\ SF' = SF
       /\ Once(toClient) /\ SH = {} /\ SD = {} => Once(toClient)'
  <2> DEFINE u == toClient \o Sent(Hashed(a, done), <<hi, done>>)
  <2>1. /\ Channel(u)
        /\ \A t : Msgs(u, t) = Msgs(toClient, t) \union (IF hi.t = t THEN {hi} ELSE {})
                                                 \union (IF done.t = t THEN {done} ELSE {})
        /\ Once(toClient) /\ Msgs(toClient, hi.t) = {} /\ Msgs(toClient, done.t) = {} => Once(u)
    BY <1>4, <1>12, <1>16, AppendTwo
  <2>2. toClient' = u BY <1>10
  <2> HIDE DEF u
  <2>3. hi.t = "ServerHello" BY <1>12
  <2> QED BY <1>16, <2>1, <2>2, <2>3 DEF SH, SD, SF
<1>18. ClientAlone' BY <1>3 DEF Inv, ClientAlone
<1>19. ServerAlone' BY <1>3, <1>4, <1>5, <1>9, <1>14, <1>15 DEF Inv, ServerAlone
<1>20. Wire' BY <1>3, <1>4, <1>9, <1>12, <1>17 DEF Inv, Wire
<1>21. CacheSound' BY <1>3, <1>15 DEF CacheSound
<1>22. KeyKnown' BY <1>3, <1>15 DEF Inv, KeyKnown
<1>23. Joint'
  <2> SUFFICES ASSUME client.pc # "failed" PROVE Joint' BY <1>3 DEF Joint
  <2>1. /\ Once(toServer) /\ Once(toClient)
        /\ client.pc = "hello" => AtHello
        /\ client.pc = "done" => AtDone
        /\ client.pc = "finished" => AtFinished
        /\ client.pc = "app" => AtApp
    BY <1>3 DEF Inv, Joint
  <2>2. client.pc = "hello" /\ AtHello
    BY <2>1, <1>3 DEF AtDone, AtFinished, AtApp, Inv, ClientAlone
  <2>3. CK = {} /\ CF = {} /\ NothingForClient BY <2>2, <1>3 DEF AtHello
  <2>4. CH' = {} /\ CF' = {} /\ CK' = {} /\ SH' = {hi} /\ SF' = {}
    BY <2>1, <2>3, <1>3, <1>17 DEF NothingForClient
  <2>5. client.id # started BY <2>2, <1>4 DEF Inv, ClientAlone
  <2>6. \A x \in SH' : Offered(x)'
    <3>1. hi.ver = server'.ver /\ hi.id = server'.id /\ hi.suite = server'.suite
      BY <1>9, <1>12, <1>15
    <3>2. hi.reneg = <<>> <=> server'.reneg = 1 BY <1>9, <1>12, <1>15
    <3>3. ~server'.resumed /\ hi.id # client'.id BY <1>3, <1>9, <1>12, <1>15, <2>5
    <3> QED BY <2>4, <3>1, <3>2, <3>3 DEF Offered
  <2>7. AtHello' BY <1>15, <2>4, <2>6 DEF AtHello
  <2> QED BY <1>3, <1>17, <2>1, <2>2, <2>3, <2>7 DEF Joint, NothingForClient
<1> QED BY <1>18, <1>19, <1>20, <1>21, <1>22, <1>23 DEF Inv

-----------------------------------------------------------------------------
(* The theorems.                                                           *)

(* The invariant holds before the first connection.                        *)
LEMMA InitInv == HsInit => Inv
<1> SUFFICES ASSUME HsInit PROVE Inv OBVIOUS
<1>1. /\ client = Context(NoConfig) /\ server = Context(NoConfig)
      /\ toServer = <<>> /\ toClient = <<>> /\ started = 0 /\ sessions = <<>>
  BY DEF HsInit
<1>2. /\ IsContext(client) /\ client.pc = "closed" /\ client.config = NoConfig /\ client.id = 0
      /\ IsContext(server) /\ server.pc = "closed" /\ server.config = NoConfig
      /\ server.resumed = FALSE /\ server.reneg = 0
  BY <1>1, StartingContext
<1>3. CH = {} /\ CK = {} /\ SH = {} BY <1>1, EmptyChannel DEF CH, CK, SH
<1>4. ClientAlone BY <1>1, <1>2 DEF ClientAlone
<1>5. ServerAlone
  <2>1. server.resumed \in BOOLEAN BY <1>2, Zenon
  <2> QED BY <1>1, <1>2, <2>1 DEF ServerAlone
<1>6. Wire BY <1>1, <1>3, EmptyChannel, HandshakeAssumption DEF Wire
<1>7. CacheSound BY <1>1, EmptyChannel DEF CacheSound, Known
<1>8. KeyKnown BY <1>2, <1>3 DEF KeyKnown
<1>9. Joint BY <1>1, <1>2, EmptyChannel DEF Joint
<1> QED BY <1>4, <1>5, <1>6, <1>7, <1>8, <1>9 DEF Inv

(* Every step keeps it.                                                    *)
LEMMA StepInv == Inv /\ [HsNext]_hsVars => Inv'
<1> SUFFICES ASSUME Inv, [HsNext]_hsVars PROVE Inv' OBVIOUS
<1>1. CASE ReadServerHello \/ ReadServerDone \/ ClientReadsFinished
  BY <1>1, ReadServerHelloKeeps, ReadServerDoneKeeps, ClientReadsFinishedKeeps
<1>2. CASE HelloRefused \/ HelloResumes \/ HelloAccepted
  BY <1>2, HelloRefusedKeeps, HelloResumesKeeps, HelloAcceptedKeeps
<1>3. CASE ReadClientKey \/ ServerReadsFinished
  BY <1>3, ReadClientKeyKeeps, ServerReadsFinishedKeeps
<1>4. CASE ReadHelloRequest \/ SkipHelloRequest \/ SkipClientHello
  BY <1>4, ReadHelloRequestKeeps, SkipHelloRequestKeeps, SkipClientHelloKeeps
<1>5. CASE ReadData \/ ClientFails \/ ServerFails
  BY <1>5, ReadDataKeeps, ClientFailsKeeps, ServerFailsKeeps
<1>6. CASE \E f \in ServerConfigs : SetUpServer(f) BY <1>6, SetUpServerKeeps
<1>7. CASE \E f \in ClientConfigs, resume \in BOOLEAN : Connect(f, resume) BY <1>7, ConnectKeeps
<1>8. CASE ClientRenegotiates \/ ServerRenegotiates
  BY <1>8, ClientRenegotiatesKeeps, ServerRenegotiatesKeeps
<1>9. CASE SendData \/ Lost BY <1>9, SendDataKeeps, LostKeeps
<1>10. CASE \E id \in OtherIds : OtherClient(id) BY <1>10, OtherClientKeeps
<1>11. CASE UNCHANGED hsVars
  <2>1. UNCHANGED <<client, server, toServer, toClient, started, sessions>> BY <1>11 DEF hsVars
  <2>2. CH' = CH /\ CK' = CK /\ CF' = CF /\ SH' = SH /\ SD' = SD /\ SF' = SF BY <2>1, Untouched
  <2>3. ClientAlone' BY <2>1 DEF Inv, ClientAlone
  <2>4. ServerAlone' BY <2>1 DEF Inv, ServerAlone
  <2>5. Wire' BY <2>1, <2>2 DEF Inv, Wire
  <2>6. CacheSound' BY <2>1 DEF Inv, CacheSound
  <2>7. KeyKnown' BY <2>1, <2>2 DEF Inv, KeyKnown
  <2>8. Joint'
    BY <2>1, <2>2 DEF Inv, Joint, AtHello, AtDone, AtFinished, AtApp, Same, Offered, NothingForClient
  <2> QED BY <2>3, <2>4, <2>5, <2>6, <2>7, <2>8 DEF Inv
<1>12. \/ HandshakeStep \/ UNCHANGED hsVars
       \/ \E f \in ServerConfigs : SetUpServer(f)
       \/ \E f \in ClientConfigs, resume \in BOOLEAN : Connect(f, resume)
       \/ ClientRenegotiates \/ ServerRenegotiates \/ SendData \/ Lost
       \/ \E id \in OtherIds : OtherClient(id)
  BY DEF HsNext
<1>13. CASE HandshakeStep BY <1>13, <1>1, <1>2, <1>3, <1>4, <1>5 DEF HandshakeStep
<1> QED BY <1>6, <1>7, <1>8, <1>9, <1>10, <1>11, <1>12, <1>13

(* The invariant holds in every state of every run of handshakes: each end *)
(* keeps within its configuration, the contexts fit together wherever both *)
(* are, and what is on its way belongs to the handshake under way.         *)
THEOREM HandshakesSound == HsSpec => []Inv
BY InitInv, StepInv, PTL DEF HsSpec

(* It says that the two ends agree.                                        *)
LEMMA InvAgree == Inv => Agree
<1> SUFFICES ASSUME Inv, client.pc = "app", server.pc = "app" PROVE Agree BY DEF Agree
<1>1. AtApp BY DEF Inv, Joint
<1>2. /\ client.ver = server.ver /\ client.suite = server.suite /\ client.id = server.id
      /\ client.secret = server.secret /\ client.resumed = server.resumed
      /\ client.reneg = server.reneg
  BY <1>1 DEF AtApp, Same, Named
<1>3. /\ client.vin = client.ver /\ client.vout = client.ver
      /\ client.ver \in client.config.min .. client.config.max
      /\ client.suite \in client.config.suites
      /\ server.vin = server.ver /\ server.vout = server.ver
  BY DEF Inv, ClientAlone, ServerAlone
<1>4. client.saved = server.saved
  <2>1. client.saved.client = server.saved.client /\ client.saved.server = server.saved.server
    BY <1>1 DEF AtApp
  <2>2. /\ client.saved = [who \in {"client", "server"} |-> client.saved[who]]
        /\ server.saved = [who \in {"client", "server"} |-> server.saved[who]]
    BY DEF Inv, ClientAlone, ServerAlone, IsContext
  <2> QED BY <2>1, <2>2
<1> QED BY <1>2, <1>3, <1>4 DEF Agree

(* Two ends that both accept application data have the same version,       *)
(* suite, session ID, secret and memory of the last Finished messages,     *)
(* within what the client allows, after full handshakes, resumptions and   *)
(* renegotiations in any order, with connections lost in between (read-    *)
(* Finished, read-ServerHello, read-ClientHello).                          *)
THEOREM EndsAgree == HsSpec => []Agree
BY HandshakesSound, InvAgree, PTL

(* What the cache remembers of this client is the session as both ends     *)
(* made it, even when a connection was lost before the client knew (save-  *)
(* session after read-CCS-Finished).                                       *)
THEOREM SessionsRemembered == HsSpec => []RememberedWhole
<1>1. Inv => RememberedWhole BY DEF Inv, CacheSound, Known, RememberedWhole
<1> QED BY <1>1, HandshakesSound, PTL
=============================================================================
