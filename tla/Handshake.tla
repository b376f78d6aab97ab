----------------------------- MODULE Handshake -----------------------------
(***************************************************************************)
(* What a client and a server agree on: the handshakes of successive       *)
(* connections (ssl_hs_client.t0, ssl_hs_server.t0, ssl_hs_common.t0),     *)
(* full, resumed from the session cache or started again by either end.    *)
(* Messages arrive in order, and a connection may be lost at any point.    *)
(*                                                                         *)
(* A message stands for itself, and one for a flight where nothing is      *)
(* decided between: "ServerDone" for Certificate up to ServerHelloDone,    *)
(* "ClientKey" for Certificate up to CertificateVerify, "Finished" for     *)
(* ChangeCipherSpec and Finished.  A Finished holds what it is computed    *)
(* from: the secret, and the messages hashed so far.                       *)
(***************************************************************************)
EXTENDS Integers, Sequences

CONSTANTS
  ClientConfigs,   \* of a client: versions min .. max, suites, frag, noReneg
  ServerConfigs,   \* of the server, which keeps its own
  Tls12Suites,     \* the suites that need TLS 1.2
  CacheSize,       \* how many sessions the server's cache holds
  OtherIds,        \* sessions of other clients
  MaxHandshakes,   \* how many handshakes start
  MaxData          \* how many application data records are on their way

TLS12 == 3         \* versions: TLS 1.0 is 1; 0 is not set
ASSUME HandshakeAssumption ==
  /\ \A f \in ClientConfigs \union ServerConfigs : f.min \in 1 .. TLS12 /\ f.max \in f.min .. TLS12
  /\ MaxHandshakes \in Nat /\ CacheSize \in Nat /\ OtherIds \intersect (0 .. MaxHandshakes) = {}

VARIABLES
  client, server,      \* the two contexts
  toServer, toClient,  \* the records on their way
  started,             \* how many handshakes have started
  sessions, loaded     \* the server's cache, and its last answer

hsVars == <<client, server, toServer, toClient, started, sessions, loaded>>

Cache == INSTANCE SessionCache WITH
  Ids <- 0 .. MaxHandshakes, Params <- [ver : 1 .. TLS12, suite : STRING, secret : Nat],
  Disabled <- [ver |-> 0], Capacity <- CacheSize, cache <- sessions, answer <- loaded

-----------------------------------------------------------------------------
(* The contexts.  "id" is 0 when the session ID is empty; "hash" holds the *)
(* messages hashed since the handshake began; "peerFrag" is                *)
(* peer_log_max_frag_len.                                                  *)
NoError == [code |-> "none", on |-> "none"]
NoFinished == [t |-> "none"]
NoSaved == [client |-> NoFinished, server |-> NoFinished]
Context(f) ==
  [pc |-> "closed", config |-> f, ver |-> 0, suite |-> "none", id |-> 0, secret |-> 0,
   resumed |-> FALSE, reneg |-> 0, saved |-> NoSaved, hash |-> <<>>,
   vin |-> 0, vout |-> 0, frag |-> f.frag, peerFrag |-> 0, err |-> NoError]

NoConfig == [min |-> 1, max |-> 1, suites |-> {}, frag |-> 14, noReneg |-> FALSE]
HsInit ==
  /\ client = Context(NoConfig) /\ server = Context(NoConfig)
  /\ toServer = <<>> /\ toClient = <<>> /\ started = 0
  /\ sessions = <<>> /\ loaded = Cache!None

(* Each record carries the version of its sender.                          *)
Sent(e, msgs) == [i \in DOMAIN msgs |-> [v |-> e.vout, m |-> msgs[i]]]
Failed(e, code, m) == [e EXCEPT !.pc = "failed", !.err = [code |-> code, on |-> m.t]]
Hashed(e, m) == [e EXCEPT !.hash = Append(@, m)]
MinOf(a, b) == IF a < b THEN a ELSE b

(* compute-Finished: also kept for the secure renegotiation.               *)
Finished(e, who) == [t |-> "Finished", who |-> who, secret |-> e.secret, hash |-> e.hash]
WriteFinished(e, who) ==
  Hashed([e EXCEPT !.saved[who] = Finished(e, who)], Finished(e, who))

(* The head of a channel, when its version is the one in force             *)
(* (recvrec_ack).                                                          *)
BadVersion(e, r) ==
  IF r.v = 0 THEN "unsupported_version"
  ELSE IF e.vin # 0 /\ e.vin # r.v THEN "bad_version" ELSE "none"
ClientGets(pcs, t) ==
  /\ client.pc \in pcs /\ toClient # <<>>
  /\ BadVersion(client, Head(toClient)) = "none" /\ Head(toClient).m.t = t
  /\ toClient' = Tail(toClient)
ServerGets(pcs, t) ==
  /\ server.pc \in pcs /\ toServer # <<>>
  /\ BadVersion(server, Head(toServer)) = "none" /\ Head(toServer).m.t = t
  /\ toServer' = Tail(toServer)
ClientIs(e) == client' = e /\ UNCHANGED toServer
ServerIs(e) == server' = e /\ UNCHANGED toClient
ClientAnswers(e, msgs) == client' = e /\ toServer' = toServer \o Sent(e, msgs)
ServerAnswers(e, msgs) == server' = e /\ toClient' = toClient \o Sent(e, msgs)
CacheSame == UNCHANGED <<sessions, loaded>>

-----------------------------------------------------------------------------
(* The client.                                                             *)

(* The extension for secure renegotiation: absent, empty in a first        *)
(* handshake, then what was saved of the last Finished messages.           *)
RenegExtension(e, savedOnes) ==
  IF e.reneg = 0 THEN <<NoFinished>> ELSE IF e.reneg = 1 THEN <<>> ELSE savedOnes

(* write-ClientHello                                                       *)
ClientHello(e) ==
  [t |-> "ClientHello", max |-> e.config.max, id |-> e.id, suites |-> e.config.suites,
   frag |-> e.config.frag, reneg |-> RenegExtension(e, <<e.saved.client>>)]
StartHandshake(e) ==
  ClientAnswers([e EXCEPT !.pc = "hello", !.hash = <<ClientHello(e)>>], <<ClientHello(e)>>)

(* br_ssl_client_reset and br_ssl_server_reset, on a new connection.       *)
ResetClient(e, f, resume) ==
  [e EXCEPT !.config = f, !.vin = 0, !.vout = f.min, !.reneg = 0, !.err = NoError,
            !.frag = f.frag, !.id = IF resume THEN @ ELSE 0]
ResetServer(e) == [e EXCEPT !.pc = "hello", !.vin = 0, !.vout = 0, !.reneg = 0, !.err = NoError]
SetUpServer(f) ==
  /\ server.config = NoConfig
  /\ server' = Context(f)
  /\ UNCHANGED <<client, toServer, toClient, started>> /\ CacheSame
Connect(f, resume) ==
  /\ client.pc = "closed" /\ server.config # NoConfig /\ started < MaxHandshakes
  /\ StartHandshake(ResetClient(client, f, resume))
  /\ server' = ResetServer(server)
  /\ started' = started + 1
  /\ UNCHANGED toClient /\ CacheSame

(* br_ssl_engine_renegotiate                                               *)
MayRenegotiate(e) == e.pc = "app" /\ e.reneg # 1 /\ ~e.config.noReneg
ClientRenegotiates ==
  /\ MayRenegotiate(client) /\ started < MaxHandshakes
  /\ StartHandshake(client)
  /\ started' = started + 1
  /\ UNCHANGED <<toClient, server>> /\ CacheSame

(* read-ServerHello, in the order of its checks.                           *)
Resuming(e, m) == m.id = e.id /\ e.id # 0
HelloError(e, m) ==
  CASE m.ver < e.config.min \/ m.ver > e.config.max -> "unsupported_version"
    [] m.ver # e.vin -> "bad_version"
    [] Resuming(e, m) /\ e.ver # m.ver -> "resume_mismatch"
    [] m.suite \notin e.config.suites -> "bad_cipher_suite"
    [] m.suite \in Tls12Suites /\ m.ver < TLS12 -> "bad_cipher_suite"
    [] Resuming(e, m) /\ e.suite # m.suite -> "resume_mismatch"
    [] m.frag # 0 /\ e.config.frag = 14 -> "extra_extension"
    [] m.frag # 0 /\ m.frag # e.config.frag -> "bad_fraglen"
    [] e.reneg = 0 /\ m.reneg \notin {<<>>, <<NoFinished>>} -> "bad_secreneg"
    [] e.reneg = 2 /\ m.reneg # <<e.saved.client, e.saved.server>> -> "bad_secreneg"
    [] OTHER -> "none"
ReadServerHello ==
  /\ ClientGets({"hello"}, "ServerHello")
  /\ LET m == Head(toClient).m
         e == [client EXCEPT !.vin = Head(toClient).v]
         h == Hashed([e EXCEPT !.vout = m.ver, !.ver = m.ver, !.suite = m.suite, !.id = m.id,
                               !.resumed = Resuming(e, m),
                               !.reneg = IF m.reneg = <<>> THEN 1 ELSE 2,
                               !.pc = IF Resuming(e, m) THEN "finished" ELSE "done"], m)
     IN  ClientIs(IF HelloError(e, m) # "none" THEN Failed(e, HelloError(e, m), m) ELSE h)
  /\ UNCHANGED <<server, started>> /\ CacheSame

(* The server's flight, and the client's: ClientKeyExchange with a new     *)
(* secret, ChangeCipherSpec and Finished.                                  *)
ReadServerDone ==
  /\ ClientGets({"done"}, "ServerDone")
  /\ LET key == [t |-> "ClientKey", secret |-> started]
         e == Hashed(Hashed([client EXCEPT !.secret = started], Head(toClient).m), key)
     IN  ClientAnswers([WriteFinished(e, "client") EXCEPT !.pc = "finished"], <<key, Finished(e, "client")>>)
  /\ UNCHANGED <<server, started>> /\ CacheSame

FinishedAny(e, m, who) == TRUE    \* mutant: the Finished is not compared
FinishedGood(e, m, who) == m = Finished(e, who)
(* read-CCS-Finished; after a resumption, write-CCS-Finished follows.      *)
ClientReadsFinished ==
  /\ ClientGets({"finished"}, "Finished")
  /\ LET m == Head(toClient).m
         e == WriteFinished(client, "server")
     IN  IF ~FinishedGood(client, m, "server") THEN ClientIs(Failed(client, "bad_finished", m))
         ELSE IF client.resumed
         THEN ClientAnswers([WriteFinished(e, "client") EXCEPT !.pc = "app"], <<Finished(e, "client")>>)
         ELSE ClientIs([e EXCEPT !.pc = "app"])
  /\ UNCHANGED <<server, started>> /\ CacheSame

-----------------------------------------------------------------------------
(* The server.                                                             *)

(* read-ClientHello: the extensions, then the session that the cache       *)
(* remembers, if the suite and the version are still possible.             *)
WithExtensions(e, m) ==
  [e EXCEPT !.reneg = IF @ # 0 THEN @ ELSE IF m.reneg = <<>> THEN 1 ELSE 2,
            !.frag = MinOf(@, m.frag),
            !.peerFrag = IF m.frag < e.frag THEN m.frag ELSE @]
RenegGood(e, m) ==
  CASE e.reneg = 0 -> m.reneg \in {<<>>, <<NoFinished>>}
    [] e.reneg = 1 -> m.reneg = <<>>
    [] e.reneg = 2 -> m.reneg \in {<<>>, <<e.saved.client>>}
Version(e, m) == MinOf(e.config.max, m.max)
ResumableAnyVersion(m, found) ==   \* mutant: whatever the version was
  found.found /\ found.par.suite \in m.suites
Resumable(m, found) ==
  found.found /\ found.par.suite \in m.suites /\ found.par.ver <= m.max
CommonSuites(e, m) ==
  {s \in e.config.suites \intersect m.suites : s \in Tls12Suites => Version(e, m) = TLS12}

Initial(e) == e.reneg = 0
ServerHello(e, initial) ==
  [t |-> "ServerHello", ver |-> e.ver, id |-> e.id, suite |-> e.suite, frag |-> e.peerFrag,
   reneg |-> IF e.reneg # 2 THEN <<>>
             ELSE IF initial THEN <<NoFinished>> ELSE <<e.saved.client, e.saved.server>>]
WithVersion(e, v) == [e EXCEPT !.ver = v, !.vin = v, !.vout = v]
Alert(code) == [t |-> "Alert", code |-> code]
FailAlert(e, code, m) == ServerAnswers(Failed(e, code, m), <<Alert(code)>>)

Refusing(e) == e.pc = "app" /\ (e.reneg = 1 \/ e.config.noReneg)
GetsHello ==
  /\ ServerGets({"hello", "app", "asked"}, "ClientHello") /\ ~Refusing(server)
  /\ \E id \in {Head(toServer).m.id} : Cache!LoadHit(id) \/ Cache!LoadMiss(id)
  /\ UNCHANGED <<client, started>>

(* Refused before anything is sent, or with an alert.                      *)
Refusal(e, m, found) ==
  CASE ~RenegGood(e, m) -> "bad_secreneg"
    [] m.max < e.config.min -> "protocol_version"
    [] ~Resumable(m, found) /\ CommonSuites(e, m) = {} -> "handshake_failure"
    [] OTHER -> "none"
HelloRefused ==
  /\ GetsHello
  /\ LET m == Head(toServer).m  e == WithExtensions(server, m) IN
     \E code \in {Refusal(server, m, loaded')} :
        /\ code # "none"
        /\ IF code = "bad_secreneg" THEN ServerIs(Failed(server, code, m))
           ELSE FailAlert(IF code = "handshake_failure" THEN WithVersion(e, Version(e, m)) ELSE e, code, m)

ResumeFlightShort(e, hello) == <<hello>>   \* mutant: the Finished is left out
ResumeFlight(e, hello) == <<hello, Finished(e, "server")>>
Opened(m) == [WithExtensions(server, m) EXCEPT !.hash = <<m>>]
(* A session resumed: ServerHello, ChangeCipherSpec and Finished.          *)
HelloResumes ==
  /\ GetsHello
  /\ LET m == Head(toServer).m  par == loaded'.par IN
     /\ Refusal(server, m, loaded') = "none" /\ Resumable(m, loaded')
     /\ LET e == [WithVersion(Opened(m), par.ver) EXCEPT
                     !.id = m.id, !.suite = par.suite, !.secret = par.secret,
                     !.resumed = TRUE, !.pc = "finished"]
            hello == ServerHello(e, Initial(server))
            h == Hashed(e, hello)
        IN  ServerAnswers(WriteFinished(h, "server"), ResumeFlight(h, hello))

(* A new session: a new ID, and a suite that the policy chooses.           *)
HelloAccepted ==
  /\ GetsHello
  /\ LET m == Head(toServer).m IN
     /\ Refusal(server, m, loaded') = "none" /\ ~Resumable(m, loaded')
     /\ \E s \in CommonSuites(server, m) :
          LET e == [WithVersion(Opened(m), Version(server, m)) EXCEPT
                      !.id = started, !.suite = s, !.resumed = FALSE, !.pc = "key"]
              hello == ServerHello(e, Initial(server))
              done == [t |-> "ServerDone"]
          IN  ServerAnswers(Hashed(Hashed(e, hello), done), <<hello, done>>)

ReadClientKey ==
  /\ ServerGets({"key"}, "ClientKey")
  /\ LET m == Head(toServer).m IN
     ServerIs(Hashed([server EXCEPT !.secret = m.secret, !.pc = "finished"], m))
  /\ UNCHANGED <<client, started>> /\ CacheSame

(* read-CCS-Finished; in a full handshake write-CCS-Finished and           *)
(* save-session follow.                                                    *)
SessionUnmade(e) == [ver |-> e.ver, suite |-> e.suite, secret |-> 0]  \* mutant: no secret yet
SessionOf(e) == [ver |-> e.ver, suite |-> e.suite, secret |-> e.secret]
ServerReadsFinished ==
  /\ ServerGets({"finished"}, "Finished")
  /\ LET m == Head(toServer).m
         e == [WriteFinished(server, "client") EXCEPT !.pc = "app"]
     IN  IF ~FinishedGood(server, m, "client")
         THEN ServerIs(Failed(server, "bad_finished", m)) /\ CacheSame
         ELSE IF server.resumed THEN ServerIs(e) /\ CacheSame
         ELSE /\ ServerAnswers(WriteFinished(e, "server"), <<Finished(e, "server")>>)
              /\ Cache!Save(e.id, SessionOf(e))
  /\ UNCHANGED <<client, started>>

-----------------------------------------------------------------------------
(* Renegotiation asked for by the server, and refusals.                    *)

ServerRenegotiates ==
  /\ MayRenegotiate(server)
  /\ ServerAnswers([server EXCEPT !.pc = "asked"], <<[t |-> "HelloRequest"]>>)
  /\ UNCHANGED <<client, toServer, started>> /\ CacheSame

NoRenegotiation == Alert("no_renegotiation")
ReadHelloRequest ==
  /\ ClientGets({"app"}, "HelloRequest")
  /\ IF client.reneg = 1 \/ client.config.noReneg
     THEN ClientAnswers(client, <<NoRenegotiation>>) /\ UNCHANGED started
     ELSE /\ started < MaxHandshakes /\ StartHandshake(client) /\ started' = started + 1
  /\ UNCHANGED server /\ CacheSame

SkipUnhashed(e, m) == e     \* mutant: the request is not hashed
Skip(e, m) == Hashed(e, m)
(* read-handshake-header: within a handshake the request is skipped, but   *)
(* read8-native has hashed it.                                             *)
SkipHelloRequest ==
  /\ ClientGets({"hello", "done", "finished"}, "HelloRequest")
  /\ ClientIs(Skip(client, Head(toClient).m))
  /\ UNCHANGED <<server, started>> /\ CacheSame

SkipClientHello ==
  /\ Refusing(server) /\ ServerGets({"app"}, "ClientHello")
  /\ ServerAnswers(server, <<NoRenegotiation>>)
  /\ UNCHANGED <<client, started>> /\ CacheSame

-----------------------------------------------------------------------------
(* Application data, errors, and the end of a connection.                  *)

Data == [t |-> "Data"]
SendData ==
  /\ \/ /\ client.pc = "app" /\ Len(toServer) < MaxData
        /\ ClientAnswers(client, <<Data>>) /\ UNCHANGED <<server, toClient>>
     \/ /\ server.pc = "app" /\ Len(toClient) < MaxData
        /\ ServerAnswers(server, <<Data>>) /\ UNCHANGED <<client, toServer>>
  /\ UNCHANGED started /\ CacheSame
ReadData ==
  /\ \/ ClientGets({"app"}, "Data") /\ UNCHANGED <<client, server, toServer>>
     \/ ServerGets({"app"}, "Data") /\ UNCHANGED <<client, server, toClient>>
  /\ UNCHANGED started /\ CacheSame

(* A record with another version, an alert, or what is not expected now.   *)
ErrorOf(e, r, expected) ==
  IF BadVersion(e, r) # "none" THEN BadVersion(e, r)
  ELSE IF r.m.t = "Alert" THEN r.m.code
  ELSE IF r.m.t \notin expected THEN "unexpected" ELSE "none"
Waiting == {"hello", "done", "key", "finished", "app", "asked"}
ClientExpects(pc) ==
  CASE pc = "hello" -> {"ServerHello", "HelloRequest"} [] pc = "done" -> {"ServerDone", "HelloRequest"}
    [] pc = "finished" -> {"Finished", "HelloRequest"} [] OTHER -> {"HelloRequest", "Data"}
ServerExpects(pc) ==
  CASE pc \in {"hello", "asked"} -> {"ClientHello"} [] pc = "key" -> {"ClientKey"}
    [] pc = "finished" -> {"Finished"} [] OTHER -> {"ClientHello", "Data"}
ClientFails ==
  /\ client.pc \in Waiting /\ toClient # <<>>
  /\ LET r == Head(toClient)  code == ErrorOf(client, r, ClientExpects(client.pc)) IN
     code # "none" /\ ClientIs(Failed(client, code, r.m))
  /\ toClient' = Tail(toClient)
  /\ UNCHANGED <<server, started>> /\ CacheSame
ServerFails ==
  /\ server.pc \in Waiting /\ toServer # <<>>
  /\ LET r == Head(toServer)  code == ErrorOf(server, r, ServerExpects(server.pc)) IN
     code # "none" /\ ServerIs(Failed(server, code, r.m))
  /\ toServer' = Tail(toServer)
  /\ UNCHANGED <<client, started>> /\ CacheSame

(* The connection is lost: at any time, or because an end has failed.      *)
Lost ==
  /\ client.pc # "closed"
  /\ client' = [client EXCEPT !.pc = "closed"] /\ server' = [server EXCEPT !.pc = "closed"]
  /\ toServer' = <<>> /\ toClient' = <<>>
  /\ UNCHANGED started /\ CacheSame
HangUp == "failed" \in {client.pc, server.pc} /\ Lost

(* The server saves a session of another client.                           *)
OtherClient(id) ==
  /\ id \in OtherIds
  /\ Cache!Save(id, [ver |-> TLS12, suite |-> "other", secret |-> id])
  /\ UNCHANGED <<client, server, toServer, toClient, started>>

-----------------------------------------------------------------------------
HandshakeStep ==
  \/ ReadServerHello \/ ReadServerDone \/ ClientReadsFinished
  \/ HelloRefused \/ HelloResumes \/ HelloAccepted \/ ReadClientKey \/ ServerReadsFinished
  \/ ReadHelloRequest \/ SkipHelloRequest \/ SkipClientHello \/ ReadData
  \/ ClientFails \/ ServerFails
HsNext ==
  \/ HandshakeStep
  \/ \E f \in ServerConfigs : SetUpServer(f)
  \/ \E f \in ClientConfigs, resume \in BOOLEAN : Connect(f, resume)
  \/ ClientRenegotiates \/ ServerRenegotiates \/ SendData \/ Lost
  \/ \E id \in OtherIds : OtherClient(id)

(* Messages arrive, and a failed end closes its socket.                    *)
HsFairness == WF_hsVars(HandshakeStep) /\ WF_hsVars(HangUp)
HsSpec == HsInit /\ [][HsNext]_hsVars /\ HsFairness

-----------------------------------------------------------------------------
(* Two ends that both accept application data have the same session and    *)
(* the same memory of the last Finished messages, within what the client   *)
(* allows: after full handshakes, resumptions and renegotiations in any    *)
(* order, with connections lost in between (read-Finished,                 *)
(* read-ServerHello, read-ClientHello).                                    *)
Agree ==
  client.pc = "app" /\ server.pc = "app" =>
    /\ \A field \in {"ver", "suite", "id", "secret", "resumed", "reneg", "saved", "vin", "vout"} :
         client[field] = server[field]
    /\ client.ver \in client.config.min .. client.config.max
    /\ client.suite \in client.config.suites

(* What the cache remembers of this client is the session as both ends     *)
(* made it, even when a connection was lost before the client knew         *)
(* (save-session after read-CCS-Finished).                                 *)
RememberedWhole ==
  \A i \in DOMAIN sessions : sessions[i].id \notin OtherIds =>
    /\ sessions[i].par.secret = sessions[i].id
    /\ sessions[i].par.suite \in server.config.suites

(* Two ends of this library fail only with a reason: no version in common, *)
(* or a resumed version that the client no longer takes; no suite in       *)
(* common; a renegotiation refused, crossed by another request or by       *)
(* application data, or that would raise the version of a resumed session; *)
(* a server context that keeps the fragment length of an earlier client.   *)
NoCommonVersion ==
  \/ client.config.max < server.config.min \/ client.config.min > server.config.max
  \/ server.resumed /\ server.ver < client.config.min
Crossed == \E i \in DOMAIN client.hash : client.hash[i].t = "HelloRequest"
FailuresExplained ==
  LET explains(e) ==
        CASE e.err.code = "none" -> TRUE
          [] e.err.code = "unsupported_version" -> NoCommonVersion
          [] e.err.code = "bad_version" -> client.resumed /\ client.ver < server.ver
          [] e.err.code \in {"extra_extension", "bad_fraglen"} -> server.frag < client.config.frag
          [] e.err.code = "bad_finished" -> Crossed
          [] e.err.code = "unexpected" -> e.err.on = "Data"
          [] e.err.code = "protocol_version" -> client.config.max < server.config.min
          [] e.err.code = "no_renegotiation" -> client.config.noReneg \/ server.config.noReneg
          [] e.err.code = "handshake_failure" ->
               \A s \in client.config.suites \intersect server.config.suites :
                  s \in Tls12Suites /\ server.ver < TLS12
          [] OTHER -> FALSE
  IN  \A e \in {client, server} : e.pc = "failed" => explains(e)

(* A handshake ends: neither end waits for a message that the other does   *)
(* not send (the order of the flights in do-handshake).                    *)
HandshakeEnds ==
  client.pc \in {"hello", "done", "finished"} ~> client.pc \in {"app", "failed", "closed"}

(* A HelloRequest that arrives within a handshake is discarded, as         *)
(* read-handshake-header says, and does not make the handshake fail.       *)
HelloRequestDiscarded == "bad_finished" \notin {client.err.code, server.err.code}
=============================================================================
