------------------------------ MODULE Startup ------------------------------
(***************************************************************************)
(* One client connection from its first byte to the end of its startup:   *)
(* PgProxy::serve, PgSession::serve, the Authenticator, and the startup   *)
(* of the forwarder (DirectForwarder with relay_startup, PooledForwarder  *)
(* with a PgConnector connection, CustomForwarder).                       *)
(*                                                                         *)
(* conf fixes what differs between deployments: the client's protocol     *)
(* version (minor, and whether it offers a _pq_ option), the proxy's      *)
(* authenticator (plus: with channel binding), forwarder and cancellation *)
(* (mediated: RegistryCancellation, else NoCancellation).  backend is the *)
(* one that is dialled: its newest minor version, the authentication it   *)
(* demands, the role's keys there, and the password the pool's            *)
(* BackendCredentials hold for the role.  It follows a script: it sends   *)
(* its messages in order and waits for an answer after each challenge.    *)
(* A client's message is part of the step that reads it.  seen is the     *)
(* history of the startup messages the client was sent.                   *)
(***************************************************************************)
EXTENDS Integers, Sequences, FiniteSets, Scram, StartupPackets

CONSTANTS
  Minors,     \* minor versions clients ask for
  Auths,      \* authenticators: "passthrough", "cleartext", "scram"
  Modes,      \* forwarders: "direct", "pooled", "custom"
  BackMaxs,   \* newest minor versions of backends
  BackAuths,  \* what backends demand: "trust", "cleartext", "scram", "md5"
  NoFirst, NoBackend

ASSUME StartupAssumption ==
  /\ Minors \subseteq Nat
  /\ Auths \subseteq {"passthrough", "cleartext", "scram"}
  /\ Modes \subseteq {"direct", "pooled", "custom"}
  /\ BackMaxs \subseteq Nat
  /\ BackAuths \subseteq {"trust", "cleartext", "scram", "md5"}

VARIABLES
  conf,       \* the deployment, fixed
  pc,         \* where the connection's task is
  tls,        \* the stream is encrypted
  spoken,     \* the minor version the client takes to be agreed
  stored,     \* what the store or validator holds for the user
  first,      \* the client's SASLInitialResponse
  proof,      \* the password the client proved or sent
  proper,     \* it has followed SCRAM to the letter
  keys,       \* the keys recovered from the client's proof
  backend,
  script,     \* what the backend has still to send
  owes,       \* the backend waits for an answer
  contacted,  \* the startup frame was replayed to a backend
  refused,    \* no backend reachable, it failed, or it had no valid credentials
  key,        \* the cancel session: "none", "registered" or "routed"
  seen,       \* startup messages the client was sent
  reason      \* why the client was turned away, or "none"

clientVars == <<tls, spoken>>
authVars == <<stored, first, proof, proper, keys>>
backendVars == <<backend, script, owes, contacted, refused>>
vars == <<conf, pc, clientVars, authVars, backendVars, key, seen, reason>>

PCs == {"peek", "plain", "session", "auth", "password", "first", "final", "forward", "begun",
        "reauth", "relay", "answer", "keyed", "connector", "capture", "synth", "served", "closed"}

Challenges == {"cleartext", "md5", "sasl", "saslcontinue"}
CancelKeys == {"key8", "key32", "backendkey"}
Shown == {"negotiate", "challenge", "saslfinal", "ok", "params", "ready", "error"} \cup CancelKeys
BackendMessages == Challenges \cup {"negotiate", "saslfinal", "ok", "params", "key", "ready", "error"}

Confs ==
  {c \in [minor : Minors, pq : BOOLEAN, auth : Auths, plus : BOOLEAN, mode : Modes,
          mediated : BOOLEAN] :
     c.plus => c.auth = "scram"}

\* Only challenges for a password look at the role's keys.
Backends ==
  {b \in [max : BackMaxs, auth : BackAuths, account : Keys \cup {NoSecret},
          cred : Passwords \cup {NoPassword}] :
     b.account = NoSecret <=> b.auth \in {"trust", "md5"}}

StartupTypeOK ==
  /\ conf \in Confs
  /\ pc \in PCs
  /\ tls \in BOOLEAN
  /\ spoken \in Nat
  /\ stored \in Keys \cup {NoSecret} /\ keys \in Keys \cup {NoSecret}
  /\ first \in Firsts \cup {NoFirst}
  /\ proof \in Passwords \cup {NoPassword} /\ proper \in BOOLEAN
  /\ backend \in Backends \cup {NoBackend}
  /\ script \in Seq(BackendMessages)
  /\ owes \in BOOLEAN /\ contacted \in BOOLEAN /\ refused \in BOOLEAN
  /\ key \in {"none", "registered", "routed"}
  /\ seen \in Seq(Shown)
  /\ reason \in {"none", "tls", "protocol", "mechanism", "password", "route", "mode", "reauth",
                "backend"}

StartupInit ==
  /\ conf \in Confs
  /\ pc = "peek"
  /\ tls = FALSE
  /\ spoken = conf.minor
  /\ stored = NoSecret /\ keys = NoSecret
  /\ first = NoFirst
  /\ proof = NoPassword /\ proper = TRUE
  /\ backend = NoBackend
  /\ script = <<>>
  /\ owes = FALSE /\ contacted = FALSE /\ refused = FALSE
  /\ key = "none"
  /\ seen = <<>>
  /\ reason = "none"

Goto(l, m) == pc = l /\ pc' = m

\* The client is sent the messages ms.
Send(ms) == seen' = seen \o ms

\* serve() returns an error: the connection is dropped, and with its handle the
\* cancel session.
Drop(why) ==
  /\ pc' = "closed"
  /\ key' = "none"
  /\ reason' = why

\* reject(), deny(): a fatal error first.
Reject(why) == Drop(why) /\ Send(<<"error">>)
-----------------------------------------------------------------------------
(* PgProxy::serve *)

\* The first byte is that of a ClientHello: straight to the TLS acceptor.
DirectTls ==
  /\ Goto("peek", "session")
  /\ tls' = TRUE
  /\ UNCHANGED <<conf, spoken, authVars, backendVars, key, seen, reason>>

\* It is not: the startup packets are read in the clear.
PlainStart ==
  /\ Goto("peek", "plain")
  /\ UNCHANGED <<conf, clientVars, authVars, backendVars, key, seen, reason>>

\* SSLRequest: answer S and hand the socket to the TLS acceptor.
SslRequest ==
  /\ Goto("plain", "session")
  /\ Arrives("ssl", AnyCode)
  /\ tls' = TRUE
  /\ UNCHANGED <<conf, spoken, authVars, backendVars, key, seen, reason>>

\* GSSENCRequest: answer N and read on.
GssEncRequest == pc = "plain" /\ Arrives("gssenc", AnyCode) /\ UNCHANGED vars

\* Mutant: a startup in the clear is served.
PlaintextStartupServed ==
  /\ Goto("plain", "session")
  /\ UNCHANGED <<conf, clientVars, authVars, backendVars, key, seen, reason>>

\* A startup in the clear is rejected.
PlaintextStartup ==
  /\ pc = "plain" /\ Arrives("startup", AnyCode)
  /\ Reject("tls")
  /\ UNCHANGED <<conf, clientVars, authVars, backendVars>>

\* CancelRequest, in the clear or over TLS: handed to the cancel registry; or a
\* packet that cannot be read.
CancelPacket ==
  /\ pc \in {"plain", "session"}
  /\ Arrives("cancel", AnyCode) \/ Arrives("invalid", AnyCode)
  /\ Drop("none")
  /\ UNCHANGED <<conf, clientVars, authVars, backendVars, seen>>
-----------------------------------------------------------------------------
(* PgSession::serve *)

\* Another SSLRequest or GSSENCRequest, or a major version other than 3.
BadStartup ==
  /\ pc = "session"
  /\ \/ Arrives("ssl", AnyCode) \/ Arrives("gssenc", AnyCode)
     \/ Arrives("startup", AnyCode \ {"v3"})
  /\ Reject("protocol")
  /\ UNCHANGED <<conf, clientVars, authVars, backendVars>>

\* The startup message: a proxy that terminates authentication announces the
\* version it negotiated before it challenges the client.
StartupMessage ==
  /\ Goto("session", "auth")
  /\ Arrives("startup", {"v3"})
  /\ IF conf.auth # "passthrough" /\ (Negotiated(conf.minor) # conf.minor \/ conf.pq)
     THEN Send(<<"negotiate">>) /\ spoken' = Negotiated(conf.minor)
     ELSE UNCHANGED <<seen, spoken>>
  /\ UNCHANGED <<conf, tls, authVars, backendVars, key, reason>>
-----------------------------------------------------------------------------
(* Authenticators: PassThrough, CleartextPassword, ScramSha256 *)

\* Pass-through: the backend will authenticate the client.
PassThrough ==
  /\ conf.auth = "passthrough"
  /\ Goto("auth", "forward")
  /\ UNCHANGED <<conf, clientVars, authVars, backendVars, key, seen, reason>>

\* AuthenticationCleartextPassword.
AskPassword ==
  /\ conf.auth = "cleartext"
  /\ Goto("auth", "password")
  /\ Send(<<"challenge">>)
  /\ UNCHANGED <<conf, clientVars, authVars, backendVars, key, reason>>

\* StaticPasswordValidator, with k the user's entry.
Validates(k, p) == k # NoSecret /\ k.password = p

\* The client sends password p.
ReadPassword(p, k) ==
  /\ pc = "password"
  /\ proof' = p /\ stored' = k
  /\ IF Validates(k, p)
     THEN pc' = "forward" /\ UNCHANGED <<key, seen, reason>>
     ELSE Reject("password")
  /\ UNCHANGED <<conf, clientVars, first, proper, keys, backendVars>>

\* The verifier is looked up (StaticSecretStore; PgAuthidStore, over an admin
\* connection), and the mechanisms are offered.
Lookup(rolpassword, admin) ==
  /\ conf.auth = "scram"
  /\ AdminUsable(admin)
  /\ Goto("auth", "first")
  /\ stored' = GetSecret(rolpassword)
  /\ Send(<<"challenge">>)
  /\ UNCHANGED <<conf, clientVars, first, proof, proper, keys, backendVars, key, reason>>

\* A lookup that fails ends the session.
LookupFails(admin) ==
  /\ pc = "auth" /\ conf.auth = "scram"
  /\ ~AdminUsable(admin)
  /\ Drop("none")
  /\ UNCHANGED <<conf, clientVars, authVars, backendVars, seen>>

\* SASLInitialResponse: deny it, or answer with server-first.
ReadFirst(f) ==
  /\ pc = "first"
  /\ first' = f /\ proper' = ProperFirst(conf.plus, f)
  /\ IF Acceptable(f, conf.plus)
     THEN pc' = "final" /\ Send(<<"challenge">>) /\ UNCHANGED <<key, reason>>
     ELSE Reject("mechanism")
  /\ UNCHANGED <<conf, clientVars, stored, proof, keys, backendVars>>

\* The verifier of the exchange.
Secret == IF stored = NoSecret THEN MockSecret ELSE stored

\* server-first presents the salt of the verifier, which is that of the backend.
PresentedSalt == Secret.salt

\* Mutant: SCRAM ends with an AuthenticationOk of its own.
AcceptedWithOk == <<"saslfinal", "ok">>

\* The proof was right: AuthenticationSASLFinal proves the server to the client.
Accepted == <<"saslfinal">>

\* Mutant: the failure is reported and the session goes on.
ReadFinalGoesOn(p, f) ==
  /\ pc = "final"
  /\ pc' = "forward"
  /\ proof' = p /\ proper' = FollowsRFC(conf.plus, first, f)
  /\ Send(IF ProofVerifies(Secret, first, f) THEN Accepted ELSE <<"error">>)
  /\ keys' = f.keys
  /\ UNCHANGED <<conf, clientVars, stored, first, backendVars, key, reason>>

\* Mutant: the keys of the proof are not kept.
ReadFinalForgets(p, f) ==
  /\ pc = "final"
  /\ proof' = p
  /\ proper' = FollowsRFC(conf.plus, first, f)
  /\ IF ProofVerifies(Secret, first, f)
     THEN pc' = "forward" /\ Send(Accepted) /\ UNCHANGED <<key, reason>>
     ELSE Reject("password")
  /\ UNCHANGED <<conf, clientVars, stored, first, keys, backendVars>>

\* SASLResponse: client-final is verified, and the keys of its proof are kept.
ReadFinal(p, f) ==
  /\ pc = "final"
  /\ proof' = p
  /\ proper' = FollowsRFC(conf.plus, first, f)
  /\ IF ProofVerifies(Secret, first, f)
     THEN /\ pc' = "forward"
          /\ Send(Accepted)
          /\ keys' = f.keys
          /\ UNCHANGED <<key, reason>>
     ELSE Reject("password") /\ UNCHANGED keys
  /\ UNCHANGED <<conf, clientVars, stored, first, backendVars>>

\* The client goes away, its message does not parse or has the wrong tag: an
\* error that no handler answers.
SessionError ==
  /\ pc \notin {"served", "closed"}
  /\ Drop(reason)
  /\ UNCHANGED <<conf, clientVars, authVars, backendVars, seen>>
-----------------------------------------------------------------------------
(* The backend, outside the proxy *)

\* PostgreSQL answers a newer minor version or an unknown option with
\* NegotiateProtocolVersion.
Negotiates(b) == conf.minor > b.max \/ conf.pq

\* What a backend sends after a startup frame it accepts.
Script(b) ==
  (IF Negotiates(b) THEN <<"negotiate">> ELSE <<>>)
  \o (CASE b.auth = "trust" -> <<>>
        [] b.auth = "cleartext" -> <<"cleartext">>
        [] b.auth = "md5" -> <<"md5">>
        [] b.auth = "scram" -> <<"sasl", "saslcontinue", "saslfinal">>)
  \o <<"ok", "params", "key", "ready">>

\* The backend fails, or rejects the startup.
BackendFails ==
  /\ script # <<>> /\ Head(script) # "error"
  /\ script' = <<"error">>
  /\ owes' = FALSE
  /\ refused' = TRUE
  /\ UNCHANGED <<conf, pc, clientVars, authVars, backend, contacted, key, seen, reason>>

\* The startup frame goes to backend b as the client sent it.
ReplayStartup(b) ==
  /\ backend' = b
  /\ script' = Script(b)
  /\ owes' = FALSE
  /\ contacted' = TRUE
  /\ UNCHANGED refused

\* The proxy reads the backend's next message m.
Pending(m) == ~owes /\ script # <<>> /\ Head(script) = m

Receive(m) ==
  /\ Pending(m)
  /\ script' = Tail(script)
  /\ UNCHANGED <<backend, owes, contacted, refused>>

\* It answers challenge m at once; the backend takes only a right answer.
ReceiveAndAnswer(m, right) ==
  /\ Pending(m)
  /\ script' = IF right THEN Tail(script) ELSE <<"error">>
  /\ UNCHANGED <<backend, owes, contacted>>
-----------------------------------------------------------------------------
(* Cancellation::begin *)

\* RegistryCancellation::begin: keys may be longer from protocol 3.2 on.
KeyFor(minor) == IF minor >= 2 THEN "key32" ELSE "key8"

Begun == IF conf.mediated THEN "registered" ELSE "none"
-----------------------------------------------------------------------------
(* DirectForwarder::serve and relay_startup *)

NoRoute ==
  /\ pc = "forward" /\ conf.mode = "direct"
  /\ Reject("route")
  /\ UNCHANGED <<conf, clientVars, authVars, backendVars>>

\* The backend cannot be reached (in pooled mode: the lease fails likewise).
DialFails ==
  /\ \/ pc = "forward" /\ conf.mode = "direct"
     \/ pc = "begun" /\ conf.mode = "pooled" /\ conf.auth # "passthrough"
  /\ Reject("backend")
  /\ refused' = TRUE
  /\ UNCHANGED <<conf, clientVars, authVars, backend, script, owes, contacted>>

\* Replay the startup, begin the cancel session, then relay; after SCRAM
\* termination, authenticate to the backend first.
DialDirect(b) ==
  /\ conf.mode = "direct" /\ b.cred = NoPassword
  /\ Goto("forward", IF conf.auth = "scram" THEN "reauth" ELSE "relay")
  /\ ReplayStartup(b)
  /\ key' = Begun
  /\ UNCHANGED <<conf, clientVars, authVars, seen, reason>>

\* reauth_upstream: the backend's SASL messages in turn; its challenge for a
\* proof is answered with the keys recovered from the client's.
Reauth ==
  /\ pc = "reauth"
  /\ \/ Receive("sasl") /\ UNCHANGED pc
     \/ ReceiveAndAnswer("saslcontinue", keys = backend.account) /\ UNCHANGED <<pc, refused>>
     \/ Receive("saslfinal") /\ pc' = "relay"
  /\ UNCHANGED <<conf, clientVars, authVars, key, seen, reason>>

\* Any other message ends the session.
ReauthFails ==
  /\ pc = "reauth"
  /\ \E m \in BackendMessages \ {"sasl", "saslcontinue", "saslfinal"} : Receive(m)
  /\ Drop("reauth")
  /\ UNCHANGED <<conf, clientVars, authVars, seen>>

\* Mutant: the final SASL message waits for an answer like any challenge.
AnswerNeededAlways(m) == m \in Challenges \cup {"saslfinal"}

\* Every challenge but AuthenticationSASLFinal has an answer.
AnswerNeeded(m) == m \in Challenges

\* Pass-through: a challenge is relayed to the client ...
RelayChallenge ==
  /\ pc = "relay" /\ conf.auth = "passthrough"
  /\ \E m \in Challenges \cup {"saslfinal"} :
       /\ Pending(m)
       /\ script' = Tail(script)
       /\ owes' = (m \in Challenges)
       /\ Send(IF m = "saslfinal" THEN <<"saslfinal">> ELSE <<"challenge">>)
       /\ pc' = IF AnswerNeeded(m) THEN "answer" ELSE "relay"
  /\ UNCHANGED <<conf, clientVars, authVars, backend, contacted, refused, key, reason>>

\* ... and its answer, right or wrong, to the backend.
RelayAnswer(right) ==
  /\ Goto("answer", "relay")
  /\ seen[Len(seen)] = "challenge"
  /\ script' = IF right \/ script = <<"error">> THEN script ELSE <<"error">>
  /\ owes' = FALSE
  /\ refused' = (refused \/ ~right)
  /\ UNCHANGED <<conf, clientVars, authVars, backend, contacted, key, seen, reason>>

\* Terminated: the client was authenticated, the backend may not challenge it.
RelayChallengeFails ==
  /\ pc = "relay" /\ conf.auth # "passthrough"
  /\ \E m \in Challenges \cup {"saslfinal"} : Receive(m)
  /\ Drop("none")
  /\ UNCHANGED <<conf, clientVars, authVars, seen>>

\* Mutant: the backend's NegotiateProtocolVersion stays with the proxy.
RelayOtherFiltered ==
  /\ pc = "relay"
  /\ \E m \in {"negotiate", "ok", "params"} :
       Receive(m) /\ Send(IF m = "negotiate" THEN <<>> ELSE <<m>>)
  /\ UNCHANGED <<conf, pc, clientVars, authVars, key, reason>>

\* AuthenticationOk, ParameterStatus and NegotiateProtocolVersion are relayed;
\* the client takes over the version it is told.
RelayOther ==
  /\ pc = "relay"
  /\ \E m \in {"negotiate", "ok", "params"} :
       /\ Receive(m)
       /\ Send(<<m>>)
       /\ spoken' = IF m = "negotiate" THEN Least(conf.minor, backend.max) ELSE spoken
  /\ UNCHANGED <<conf, pc, tls, authVars, key, reason>>

\* Mutant: the key is sized to the version the proxy would negotiate.
DirectKeyNegotiated == IF conf.mediated THEN KeyFor(Negotiated(conf.minor)) ELSE "backendkey"

\* The key of a direct session: 8 bytes, fit for any version, or the backend's.
DirectKey == IF conf.mediated THEN KeyFor(0) ELSE "backendkey"

\* Mutant: the key is sent before the handle is set.
RecordKeyTooLate ==
  /\ Goto("relay", "keyed")
  /\ Receive("key")
  /\ Send(<<DirectKey>>)
  /\ UNCHANGED <<conf, clientVars, authVars, key, reason>>

\* BackendKeyData: the handle is set to it first ...
RecordKey ==
  /\ Goto("relay", "keyed")
  /\ Receive("key")
  /\ key' = IF conf.mediated THEN "routed" ELSE key
  /\ UNCHANGED <<conf, clientVars, authVars, seen, reason>>

\* ... then the proxy's key is sent in its place, or the backend's as it is.
SendKey ==
  /\ Goto("keyed", "relay")
  /\ Send(<<DirectKey>>)
  /\ UNCHANGED <<conf, clientVars, authVars, backendVars, key, reason>>

\* The first ReadyForQuery ends the startup.
RelayReady ==
  /\ Goto("relay", "served")
  /\ Receive("ready")
  /\ Send(<<"ready">>)
  /\ UNCHANGED <<conf, clientVars, authVars, key, reason>>

\* An error is relayed and ends the session.
RelayError ==
  /\ pc = "relay"
  /\ Receive("error")
  /\ Reject("none")
  /\ UNCHANGED <<conf, clientVars, authVars>>
-----------------------------------------------------------------------------
(* PooledForwarder and CustomForwarder: serve_pooled, PgConnector::serve for a *)
(* fresh connection, serve_custom                                             *)

\* Their serve() begins the cancel session first.
Begin ==
  /\ conf.mode # "direct"
  /\ Goto("forward", "begun")
  /\ key' = Begun
  /\ UNCHANGED <<conf, clientVars, authVars, backendVars, seen, reason>>

\* Pooling and custom queries need an authenticator that terminates.
RejectPassThrough ==
  /\ pc = "begun" /\ conf.auth = "passthrough"
  /\ Reject("mode")
  /\ UNCHANGED <<conf, clientVars, authVars, backendVars>>

\* startup_params: captured already, by an earlier client of the role.
ParamsCached ==
  /\ conf.mode = "pooled" /\ conf.auth # "passthrough"
  /\ Goto("begun", "synth")
  /\ UNCHANGED <<conf, clientVars, authVars, backendVars, key, seen, reason>>

\* PgConnector::serve replays the startup on a connection of its own.
DialPooled(b) ==
  /\ conf.mode = "pooled" /\ conf.auth # "passthrough"
  /\ Goto("begun", "connector")
  /\ ReplayStartup(b)
  /\ UNCHANGED <<conf, clientVars, authVars, key, seen, reason>>

\* BackendCredentials: the role's password, NoPassword with a TrustBackend.
BackendPassword == backend.cred

\* It fails on an answer from wrong credentials.
AnswerWithPassword(m, right) ==
  /\ ReceiveAndAnswer(m, right)
  /\ refused' = (refused \/ ~right)

\* Auth phase: cleartext and SCRAM are answered until AuthenticationOk, with the
\* password of the role's credentials (authenticate_password derives its keys
\* from the salt that the backend sends).
ConnectorAuth ==
  /\ pc = "connector"
  /\ \/ Receive("ok") /\ pc' = "capture"
     \/ /\ BackendPassword # NoPassword
        /\ \/ AnswerWithPassword("cleartext", BackendPassword = backend.account.password)
           \/ Receive("sasl")
           \/ AnswerWithPassword("saslcontinue",
                FromPassword(BackendPassword, backend.account.salt) = backend.account)
           \/ Receive("saslfinal")
        /\ UNCHANGED pc
  /\ UNCHANGED <<conf, clientVars, authVars, key, seen, reason>>

\* No credentials for the role.
ConnectorRefuses ==
  /\ pc = "connector"
  /\ BackendPassword = NoPassword
  /\ Pending("cleartext") \/ Pending("sasl")
  /\ Reject("backend")
  /\ refused' = TRUE
  /\ UNCHANGED <<conf, clientVars, authVars, backend, script, owes, contacted>>

\* Everything else fails the connection, and with it the client's startup.
ConnectorFails ==
  /\ \/ pc = "connector" /\ \E m \in {"md5", "error", "negotiate"} : Receive(m)
     \/ pc = "capture" /\ Receive("error")
  /\ Reject("backend")
  /\ UNCHANGED <<conf, clientVars, authVars>>

\* Post-auth phase: capture up to ReadyForQuery.
ConnectorCapture ==
  /\ pc = "capture"
  /\ \E m \in {"params", "key", "ready"} :
       /\ Receive(m)
       /\ pc' = IF m = "ready" THEN "synth" ELSE "capture"
  /\ UNCHANGED <<conf, clientVars, authVars, key, seen, reason>>

\* serve_custom has nothing to dial.
StartCustom ==
  /\ conf.mode = "custom" /\ conf.auth # "passthrough"
  /\ Goto("begun", "synth")
  /\ UNCHANGED <<conf, clientVars, authVars, backendVars, key, seen, reason>>

\* synthesize_startup, with the key that was begun or a throwaway one.
SynthesizeStartup ==
  /\ Goto("synth", "served")
  /\ Send(<<"ok", "params",
            IF conf.mediated THEN KeyFor(Negotiated(conf.minor)) ELSE "key8", "ready">>)
  /\ UNCHANGED <<conf, clientVars, authVars, backendVars, key, reason>>
-----------------------------------------------------------------------------
Opening ==
  \/ DirectTls \/ PlainStart \/ SslRequest \/ PlaintextStartup \/ CancelPacket
  \/ BadStartup \/ StartupMessage

Authenticating ==
  \/ PassThrough \/ AskPassword
  \/ \E p \in Passwords, k \in Keys \cup {NoSecret} : ReadPassword(p, k)
  \/ \E a \in AdminConnections :
       LookupFails(a) \/ \E r \in Keys \cup {NoSecret} : Lookup(r, a)
  \/ \E f \in Firsts : ReadFirst(f)
  \/ pc = "final" /\ \E p \in Passwords : \E f \in Finals(p, PresentedSalt) : ReadFinal(p, f)

Forwarding ==
  \/ NoRoute \/ DialFails \/ (\E b \in Backends : DialDirect(b)) \/ Reauth \/ ReauthFails
  \/ RelayChallenge \/ (\E right \in BOOLEAN : RelayAnswer(right)) \/ RelayChallengeFails
  \/ RelayOther \/ RecordKey \/ SendKey \/ RelayReady \/ RelayError
  \/ Begin \/ RejectPassThrough \/ ParamsCached \/ (\E b \in Backends : DialPooled(b))
  \/ ConnectorAuth \/ ConnectorRefuses \/ ConnectorFails \/ ConnectorCapture
  \/ StartCustom \/ SynthesizeStartup

StartupNext ==
  Opening \/ GssEncRequest \/ Authenticating \/ Forwarding \/ SessionError \/ BackendFails

StartupSpec == StartupInit /\ [][StartupNext]_vars

\* The task runs when it can, dials and lookups end, and the client goes on with
\* its startup; it need not ever give up, and the backend need not fail.
StartupFairSpec == StartupSpec /\ WF_vars(Opening \/ Authenticating \/ Forwarding)
-----------------------------------------------------------------------------
(* Properties *)

Count(ms) == Cardinality({i \in DOMAIN seen : seen[i] \in ms})

\* No challenge is sent and no backend contacted before the stream is
\* encrypted, over any path to it ("TLS required" in PgProxy::serve).
TlsFirst == (seen \notin {<<>>, <<"error">>} \/ contacted) => tls

\* With an authenticator that terminates, no backend is contacted and no
\* startup completes before the client has proved the password that the store
\* or validator holds for its user; with SCRAM, by a proper exchange.
VerifiedFirst ==
  (contacted \/ pc = "served") /\ conf.auth # "passthrough" =>
     /\ stored # NoSecret /\ stored.password = proof
     /\ conf.auth = "scram" => proper

\* A proper client with the right password is never turned away: the first
\* message of an exchange is denied only if RFC 5802 has no such message, and
\* the exchange fails only if the client strayed from the RFC or its password
\* is not the stored one.
RightAccepted ==
  /\ reason = "mechanism" => ~proper
  /\ reason = "password" => ~proper \/ stored = NoSecret \/ proof # stored.password

\* The keys recovered from the client's proof are good at the backend: its
\* re-authentication ends the session only if the backend failed, wants no
\* SCRAM, negotiates, or has another verifier for the role.
KeysReusable ==
  reason = "reauth" =>
     refused \/ backend.auth # "scram" \/ Negotiates(backend) \/ backend.account # stored

\* A startup that completes shows the client one AuthenticationOk, then one
\* key, then one ReadyForQuery, in every mode, and no error.
OneCompletion ==
  pc = "served" =>
     /\ \A ms \in {{"ok"}, CancelKeys, {"ready"}} : Count(ms) = 1
     /\ Count({"error"}) = 0
     /\ \E i, j \in DOMAIN seen :
          i < j /\ seen[i] = "ok" /\ seen[j] \in CancelKeys /\ seen[Len(seen)] = "ready"

\* A proxy that mediates cancellation keeps the backend's own cancel key to
\* itself; when a direct client learns its key, a cancel that presents it is
\* routed already.
KeyMediated ==
  conf.mediated =>
     /\ Count({"backendkey"}) = 0
     /\ Count(CancelKeys) > 0 /\ pc # "closed" =>
           key = (IF conf.mode = "direct" THEN "routed" ELSE "registered")

\* Client and backend of a direct session end up with the same protocol
\* version, whoever negotiated it (for backends no newer than the proxy).
VersionAgrees ==
  pc = "served" /\ conf.mode = "direct" => spoken = Least(conf.minor, backend.max)

\* The bytes of a key; a backend's own is sized to the version it speaks.
KeyLength(k) ==
  IF k = "key32" \/ (k = "backendkey" /\ Least(conf.minor, backend.max) >= 2) THEN 32 ELSE 8

\* A served client has a key its protocol version allows, and the CancelRequest
\* that presents it is read as one.
KeyFitsVersion ==
  pc = "served" =>
     \A k \in CancelKeys : Count({k}) > 0 =>
        /\ KeyLength(k) > 8 => spoken >= 2
        /\ Parse(CancelFrame(KeyLength(k))) = "cancel"

\* Every startup ends, served or closed: client, proxy and backend never wait
\* for each other.
StartupEnds == <>(pc \in {"served", "closed"})

\* What the README says of startup, "Protocol versions are negotiated (3.0 and
\* 3.2)", and PgSession::serve of newer requests: a client is told that no
\* backend connection could be established only if a backend was unreachable,
\* refused, or wants md5.
RejectedByBackend == reason = "backend" => refused \/ backend.auth = "md5"
=============================================================================
