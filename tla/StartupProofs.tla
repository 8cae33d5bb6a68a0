---------------------------- MODULE StartupProofs ----------------------------
(***************************************************************************)
(* Proofs about Startup, for any versions, passwords, salts, deployments  *)
(* and backends: what comes before a backend is contacted, what a client  *)
(* is shown of the end of its startup, and that the version and the key   *)
(* it ends up with fit.                                                   *)
(***************************************************************************)
EXTENDS Startup, QueueFacts

\* Where the task is before it has authenticated the client.
Before == {"peek", "plain", "session", "auth", "password", "first", "final"}

\* Nothing was sent, dialled or tried in the clear.
InTheClear ==
  /\ pc \in {"peek", "plain"} => seen = <<>>
  /\ pc \in Before => ~contacted
  /\ pc \notin {"peek", "plain", "closed"} => tls

TlsInv == TlsFirst /\ InTheClear

\* TlsInv holds in the initial states.
LEMMA TlsInit == StartupInit => TlsInv
  BY DEF StartupInit, TlsInv, TlsFirst, InTheClear, Before

\* Opening a connection (PgProxy::serve and the packets of PgSession::serve)
\* preserves TlsInv.
LEMMA TlsOpening == TlsInv /\ Opening => TlsInv'
<1> SUFFICES ASSUME TlsInv, Opening PROVE TlsInv'
  OBVIOUS
<1> USE DEF TlsInv, TlsFirst, InTheClear, Before, Goto, backendVars, clientVars, authVars
<1>1. CASE DirectTls
  BY <1>1 DEF DirectTls
<1>2. CASE PlainStart
  BY <1>2 DEF PlainStart
<1>3. CASE SslRequest
  BY <1>3 DEF SslRequest
<1>4. CASE PlaintextStartup
  <2>1. seen' = <<"error">>
    BY <1>4 DEF PlaintextStartup, Reject, Send
  <2> QED
    BY <1>4, <2>1 DEF PlaintextStartup, Reject, Drop
<1>5. CASE CancelPacket
  BY <1>5 DEF CancelPacket, Drop
<1>6. CASE BadStartup
  BY <1>6 DEF BadStartup, Reject, Drop
<1>7. CASE StartupMessage
  BY <1>7 DEF StartupMessage
<1> QED
  BY <1>1, <1>2, <1>3, <1>4, <1>5, <1>6, <1>7 DEF Opening

\* Authenticating and forwarding go on in an encrypted stream, and neither goes
\* back to an earlier phase.
LEMMA TlsAuthenticating == TlsInv /\ Authenticating => TlsInv'
<1> SUFFICES ASSUME TlsInv, Authenticating PROVE TlsInv'
  OBVIOUS
<1> USE DEF Goto, clientVars, backendVars, Reject, Drop
<1>1. /\ pc \notin {"peek", "plain", "closed"} /\ pc \in Before
      /\ pc' \notin {"peek", "plain"}
      /\ UNCHANGED <<tls, contacted>>
  BY DEF Authenticating, Before, PassThrough, AskPassword, ReadPassword, Lookup, LookupFails,
         ReadFirst, ReadFinal
<1> QED
  BY <1>1 DEF TlsInv, TlsFirst, InTheClear

\* What every step of a forwarder does to the phase, and leaves alone.
LEMMA ForwardingSteps ==
  Forwarding => /\ pc \notin Before \cup {"closed"}
                /\ pc' \notin Before
                /\ UNCHANGED <<conf, tls, authVars>>
<1> SUFFICES ASSUME Forwarding
             PROVE  /\ pc \notin Before \cup {"closed"}
                    /\ pc' \notin Before
                    /\ UNCHANGED <<conf, tls, authVars>>
  OBVIOUS
<1> USE DEF Goto, clientVars, authVars, Before, Reject, Drop
<1>1. CASE NoRoute \/ DialFails \/ (\E b \in Backends : DialDirect(b)) \/ Reauth \/ ReauthFails
  BY <1>1 DEF NoRoute, DialFails, DialDirect, Reauth, ReauthFails
<1>2. CASE RelayChallenge \/ (\E right \in BOOLEAN : RelayAnswer(right)) \/ RelayChallengeFails
  BY <1>2 DEF RelayChallenge, RelayAnswer, RelayChallengeFails
<1>3. CASE RelayOther \/ RecordKey \/ SendKey \/ RelayReady \/ RelayError
  BY <1>3 DEF RelayOther, RecordKey, SendKey, RelayReady, RelayError
<1>4. CASE Begin \/ RejectPassThrough \/ ParamsCached \/ \E b \in Backends : DialPooled(b)
  BY <1>4 DEF Begin, RejectPassThrough, ParamsCached, DialPooled
<1>5. CASE ConnectorAuth \/ ConnectorRefuses \/ ConnectorFails \/ ConnectorCapture
  BY <1>5 DEF ConnectorAuth, ConnectorRefuses, ConnectorFails, ConnectorCapture
<1>6. CASE StartCustom \/ SynthesizeStartup
  BY <1>6 DEF StartCustom, SynthesizeStartup
<1> QED
  BY <1>1, <1>2, <1>3, <1>4, <1>5, <1>6 DEF Forwarding

\* TlsInv is inductive.
LEMMA TlsStep == TlsInv /\ [StartupNext]_vars => TlsInv'
<1> SUFFICES ASSUME TlsInv, [StartupNext]_vars PROVE TlsInv'
  OBVIOUS
<1> USE DEF clientVars, authVars, backendVars
<1>1. CASE Opening
  BY <1>1, TlsOpening
<1>2. CASE Authenticating
  BY <1>2, TlsAuthenticating
<1>3. CASE Forwarding
  BY <1>3, ForwardingSteps DEF TlsInv, TlsFirst, InTheClear, Before
<1>4. CASE SessionError
  BY <1>4 DEF SessionError, Drop, TlsInv, TlsFirst, InTheClear, Before
<1>5. CASE BackendFails
  BY <1>5 DEF BackendFails, TlsInv, TlsFirst, InTheClear
<1>6. CASE GssEncRequest \/ UNCHANGED vars
  BY <1>6 DEF GssEncRequest, vars, TlsInv, TlsFirst, InTheClear
<1> QED
  BY <1>1, <1>2, <1>3, <1>4, <1>5, <1>6 DEF StartupNext

\* No challenge leaves the proxy and no backend is contacted in the clear,
\* whatever packets the client sends (PgProxy::serve, "TLS required").
THEOREM StartupTlsFirst == StartupSpec => []TlsFirst
<1>1. TlsInv => TlsFirst
  BY DEF TlsInv
<1> QED
  BY <1>1, TlsInit, TlsStep, PTL DEF StartupSpec
-----------------------------------------------------------------------------
\* The client proved the password held for its user, with SCRAM properly.
Right ==
  /\ stored # NoSecret /\ stored.password = proof
  /\ conf.auth = "scram" => proper

\* The authenticator's phases, and what each has established.
VerifiedInv ==
  /\ pc \in Before => ~contacted
  /\ pc \in {"first", "final"} => conf.auth = "scram"
  /\ pc = "password" => conf.auth = "cleartext"
  /\ pc = "final" => first \in Firsts /\ Acceptable(first, conf.plus)
  /\ conf.auth # "passthrough" => (pc \notin Before \cup {"closed"} \/ contacted => Right)

\* A client-final that the proxy accepts after a client-first it accepted comes
\* from the holder of the stored password, in an exchange as RFC 5802 has it
\* (verify_client_final; the mock verifier is never passed).
LEMMA AcceptedIsProper ==
  ASSUME NEW plus \in BOOLEAN, NEW f1 \in Firsts, NEW p, NEW s, NEW f2 \in Finals(p, s),
         Acceptable(f1, plus), ProofVerifies(Secret, f1, f2)
  PROVE  stored # NoSecret /\ f2.keys = stored /\ FollowsRFC(plus, f1, f2)
<1>1. stored # NoSecret /\ f2.keys = stored
  BY DEF ProofVerifies, Secret
<1>2. f1 \in {[mechanism |-> "SCRAM-SHA-256", flag |-> "n"],
              IF plus THEN [mechanism |-> "SCRAM-SHA-256-PLUS", flag |-> "p"]
                      ELSE [mechanism |-> "SCRAM-SHA-256", flag |-> "y"]}
  BY DEF Acceptable, Firsts
<1>3. f2.nonce /\ f2.binding.flag = f1.flag
  BY DEF ProofVerifies, Binding
<1>4. f2.binding.data = IF plus /\ f1.flag = "p" THEN "certificate" ELSE "none"
  BY DEF ProofVerifies, Binding, Acceptable
<1> QED
  BY <1>1, <1>2, <1>3, <1>4 DEF FollowsRFC, ProperFirst

\* Authenticating preserves VerifiedInv: only a verified client gets through.
LEMMA VerifiedAuthenticating == conf \in Confs /\ VerifiedInv /\ Authenticating => VerifiedInv'
<1> SUFFICES ASSUME conf \in Confs, VerifiedInv, Authenticating PROVE VerifiedInv'
  OBVIOUS
<1> USE DEF Goto, clientVars, authVars, backendVars, Reject, Drop, Before
<1>1. CASE PassThrough \/ AskPassword
  BY <1>1 DEF VerifiedInv, PassThrough, AskPassword
<1>2. CASE \E p \in Passwords, k \in Keys \cup {NoSecret} : ReadPassword(p, k)
  BY <1>2 DEF VerifiedInv, ReadPassword, Validates, Right
<1>3. CASE \E a \in AdminConnections :
             LookupFails(a) \/ \E r \in Keys \cup {NoSecret} : Lookup(r, a)
  BY <1>3 DEF VerifiedInv, LookupFails, Lookup
<1>4. CASE \E f \in Firsts : ReadFirst(f)
  BY <1>4 DEF VerifiedInv, ReadFirst
<1>5. CASE pc = "final" /\ \E p \in Passwords : \E f \in Finals(p, PresentedSalt) : ReadFinal(p, f)
  <2>0. PICK p \in Passwords : \E f \in Finals(p, PresentedSalt) : ReadFinal(p, f)
    BY <1>5
  <2>1. PICK f \in Finals(p, PresentedSalt) : ReadFinal(p, f)
    BY <2>0
  <2>2. CASE ProofVerifies(Secret, first, f)
    <3>1. /\ stored # NoSecret /\ f.keys = stored
          /\ FollowsRFC(conf.plus, first, f)
      <4>1. conf.plus \in BOOLEAN /\ first \in Firsts /\ Acceptable(first, conf.plus)
        BY <1>5 DEF VerifiedInv, Confs
      <4> QED
        BY <2>2, <4>1, AcceptedIsProper
    <3>2. stored.password = p
      BY <3>1 DEF Finals, FromPassword
    <3>3. Right'
      BY <2>1, <3>1, <3>2 DEF ReadFinal, Right
    <3> QED
      BY <2>1, <2>2, <3>3 DEF ReadFinal, VerifiedInv
  <2>3. CASE ~ProofVerifies(Secret, first, f)
    BY <1>5, <2>1, <2>3 DEF ReadFinal, VerifiedInv
  <2> QED
    BY <2>2, <2>3
<1> QED
  BY <1>1, <1>2, <1>3, <1>4, <1>5 DEF Authenticating

\* The deployment is fixed, and VerifiedInv is inductive.
LEMMA VerifiedStep ==
  conf \in Confs /\ VerifiedInv /\ [StartupNext]_vars => (conf \in Confs /\ VerifiedInv)'
<1> SUFFICES ASSUME conf \in Confs, VerifiedInv, [StartupNext]_vars
             PROVE  (conf \in Confs /\ VerifiedInv)'
  OBVIOUS
<1> USE DEF clientVars, authVars, backendVars
<1>1. CASE Opening
  BY <1>1 DEF Opening, DirectTls, PlainStart, SslRequest, PlaintextStartup, CancelPacket,
              BadStartup, StartupMessage, Goto, Reject, Drop, VerifiedInv, Before
<1>2. CASE Authenticating
  <2>1. conf' = conf
    BY <1>2 DEF Authenticating, PassThrough, AskPassword, ReadPassword, Lookup, LookupFails,
                ReadFirst, ReadFinal
  <2> QED
    BY <1>2, <2>1, VerifiedAuthenticating
<1>3. CASE Forwarding
  BY <1>3, ForwardingSteps DEF VerifiedInv, Right, Before
<1>4. CASE SessionError
  BY <1>4 DEF SessionError, Drop, VerifiedInv, Right, Before
<1>5. CASE BackendFails
  BY <1>5 DEF BackendFails, VerifiedInv, Right
<1>6. CASE GssEncRequest \/ UNCHANGED vars
  BY <1>6 DEF GssEncRequest, vars, VerifiedInv, Right
<1> QED
  BY <1>1, <1>2, <1>3, <1>4, <1>5, <1>6 DEF StartupNext

\* With a terminating authenticator no backend is contacted, and no startup
\* completes, before the client proved the password held for its user: for any
\* sets of passwords and salts, and whatever the client sends.
THEOREM StartupVerifiedFirst == StartupSpec => []VerifiedFirst
<1>1. StartupInit => conf \in Confs /\ VerifiedInv
  BY DEF StartupInit, VerifiedInv, Before
<1>2. VerifiedInv => VerifiedFirst
  BY DEF VerifiedInv, VerifiedFirst, Right, Before
<1> QED
  BY <1>1, <1>2, VerifiedStep, PTL DEF StartupSpec
-----------------------------------------------------------------------------
\* What a backend that demands SCRAM has left to send while reauth_upstream reads.
SaslLeft1 == <<"sasl", "saslcontinue", "saslfinal", "ok", "params", "key", "ready">>
SaslLeft2 == <<"saslcontinue", "saslfinal", "ok", "params", "key", "ready">>
SaslLeft3 == <<"saslfinal", "ok", "params", "key", "ready">>

\* The backend has not failed, demands SCRAM, takes the replayed version, and
\* holds the verifier the client was checked against.
Faithful ==
  ~refused /\ backend.auth = "scram" /\ ~Negotiates(backend) /\ backend.account = stored

\* A reason is given once, on closing; the keys kept are those of the verifier;
\* a faithful backend meets reauth_upstream with the SASL messages in order.
RightInv ==
  /\ RightAccepted /\ KeysReusable
  /\ stored \in Keys \cup {NoSecret}
  /\ pc # "closed" => reason = "none"
  /\ conf.auth = "scram" /\ pc \notin Before \cup {"closed"} => keys = stored
  /\ pc = "reauth" /\ Faithful => script \in {SaslLeft1, SaslLeft2, SaslLeft3}
  /\ pc = "reauth" => conf.auth = "scram"

\* A client-first as RFC 5802 has it is not denied.
LEMMA ProperIsAcceptable ==
  ASSUME NEW plus \in BOOLEAN, NEW f, ProperFirst(plus, f)
  PROVE  Acceptable(f, plus)
BY DEF ProperFirst, Acceptable

\* A client-final is refused only if the client strayed from RFC 5802, has no
\* verifier, or has another password (the salt it was sent is the verifier's).
LEMMA RefusedIsWrong ==
  ASSUME NEW plus \in BOOLEAN, NEW f1, NEW p \in Passwords,
         NEW f2 \in Finals(p, PresentedSalt), stored \in Keys,
         p = stored.password, FollowsRFC(plus, f1, f2)
  PROVE  ProofVerifies(Secret, f1, f2)
<1>1. Secret = stored /\ f2.keys = FromPassword(p, stored.salt)
  BY ScramAssumption DEF Secret, Finals, FollowsRFC, ProperFirst, PresentedSalt, Keys
<1>2. FromPassword(p, stored.salt) = stored
  BY DEF FromPassword, Keys
<1>3. stored # MockSecret
  BY ScramAssumption DEF MockSecret, Keys
<1>4. f1.flag = "p" => plus
  BY DEF FollowsRFC, ProperFirst
<1>5. f2.binding = Binding(f1)
  BY <1>4 DEF Finals, Bindings, Binding, FollowsRFC, ProperFirst
<1> QED
  BY <1>1, <1>2, <1>3, <1>5 DEF ProofVerifies, FollowsRFC, ProperFirst

\* The script of a backend that demands SCRAM and does not negotiate.
LEMMA SaslScript ==
  ASSUME NEW b, b.auth = "scram", ~Negotiates(b)
  PROVE  Script(b) = SaslLeft1
<1> DEFINE s == <<"sasl", "saslcontinue", "saslfinal">>
           t == <<"ok", "params", "key", "ready">>
<1>1. Script(b) = <<>> \o s \o t
  BY DEF Script
<1>2. s \in Seq(BackendMessages) /\ Len(s) = 3 /\ t \in Seq(BackendMessages) /\ Len(t) = 4
  BY DEF BackendMessages, Challenges
<1>3. <<>> \o s = s
  BY <1>2
<1>4. /\ s \o t \in Seq(BackendMessages) /\ Len(s \o t) = 7
      /\ \A i \in 1 .. 7 : (s \o t)[i] = IF i <= 3 THEN s[i] ELSE t[i - 3]
  BY <1>2
<1>5. SaslLeft1 \in Seq(BackendMessages) /\ Len(SaslLeft1) = 7
  BY DEF SaslLeft1, BackendMessages, Challenges
<1>6. \A i \in 1 .. 7 : (s \o t)[i] = SaslLeft1[i]
  BY <1>4 DEF SaslLeft1
<1>7. s \o t = SaslLeft1
  <2> HIDE DEF s, t
  <2> QED
    BY <1>4, <1>5, <1>6, SeqEqual, Zenon
<1> QED
  BY <1>1, <1>3, <1>7

\* Reading the script.
LEMMA SaslTails ==
  /\ Head(SaslLeft1) = "sasl" /\ Tail(SaslLeft1) = SaslLeft2
  /\ Head(SaslLeft2) = "saslcontinue" /\ Tail(SaslLeft2) = SaslLeft3
  /\ Head(SaslLeft3) = "saslfinal"
  BY DEF SaslLeft1, SaslLeft2, SaslLeft3

\* Opening preserves RightInv: nobody is turned away for a password yet.
LEMMA RightOpening == RightInv /\ Opening => RightInv'
<1> SUFFICES ASSUME RightInv, Opening PROVE RightInv'
  OBVIOUS
<1>1. UNCHANGED <<stored, keys, conf>> /\ pc' \in {"plain", "session", "auth", "closed"}
  BY DEF Opening, DirectTls, PlainStart, SslRequest, PlaintextStartup, CancelPacket, BadStartup,
         StartupMessage, Goto, Reject, Drop, authVars
<1>2. reason' \in {"none", "tls", "protocol"} /\ (pc' # "closed" => reason' = "none")
  BY DEF RightInv, Opening, DirectTls, PlainStart, SslRequest, PlaintextStartup, CancelPacket,
         BadStartup, StartupMessage, Goto, Reject, Drop
<1> QED
  BY <1>1, <1>2 DEF RightInv, RightAccepted, KeysReusable, Before

\* Authenticating preserves RightInv: each denial has its cause.
LEMMA RightAuthenticating ==
  conf \in Confs /\ VerifiedInv /\ RightInv /\ Authenticating => RightInv'
<1> SUFFICES ASSUME conf \in Confs, VerifiedInv, RightInv, Authenticating PROVE RightInv'
  OBVIOUS
<1> USE DEF Goto, clientVars, authVars, backendVars, Reject, Drop, Before
<1>1. CASE PassThrough \/ AskPassword
  BY <1>1 DEF RightInv, RightAccepted, KeysReusable, PassThrough, AskPassword
<1>2. CASE \E p \in Passwords, k \in Keys \cup {NoSecret} : ReadPassword(p, k)
  BY <1>2 DEF RightInv, RightAccepted, KeysReusable, VerifiedInv, ReadPassword, Validates
<1>3. CASE \E a \in AdminConnections :
             LookupFails(a) \/ \E r \in Keys \cup {NoSecret} : Lookup(r, a)
  BY <1>3 DEF RightInv, RightAccepted, KeysReusable, LookupFails, Lookup, GetSecret
<1>4. ASSUME NEW f \in Firsts, ReadFirst(f) PROVE RightInv'
  <2>1. conf.plus \in BOOLEAN
    BY DEF Confs
  <2>2. ProperFirst(conf.plus, f) => Acceptable(f, conf.plus)
    BY <2>1, ProperIsAcceptable
  <2> QED
    BY <1>4, <2>2 DEF RightInv, RightAccepted, KeysReusable, ReadFirst
<1>5. CASE pc = "final" /\ \E p \in Passwords : \E f \in Finals(p, PresentedSalt) : ReadFinal(p, f)
  <2>0. PICK p \in Passwords : \E f \in Finals(p, PresentedSalt) : ReadFinal(p, f)
    BY <1>5
  <2>1. PICK f \in Finals(p, PresentedSalt) : ReadFinal(p, f)
    BY <2>0
  <2>2. CASE ProofVerifies(Secret, first, f)
    <3>1. f.keys = stored
      BY <2>2 DEF ProofVerifies, Secret
    <3> QED
      BY <1>5, <2>1, <2>2, <3>1 DEF ReadFinal, RightInv, RightAccepted, KeysReusable
  <2>3. CASE ~ProofVerifies(Secret, first, f)
    <3>1. conf.plus \in BOOLEAN
      BY DEF Confs
    <3>2. ~FollowsRFC(conf.plus, first, f) \/ stored = NoSecret \/ p # stored.password
      BY <2>3, <3>1, RefusedIsWrong DEF RightInv
    <3> QED
      BY <1>5, <2>1, <2>3, <3>2 DEF ReadFinal, RightInv, RightAccepted, KeysReusable
  <2> QED
    BY <2>2, <2>3
<1> QED
  BY <1>1, <1>2, <1>3, <1>4, <1>5 DEF Authenticating

\* reauth_upstream preserves RightInv: a faithful backend takes its messages in
\* turn and is satisfied with the keys recovered from the client's proof.
LEMMA RightReauth == RightInv /\ (Reauth \/ ReauthFails) => RightInv'
<1> SUFFICES ASSUME RightInv, Reauth \/ ReauthFails PROVE RightInv'
  OBVIOUS
<1> USE DEF authVars, clientVars
<1>1. /\ pc = "reauth" /\ reason = "none" /\ conf.auth = "scram" /\ keys = stored
      /\ UNCHANGED <<conf, stored, proof, proper, keys, backend>>
  BY DEF RightInv, Reauth, ReauthFails, Receive, ReceiveAndAnswer, Before
<1>2. Negotiates(backend)' <=> Negotiates(backend)
  BY <1>1 DEF Negotiates
<1>3. CASE Reauth
  <2>1. pc' \in {"reauth", "relay"} /\ reason' = "none"
    BY <1>1, <1>3 DEF Reauth
  <2>2. ASSUME pc' = "reauth", Faithful' PROVE script' \in {SaslLeft1, SaslLeft2, SaslLeft3}
    <3>1. Faithful
      <4>1. ~refused
        BY <1>3, <2>2, Zenon DEF Reauth, Receive, ReceiveAndAnswer, Faithful
      <4> QED
        BY <1>1, <1>2, <2>2, <4>1 DEF Faithful
    <3>2. script \in {SaslLeft1, SaslLeft2, SaslLeft3}
      BY <1>1, <3>1 DEF RightInv
    <3>3. CASE Receive("sasl")
      BY <3>2, <3>3, SaslTails DEF Receive, Pending
    <3>4. CASE ReceiveAndAnswer("saslcontinue", keys = backend.account)
      <4>1. keys = backend.account
        BY <1>1, <3>1 DEF Faithful
      <4> QED
        BY <3>2, <3>4, <4>1, SaslTails DEF ReceiveAndAnswer, Pending
    <3> QED
      BY <1>1, <1>3, <2>2, <3>3, <3>4 DEF Reauth
  <2> QED
    BY <1>1, <2>1, <2>2 DEF RightInv, RightAccepted, KeysReusable, Before
<1>4. CASE ReauthFails
  <2>1. ~Faithful
    <3> SUFFICES ASSUME Faithful PROVE FALSE
      OBVIOUS
    <3>1. script \in {SaslLeft1, SaslLeft2, SaslLeft3}
      BY <1>1 DEF RightInv
    <3> QED
      BY <1>4, <3>1, SaslTails DEF ReauthFails, Receive, Pending
  <2>2. pc' = "closed" /\ reason' = "reauth" /\ refused' = refused
    BY <1>4 DEF ReauthFails, Drop, Receive
  <2>3. Faithful' = Faithful
    BY <1>1, <1>2, <2>2 DEF Faithful
  <2> QED
    BY <1>1, <2>1, <2>2, <2>3 DEF RightInv, RightAccepted, KeysReusable, Faithful
<1> QED
  BY <1>3, <1>4

\* The other steps of the forwarders preserve RightInv.
LEMMA RightForwarding == RightInv /\ Forwarding => RightInv'
<1> SUFFICES ASSUME RightInv, Forwarding PROVE RightInv'
  OBVIOUS
<1>0. /\ pc \notin Before \cup {"closed"} /\ pc' \notin Before
      /\ UNCHANGED <<conf, stored, proof, proper, keys>>
      /\ reason = "none"
  BY ForwardingSteps DEF authVars, RightInv
<1>1. CASE Reauth \/ ReauthFails
  BY <1>1, RightReauth
<1>2. CASE \E b \in Backends : DialDirect(b)
  <2>1. PICK b \in Backends : DialDirect(b)
    BY <1>2
  <2>2. /\ backend' = b /\ script' = Script(b) /\ reason' = "none" /\ pc' \in {"reauth", "relay"}
        /\ pc' = "reauth" => conf.auth = "scram"
    BY <1>0, <2>1 DEF DialDirect, ReplayStartup, Goto
  <2>3. Negotiates(backend)' <=> Negotiates(b)
    BY <1>0, <2>2 DEF Negotiates
  <2>4. Faithful' => script' = SaslLeft1
    BY <2>2, <2>3, SaslScript DEF Faithful
  <2> QED
    BY <1>0, <2>2, <2>4 DEF RightInv, RightAccepted, KeysReusable
<1>3. CASE ~(Reauth \/ ReauthFails) /\ ~\E b \in Backends : DialDirect(b)
  <2>1. pc' # "reauth"
    BY <1>3 DEF Forwarding, NoRoute, DialFails, RelayChallenge, RelayAnswer, RelayChallengeFails,
       RelayOther, RecordKey, SendKey, RelayReady, RelayError, Begin, RejectPassThrough, ParamsCached,
       DialPooled, ConnectorAuth, ConnectorRefuses, ConnectorFails, ConnectorCapture,
       StartCustom, SynthesizeStartup, Goto, Reject, Drop
  <2>2. reason' \notin {"mechanism", "password", "reauth"} /\ (pc' # "closed" => reason' = "none")
    BY <1>0, <1>3 DEF Forwarding, NoRoute, DialFails, RelayChallenge, RelayAnswer,
       RelayChallengeFails, RelayOther, RecordKey, SendKey, RelayReady, RelayError, Begin,
       RejectPassThrough, ParamsCached, DialPooled, ConnectorAuth, ConnectorRefuses,
       ConnectorFails, ConnectorCapture, StartCustom, SynthesizeStartup, Goto, Reject, Drop
  <2> QED
    BY <1>0, <2>1, <2>2 DEF RightInv, RightAccepted, KeysReusable
<1> QED
  BY <1>1, <1>2, <1>3

\* RightInv is inductive, with VerifiedInv.
LEMMA RightStep == conf \in Confs /\ VerifiedInv /\ RightInv /\ [StartupNext]_vars => RightInv'
<1> SUFFICES ASSUME conf \in Confs, VerifiedInv, RightInv, [StartupNext]_vars PROVE RightInv'
  OBVIOUS
<1> USE DEF clientVars, authVars, backendVars
<1>1. CASE Opening
  BY <1>1, RightOpening
<1>2. CASE Authenticating
  BY <1>2, RightAuthenticating
<1>3. CASE Forwarding
  BY <1>3, RightForwarding
<1>4. CASE SessionError
  BY <1>4 DEF SessionError, Drop, RightInv, RightAccepted, KeysReusable, Negotiates
<1>5. CASE BackendFails
  BY <1>5 DEF BackendFails, RightInv, RightAccepted, KeysReusable, Faithful, Negotiates
<1>6. CASE GssEncRequest \/ UNCHANGED vars
  BY <1>6 DEF GssEncRequest, vars, RightInv, RightAccepted, KeysReusable, Faithful, Negotiates
<1> QED
  BY <1>1, <1>2, <1>3, <1>4, <1>5, <1>6 DEF StartupNext

\* A client that follows SCRAM and has the right password is never denied:
\* neither its client-first (ScramSha256's checks of mechanism and GS2 flag) nor
\* its client-final.
THEOREM StartupRightAccepted == StartupSpec => []RightAccepted
<1>1. StartupInit => conf \in Confs /\ VerifiedInv /\ RightInv
  BY DEF StartupInit, VerifiedInv, RightInv, RightAccepted, KeysReusable, Before
<1>2. RightInv => RightAccepted
  BY DEF RightInv
<1> QED
  BY <1>1, <1>2, VerifiedStep, RightStep, PTL DEF StartupSpec

\* The keys recovered from the client's proof satisfy every backend that demands
\* SCRAM, has the verifier the client was checked against, takes the replayed
\* version and does not fail (reauth_upstream).
THEOREM StartupKeysReusable == StartupSpec => []KeysReusable
<1>1. StartupInit => conf \in Confs /\ VerifiedInv /\ RightInv
  BY DEF StartupInit, VerifiedInv, RightInv, RightAccepted, KeysReusable, Before
<1>2. RightInv => KeysReusable
  BY DEF RightInv
<1> QED
  BY <1>1, <1>2, VerifiedStep, RightStep, PTL DEF StartupSpec
-----------------------------------------------------------------------------
(* What the backend has still to send *)

\* The messages that come before AuthenticationOk.
Preamble == Challenges \cup {"negotiate", "saslfinal"}

\* The end of a startup: AuthenticationOk, ParameterStatus, BackendKeyData and
\* ReadyForQuery, told apart by how many messages follow.
Ordered(s) ==
  \A i \in DOMAIN s :
     /\ Len(s) - i = 0 => s[i] = "ready"
     /\ Len(s) - i = 1 => s[i] = "key"
     /\ Len(s) - i = 2 => s[i] = "params"
     /\ Len(s) - i = 3 => s[i] = "ok"
     /\ Len(s) - i > 3 => s[i] \in Preamble

\* Where a direct session reads from its backend, and where the other
\* forwarders have begun their cancel session.
Upstream == {"reauth", "relay", "answer", "keyed"}
Started == {"begun", "connector", "capture", "synth"}

\* A backend that is relayed from has failed, or goes on with its startup where
\* it is; it has not sent AuthenticationOk as long as it is authenticated to.
ScriptInv ==
  /\ conf \in Confs /\ script \in Seq(BackendMessages)
  /\ pc \in Upstream => conf.mode = "direct"
  /\ pc \in Started => conf.mode # "direct" /\ key = Begun
  /\ pc \in Upstream /\ script # <<"error">> => script # <<>> /\ Ordered(script)
  /\ pc \in {"reauth", "answer"} /\ script # <<"error">> => Len(script) >= 4
  /\ pc = "keyed" /\ script # <<"error">> => Len(script) = 1

\* The next message of a startup tells how far it is, and its rest is ordered.
LEMMA ReadOrdered ==
  ASSUME NEW s \in Seq(BackendMessages), s # <<>>, Ordered(s)
  PROVE  /\ Len(s) \in Nat \ {0} /\ Tail(s) \in Seq(BackendMessages)
         /\ Len(Tail(s)) = Len(s) - 1 /\ Ordered(Tail(s))
         /\ Head(s) = "ready" => Len(s) = 1
         /\ Head(s) = "key" => Len(s) = 2
         /\ Head(s) = "params" => Len(s) = 3
         /\ Head(s) = "ok" => Len(s) = 4
         /\ Head(s) \in Preamble => Len(s) > 4
         /\ Head(s) # "error"
<1>1. /\ Tail(s) \in Seq(BackendMessages) /\ Len(s) \in Nat /\ Len(Tail(s)) = Len(s) - 1
      /\ DOMAIN s = 1 .. Len(s) /\ DOMAIN Tail(s) = 1 .. Len(s) - 1
      /\ 1 \in DOMAIN s /\ Head(s) = s[1]
      /\ \A i \in DOMAIN Tail(s) : i + 1 \in DOMAIN s /\ Tail(s)[i] = s[i + 1]
  BY TailFacts
<1>2. ASSUME NEW i \in DOMAIN Tail(s)
      PROVE  i + 1 \in DOMAIN s /\ Tail(s)[i] = s[i + 1] /\ Len(Tail(s)) - i = Len(s) - (i + 1)
  BY <1>1
<1>3. Ordered(Tail(s))
  BY <1>2 DEF Ordered
<1>4. Len(s) \in Nat \ {0} /\ (Len(s) - 1 > 3 \/ Len(s) \in 1 .. 4)
  BY <1>1
<1>5. /\ Len(s) = 1 => s[1] = "ready"
      /\ Len(s) = 2 => s[1] = "key"
      /\ Len(s) = 3 => s[1] = "params"
      /\ Len(s) = 4 => s[1] = "ok"
      /\ Len(s) > 4 => s[1] \in Preamble
  <2>1. /\ Len(s) - 1 = 0 => s[1] = "ready"
        /\ Len(s) - 1 = 1 => s[1] = "key"
        /\ Len(s) - 1 = 2 => s[1] = "params"
        /\ Len(s) - 1 = 3 => s[1] = "ok"
        /\ Len(s) - 1 > 3 => s[1] \in Preamble
    BY <1>1, Zenon DEF Ordered
  <2> QED
    BY <1>4, <2>1
<1> QED
  BY <1>1, <1>3, <1>4, <1>5 DEF Preamble, Challenges

\* What a backend sends is ordered, and opens with NegotiateProtocolVersion if it
\* negotiates.
LEMMA ScriptOrdered ==
  ASSUME NEW b \in Backends
  PROVE  /\ Script(b) \in Seq(BackendMessages) /\ Len(Script(b)) \in Nat
         /\ Len(Script(b)) >= 4 /\ Script(b) # <<>> /\ Ordered(Script(b))
         /\ Negotiates(b) => 1 \in DOMAIN Script(b) /\ Script(b)[1] = "negotiate"
<1> DEFINE p == IF Negotiates(b) THEN <<"negotiate">> ELSE <<>>
           a == CASE b.auth = "trust" -> <<>>
                  [] b.auth = "cleartext" -> <<"cleartext">>
                  [] b.auth = "md5" -> <<"md5">>
                  [] b.auth = "scram" -> <<"sasl", "saslcontinue", "saslfinal">>
           t == <<"ok", "params", "key", "ready">>
<1>1. Script(b) = p \o a \o t
  BY DEF Script
<1>2. <<>> \in Seq(Preamble)
  BY EmptySeq, Zenon
<1>3. p \in Seq(Preamble) /\ (Negotiates(b) => Len(p) = 1 /\ p[1] = "negotiate")
  <2>1. <<"negotiate">> \in Seq(Preamble) /\ Len(<<"negotiate">>) = 1
    BY DEF Preamble
  <2> QED
    BY <1>2, <2>1
<1>4. a \in Seq(Preamble)
  <2>1. b.auth \in {"trust", "cleartext", "md5", "scram"}
    BY StartupAssumption DEF Backends
  <2>2. /\ <<"cleartext">> \in Seq(Preamble) /\ <<"md5">> \in Seq(Preamble)
        /\ <<"sasl", "saslcontinue", "saslfinal">> \in Seq(Preamble)
    BY DEF Preamble, Challenges
  <2> QED
    BY <1>2, <2>1, <2>2
<1>5. PICK q \in Seq(Preamble) :
        /\ q = p \o a
        /\ Negotiates(b) => 1 \in DOMAIN q /\ q[1] = "negotiate"
  <2> HIDE DEF p, a
  <2>1. p \o a \in Seq(Preamble)
        /\ (Negotiates(b) => 1 \in DOMAIN (p \o a) /\ (p \o a)[1] = "negotiate")
    BY <1>3, <1>4
  <2> QED
    BY <2>1
<1>6. /\ t \in Seq(BackendMessages) /\ Len(t) = 4
      /\ t[1] = "ok" /\ t[2] = "params" /\ t[3] = "key" /\ t[4] = "ready"
  BY DEF BackendMessages
<1>7. PICK s : s = q \o t
  OBVIOUS
<1> HIDE DEF p, a, t
<1>8. q \in Seq(BackendMessages)
  BY DEF Preamble, BackendMessages
<1>9. /\ s \in Seq(BackendMessages) /\ Len(q) \in Nat /\ Len(s) = Len(q) + 4
      /\ DOMAIN s = 1 .. Len(q) + 4
      /\ \A i \in 1 .. Len(q) : s[i] = q[i] /\ q[i] \in Preamble
      /\ \A i \in 1 .. 4 : s[Len(q) + i] = t[i]
  <2>0. /\ s \in Seq(BackendMessages) /\ Len(s) = Len(q) + Len(t)
        /\ \A i \in 1 .. Len(q) + Len(t) : s[i] = IF i <= Len(q) THEN q[i] ELSE t[i - Len(q)]
    BY <1>6, <1>7, <1>8, ConcatProperties
  <2>1. s \in Seq(BackendMessages) /\ Len(q) \in Nat /\ Len(s) = Len(q) + 4
    BY <1>6, <2>0
  <2>2. DOMAIN s = 1 .. Len(q) + 4
    BY <2>1
  <2>3. \A i \in 1 .. Len(q) : s[i] = q[i] /\ q[i] \in Preamble
    BY <1>6, <2>0, <2>1
  <2>4. \A i \in 1 .. 4 : s[Len(q) + i] = t[i]
    <3> SUFFICES ASSUME NEW i \in 1 .. 4 PROVE s[Len(q) + i] = t[i]
      OBVIOUS
    <3>1. Len(q) + i \in 1 .. Len(q) + 4 /\ ~(Len(q) + i <= Len(q)) /\ (Len(q) + i) - Len(q) = i
      BY <2>1
    <3> QED
      BY <1>6, <2>0, <3>1
  <2> QED
    BY <2>1, <2>2, <2>3, <2>4
<1>10. s[Len(q) + 1] = "ok" /\ s[Len(q) + 2] = "params" /\ s[Len(q) + 3] = "key"
       /\ s[Len(q) + 4] = "ready"
  BY <1>6, <1>9
<1>11. Ordered(s)
  <2> SUFFICES ASSUME NEW i \in 1 .. Len(q) + 4
               PROVE  /\ Len(s) - i = 0 => s[i] = "ready"
                      /\ Len(s) - i = 1 => s[i] = "key"
                      /\ Len(s) - i = 2 => s[i] = "params"
                      /\ Len(s) - i = 3 => s[i] = "ok"
                      /\ Len(s) - i > 3 => s[i] \in Preamble
    BY <1>9 DEF Ordered
  <2>1. i \in 1 .. Len(q) \/ i \in {Len(q) + 1, Len(q) + 2, Len(q) + 3, Len(q) + 4}
    BY <1>9
  <2> QED
    BY <1>9, <1>10, <2>1
<1>12. Negotiates(b) => 1 \in DOMAIN s /\ s[1] = "negotiate"
  BY <1>5, <1>9
<1>13. Len(s) >= 4 /\ s # <<>>
  BY <1>9
<1> QED
  BY <1>1, <1>5, <1>7, <1>9, <1>11, <1>12, <1>13

\* Opening, authenticating and giving up do not touch the backend.
LEMMA ScriptBefore ==
  ASSUME ScriptInv, Opening \/ Authenticating \/ SessionError
  PROVE  ScriptInv'
<1>1. /\ UNCHANGED <<conf, script>>
      /\ pc' \in Before \cup {"forward", "closed"}
  BY DEF Opening, DirectTls, PlainStart, SslRequest, PlaintextStartup, CancelPacket, BadStartup,
         StartupMessage, Authenticating, PassThrough, AskPassword, ReadPassword, Lookup,
         LookupFails, ReadFirst, ReadFinal, SessionError, Goto, Reject, Drop, backendVars, Before
<1> QED
  BY <1>1 DEF ScriptInv, Upstream, Started, Before

\* A message m that a direct session reads, and what the backend has left then.
LEMMA ReadUpstream ==
  ASSUME ScriptInv, pc \in Upstream, NEW m, Pending(m), m # "error"
  PROVE  /\ script # <<"error">> /\ Len(script) \in Nat \ {0}
         /\ Tail(script) \in Seq(BackendMessages)
         /\ Len(Tail(script)) = Len(script) - 1 /\ Ordered(Tail(script))
         /\ m = "ready" => Len(script) = 1
         /\ m = "key" => Len(script) = 2
         /\ m = "params" => Len(script) = 3
         /\ m = "ok" => Len(script) = 4
         /\ m \in Preamble => Len(script) > 4
         /\ m # "ready" => Tail(script) # <<>> /\ Len(script) > 1
<1>1. script # <<>> /\ Head(script) = m /\ script # <<"error">>
  <2>1. script # <<>> /\ Head(script) = m
    BY DEF Pending
  <2>2. Head(<<"error">>) = "error"
    OBVIOUS
  <2> QED
    BY <2>1, <2>2
<1>2. Ordered(script) /\ script \in Seq(BackendMessages)
  BY <1>1 DEF ScriptInv
<1>3. /\ Len(script) \in Nat \ {0} /\ Tail(script) \in Seq(BackendMessages)
      /\ Len(Tail(script)) = Len(script) - 1 /\ Ordered(Tail(script))
      /\ m = "ready" => Len(script) = 1
      /\ m = "key" => Len(script) = 2
      /\ m = "params" => Len(script) = 3
      /\ m = "ok" => Len(script) = 4
      /\ m \in Preamble => Len(script) > 4
  BY <1>1, <1>2, ReadOrdered
<1>4. m # "ready" => Len(script) # 1
  <2> SUFFICES ASSUME Len(script) = 1 PROVE m = "ready"
    OBVIOUS
  <2>1. 1 \in DOMAIN script /\ Head(script) = script[1] /\ Len(script) - 1 = 0
    BY <1>1, <1>2, TailFacts
  <2> QED
    BY <1>1, <1>2, <2>1, Zenon DEF Ordered
<1>5. Len(script) > 1 => Tail(script) # <<>>
  <2>1. Len(<<>>) = 0
    OBVIOUS
  <2> QED
    BY <1>3, <2>1
<1>6. m # "ready" => Tail(script) # <<>> /\ Len(script) > 1
  BY <1>3, <1>4, <1>5
<1> QED
  BY <1>1, <1>3, <1>6

\* Every step of a forwarder preserves ScriptInv.
LEMMA ScriptForwarding == ScriptInv /\ Forwarding => ScriptInv'
<1> SUFFICES ASSUME ScriptInv, Forwarding PROVE ScriptInv'
  OBVIOUS
<1>0. conf' = conf /\ pc \notin Before \cup {"closed"} /\ pc' \notin Before
  BY ForwardingSteps
<1>e. <<"error">> \in Seq(BackendMessages)
  BY DEF BackendMessages
<1>t. script # <<>> => Tail(script) \in Seq(BackendMessages)
  BY TailFacts DEF ScriptInv
\* The session is closed or served, or leaves the backend alone.
<1>1. ASSUME pc' \in {"closed", "served"}, script' \in Seq(BackendMessages) PROVE ScriptInv'
  BY <1>0, <1>1 DEF ScriptInv, Upstream, Started
<1>2. CASE NoRoute \/ DialFails \/ ReauthFails \/ RelayChallengeFails \/ RelayReady \/ RelayError
           \/ RejectPassThrough \/ ConnectorRefuses \/ ConnectorFails \/ SynthesizeStartup
  <2>1. pc' \in {"closed", "served"}
    BY <1>2 DEF NoRoute, DialFails, ReauthFails, RelayChallengeFails, RelayReady, RelayError,
       RejectPassThrough, ConnectorRefuses, ConnectorFails, SynthesizeStartup, Goto, Reject, Drop
  <2>2. script' = script \/ (script # <<>> /\ script' = Tail(script))
    BY <1>2 DEF NoRoute, DialFails, ReauthFails, RelayChallengeFails, RelayReady, RelayError,
       RejectPassThrough, ConnectorRefuses, ConnectorFails, SynthesizeStartup, Receive, Pending,
       backendVars
  <2> QED
    BY <1>1, <1>t, <2>1, <2>2 DEF ScriptInv
<1>3. CASE Begin \/ ParamsCached \/ StartCustom
  BY <1>0, <1>3 DEF Begin, ParamsCached, StartCustom, Goto, backendVars, ScriptInv, Upstream,
                    Started, Begun
<1>4. CASE \E b \in Backends : DialDirect(b)
  <2>1. PICK b \in Backends : DialDirect(b)
    BY <1>4
  <2>2. pc' \in {"reauth", "relay"} /\ script' = Script(b) /\ conf.mode = "direct"
    BY <2>1 DEF DialDirect, Goto, ReplayStartup
  <2> QED
    BY <1>0, <2>2, ScriptOrdered DEF ScriptInv, Upstream, Started
<1>5. CASE \E b \in Backends : DialPooled(b)
  <2>1. PICK b \in Backends : DialPooled(b)
    BY <1>5
  <2>2. pc = "begun" /\ pc' = "connector" /\ script' = Script(b) /\ key' = key
    BY <2>1 DEF DialPooled, Goto, ReplayStartup
  <2> QED
    BY <1>0, <2>2, ScriptOrdered DEF ScriptInv, Upstream, Started, Begun
<1>6. CASE ConnectorAuth \/ ConnectorCapture
  <2>1. pc \in Started /\ pc' \in Started /\ key' = key
    BY <1>6 DEF ConnectorAuth, ConnectorCapture, Started
  <2>2. script # <<>> /\ script' \in {Tail(script), <<"error">>}
    BY <1>6 DEF ConnectorAuth, ConnectorCapture, AnswerWithPassword, Receive, ReceiveAndAnswer,
                Pending
  <2> QED
    BY <1>0, <1>e, <1>t, <2>1, <2>2 DEF ScriptInv, Upstream, Started, Begun
<1>7. CASE Reauth
  <2>1. PICK m \in {"sasl", "saslcontinue", "saslfinal"} : Pending(m)
    BY <1>7 DEF Reauth, Receive, ReceiveAndAnswer
  <2>2. /\ pc = "reauth" /\ pc' \in {"reauth", "relay"}
        /\ script' = Tail(script) \/ script' = <<"error">>
    BY <1>7 DEF Reauth, Receive, ReceiveAndAnswer
  <2>3. /\ Len(script) > 4 /\ Len(script) \in Nat /\ Len(Tail(script)) = Len(script) - 1
        /\ Tail(script) # <<>> /\ Ordered(Tail(script))
    BY <2>1, <2>2, ReadUpstream DEF Upstream, Preamble, Challenges
  <2>4. Len(Tail(script)) >= 4 /\ script # <<>>
    BY <2>1, <2>3 DEF Pending
  <2> QED
    BY <1>0, <1>e, <1>t, <2>2, <2>3, <2>4 DEF ScriptInv, Upstream, Started
<1>8. CASE RelayChallenge
  <2>1. PICK m \in Challenges \cup {"saslfinal"} :
          Pending(m) /\ script' = Tail(script) /\ pc' \in {"answer", "relay"}
    BY <1>8 DEF RelayChallenge
  <2>2. pc = "relay"
    BY <1>8 DEF RelayChallenge
  <2>3. /\ Len(script) > 4 /\ Len(script) \in Nat /\ Len(Tail(script)) = Len(script) - 1
        /\ Tail(script) # <<>> /\ Ordered(Tail(script))
    BY <2>1, <2>2, ReadUpstream DEF Upstream, Preamble, Challenges
  <2>4. Len(Tail(script)) >= 4 /\ script # <<>>
    BY <2>1, <2>3 DEF Pending
  <2> QED
    BY <1>0, <1>t, <2>1, <2>2, <2>3, <2>4 DEF ScriptInv, Upstream, Started
<1>9. CASE \E right \in BOOLEAN : RelayAnswer(right)
  <2>1. pc = "answer" /\ pc' = "relay" /\ script' \in {script, <<"error">>}
    BY <1>9 DEF RelayAnswer, Goto
  <2> QED
    BY <1>0, <1>e, <2>1 DEF ScriptInv, Upstream, Started
<1>10. CASE RelayOther \/ RecordKey
  <2>1. PICK m \in {"negotiate", "ok", "params", "key"} : Pending(m) /\ script' = Tail(script)
    BY <1>10 DEF RelayOther, RecordKey, Receive
  <2>2. pc = "relay" /\ (pc' = "relay" \/ (pc' = "keyed" /\ Pending("key")))
    BY <1>10 DEF RelayOther, RecordKey, Receive, Goto
  <2>3. /\ Tail(script) # <<>> /\ Ordered(Tail(script)) /\ Tail(script) \in Seq(BackendMessages)
        /\ Len(Tail(script)) = Len(script) - 1 /\ (Pending("key") => Len(script) = 2)
    BY <2>1, <2>2, ReadUpstream DEF Upstream
  <2> QED
    BY <1>0, <2>1, <2>2, <2>3 DEF ScriptInv, Upstream, Started
<1>11. CASE SendKey
  BY <1>0, <1>11 DEF SendKey, Goto, backendVars, ScriptInv, Upstream, Started
<1> QED
  BY <1>2, <1>3, <1>4, <1>5, <1>6, <1>7, <1>8, <1>9, <1>10, <1>11 DEF Forwarding

\* ScriptInv is inductive.
LEMMA ScriptStep == ScriptInv /\ [StartupNext]_vars => ScriptInv'
<1> SUFFICES ASSUME ScriptInv, [StartupNext]_vars PROVE ScriptInv'
  OBVIOUS
<1>1. CASE Opening \/ Authenticating \/ SessionError
  BY <1>1, ScriptBefore
<1>2. CASE Forwarding
  BY <1>2, ScriptForwarding
<1>3. CASE BackendFails
  <2>1. <<"error">> \in Seq(BackendMessages)
    BY DEF BackendMessages
  <2> QED
    BY <1>3, <2>1 DEF BackendFails, ScriptInv, Begun
<1>4. CASE GssEncRequest \/ UNCHANGED vars
  BY <1>4 DEF GssEncRequest, vars, backendVars, ScriptInv, Begun
<1> QED
  BY <1>1, <1>2, <1>3, <1>4 DEF StartupNext

\* ScriptInv holds in the initial states.
LEMMA ScriptInit == StartupInit => ScriptInv
<1>1. <<>> \in Seq(BackendMessages)
  BY EmptySeq, Zenon
<1> QED
  BY <1>1 DEF StartupInit, ScriptInv, Upstream, Started
-----------------------------------------------------------------------------
(* What the client has seen *)

\* It has seen no part of the end of a startup.
Quiet == Count({"ok"}) = 0 /\ Count(CancelKeys) = 0 /\ Count({"ready"}) = 0

OkThenKey == \E i, j \in DOMAIN seen : i < j /\ seen[i] = "ok" /\ seen[j] \in CancelKeys

\* It has seen what the backend it is relayed from has sent.
Told ==
  /\ Count({"ok"}) = IF Len(script) <= 3 THEN 1 ELSE 0
  /\ Count(CancelKeys) = IF Len(script) <= 1 THEN 1 ELSE 0
  /\ Count({"ready"}) = 0
  /\ Len(script) <= 1 => OkThenKey

\* The backend's key is recorded, and the client waits for its own.
Recorded ==
  /\ Count({"ok"}) = 1 /\ Count(CancelKeys) = 0 /\ Count({"ready"}) = 0
  /\ conf.mediated => key = "routed"

\* What the client was sent, by where the task is; nothing of the end of a
\* startup before relay_startup or synthesize_startup.
SeenInv ==
  /\ seen \in Seq(Shown)
  /\ pc # "closed" => Count({"error"}) = 0
  /\ pc \notin {"relay", "keyed", "served", "closed"} => Quiet
  /\ pc = "relay" /\ script # <<"error">> => Told
  /\ pc = "keyed" => Recorded
  /\ OneCompletion
  /\ KeyMediated

\* Nothing is sent.
LEMMA SentNone ==
  ASSUME seen' = seen
  PROVE  (\A ms : Count(ms)' = Count(ms)) /\ (Quiet' <=> Quiet) /\ (OkThenKey' <=> OkThenKey)
  BY DEF Count, Quiet, OkThenKey

\* One message is sent.
LEMMA SentOne ==
  ASSUME seen \in Seq(Shown), NEW x \in Shown, seen' = seen \o <<x>>
  PROVE  /\ seen' \in Seq(Shown) /\ Len(seen) \in Nat /\ Len(seen') = Len(seen) + 1
         /\ DOMAIN seen = 1 .. Len(seen) /\ DOMAIN seen' = 1 .. Len(seen) + 1
         /\ seen'[Len(seen) + 1] = x /\ \A i \in DOMAIN seen : seen'[i] = seen[i]
         /\ \A ms : /\ Count(ms) \in Nat
                    /\ x \in ms => Count(ms)' = Count(ms) + 1
                    /\ x \notin ms => Count(ms)' = Count(ms)
         /\ OkThenKey => OkThenKey'
<1>1. seen' = Append(seen, x)
  BY AppendIsConcat
<1>2. /\ seen' \in Seq(Shown) /\ Len(seen) \in Nat /\ Len(seen') = Len(seen) + 1
      /\ DOMAIN seen = 1 .. Len(seen) /\ DOMAIN seen' = 1 .. Len(seen) + 1
      /\ seen'[Len(seen) + 1] = x /\ \A i \in DOMAIN seen : seen'[i] = seen[i]
  BY <1>1, AppendFacts
<1>3. ASSUME NEW ms
      PROVE  /\ Count(ms) \in Nat
             /\ x \in ms => Count(ms)' = Count(ms) + 1
             /\ x \notin ms => Count(ms)' = Count(ms)
  <2>1. Count(ms) = CountIn(seen, ms) /\ Count(ms)' = CountIn(seen', ms)
    BY DEF Count, CountIn
  <2>2. CountIn(seen, ms) \in Nat
    BY CountType
  <2>3. /\ x \in ms => CountIn(seen', ms) = CountIn(seen, ms) + 1
        /\ x \notin ms => CountIn(seen', ms) = CountIn(seen, ms)
    <3>1. /\ x \in ms => CountIn(Append(seen, x), ms) = CountIn(seen, ms) + 1
          /\ x \notin ms => CountIn(Append(seen, x), ms) = CountIn(seen, ms)
      BY CountAppend
    <3> QED
      BY <1>1, <3>1
  <2> QED
    BY <2>1, <2>2, <2>3
<1>4. OkThenKey => OkThenKey'
  BY <1>2 DEF OkThenKey
<1> QED
  BY <1>2, <1>3, <1>4

\* Before the end of a startup nothing is sent but negotiation and
\* authentication, and an error only on closing.
LEMMA SeenEarly ==
  ASSUME SeenInv, pc \notin {"relay", "keyed", "served", "closed"},
         pc' \notin {"relay", "keyed", "served"},
         conf' = conf,
         \/ seen' = seen
         \/ \E x \in {"negotiate", "challenge", "saslfinal", "error"} :
               seen' = seen \o <<x>> /\ (x = "error" => pc' = "closed")
  PROVE  SeenInv'
<1>1. Quiet /\ Count({"error"}) = 0 /\ (conf.mediated => Count({"backendkey"}) = 0)
  BY DEF SeenInv, KeyMediated
<1>2. CASE seen' = seen
  <2>1. /\ Quiet' /\ Count({"error"})' = 0 /\ Count(CancelKeys)' = 0
        /\ conf.mediated => Count({"backendkey"})' = 0
    BY <1>1, <1>2, SentNone DEF Quiet
  <2> QED
    BY <1>2, <2>1 DEF SeenInv, OneCompletion, KeyMediated
<1>3. CASE \E x \in {"negotiate", "challenge", "saslfinal", "error"} :
               seen' = seen \o <<x>> /\ (x = "error" => pc' = "closed")
  <2>1. PICK x \in {"negotiate", "challenge", "saslfinal", "error"} :
               seen' = seen \o <<x>> /\ (x = "error" => pc' = "closed")
    BY <1>3
  <2>2. x \in Shown /\ x \notin CancelKeys /\ x \notin {"ok"} /\ x \notin {"ready"}
        /\ x \notin {"backendkey"} /\ (pc' # "closed" => x \notin {"error"})
    BY <2>1 DEF Shown, CancelKeys
  <2>3. /\ seen' \in Seq(Shown) /\ Quiet' /\ (pc' # "closed" => Count({"error"})' = 0)
        /\ Count(CancelKeys)' = 0 /\ (conf.mediated => Count({"backendkey"})' = 0)
    BY <1>1, <2>1, <2>2, SentOne DEF SeenInv, Quiet
  <2> QED
    BY <2>3 DEF SeenInv, OneCompletion, KeyMediated
<1> QED
  BY <1>2, <1>3

\* A session is closed, with an error or without a word.
LEMMA SeenClosed ==
  ASSUME SeenInv, pc' = "closed", conf' = conf, seen' = seen \/ seen' = seen \o <<"error">>
  PROVE  SeenInv'
<1>1. "error" \in Shown /\ "error" \notin {"backendkey"}
  BY DEF Shown
<1>2. seen' \in Seq(Shown) /\ Count({"backendkey"})' = Count({"backendkey"})
  BY <1>1, SentNone, SentOne DEF SeenInv
<1> QED
  BY <1>2 DEF SeenInv, OneCompletion, KeyMediated

\* A direct session begins to relay before AuthenticationOk.
LEMMA SeenRelayed ==
  ASSUME SeenInv, pc \notin {"relay", "keyed", "served", "closed"}, pc' = "relay", conf' = conf,
         seen' = seen, script' = <<"error">> \/ (Len(script') \in Nat /\ Len(script') >= 4)
  PROVE  SeenInv'
<1>1. Quiet /\ Count({"error"}) = 0 /\ (conf.mediated => Count({"backendkey"}) = 0)
  BY DEF SeenInv, KeyMediated
<1>2. /\ Quiet' /\ Count({"error"})' = 0 /\ Count(CancelKeys)' = 0
      /\ conf.mediated => Count({"backendkey"})' = 0
  BY <1>1, SentNone DEF Quiet
<1>3. script' # <<"error">> => Told'
  BY <1>2 DEF Told, Quiet
<1> QED
  BY <1>2, <1>3 DEF SeenInv, OneCompletion, KeyMediated

\* What was counted was seen.
LEMMA CountSome ==
  ASSUME NEW ms, Count(ms) = 1 PROVE \E i \in DOMAIN seen : seen[i] \in ms
<1> SUFFICES ASSUME \A i \in DOMAIN seen : seen[i] \notin ms PROVE FALSE
  OBVIOUS
<1>1. Count(ms) = 0
  BY CountNone DEF Count, CountIn
<1> QED
  BY <1>1

\* relay_startup hands on a challenge, or the end of SASL.
LEMMA SeenChallenge == ScriptInv /\ SeenInv /\ RelayChallenge => SeenInv'
<1> SUFFICES ASSUME ScriptInv, SeenInv, RelayChallenge PROVE SeenInv'
  OBVIOUS
<1>1. pc = "relay" /\ UNCHANGED <<conf, key>> /\ pc' \in {"answer", "relay"}
  BY DEF RelayChallenge
<1>2. PICK m \in Challenges \cup {"saslfinal"} : Pending(m) /\ script' = Tail(script)
  BY DEF RelayChallenge
<1>3. PICK x \in {"saslfinal", "challenge"} : seen' = seen \o <<x>>
  BY DEF RelayChallenge, Send
<1>4. /\ script # <<"error">> /\ Len(script) \in Nat /\ Len(script) > 4
      /\ Len(Tail(script)) = Len(script) - 1
  BY <1>1, <1>2, ReadUpstream DEF Upstream, Preamble, Challenges
<1>5. Len(script') \in Nat /\ Len(script') >= 4
  BY <1>2, <1>4
<1>6. Quiet /\ Count({"error"}) = 0 /\ (conf.mediated => Count({"backendkey"}) = 0)
  BY <1>1, <1>4 DEF SeenInv, KeyMediated, Told, Quiet
<1>7. x \in Shown /\ x \notin CancelKeys /\ x \notin {"ok"} /\ x \notin {"ready"}
      /\ x \notin {"backendkey"} /\ x \notin {"error"}
  BY <1>3 DEF Shown, CancelKeys
<1>8. /\ seen' \in Seq(Shown) /\ Quiet' /\ Count({"error"})' = 0
      /\ Count(CancelKeys)' = 0 /\ (conf.mediated => Count({"backendkey"})' = 0)
  BY <1>3, <1>6, <1>7, SentOne DEF SeenInv, Quiet
<1>9. Told'
  BY <1>5, <1>8 DEF Told, Quiet
<1> QED
  BY <1>1, <1>8, <1>9 DEF SeenInv, OneCompletion, KeyMediated

\* relay_startup hands on AuthenticationOk, ParameterStatus or
\* NegotiateProtocolVersion.
LEMMA SeenOther == ScriptInv /\ SeenInv /\ RelayOther => SeenInv'
<1> SUFFICES ASSUME ScriptInv, SeenInv, RelayOther PROVE SeenInv'
  OBVIOUS
<1>1. pc = "relay" /\ pc' = "relay" /\ UNCHANGED <<conf, key>>
  BY DEF RelayOther
<1>2. PICK m \in {"negotiate", "ok", "params"} :
        Pending(m) /\ script' = Tail(script) /\ seen' = seen \o <<m>>
  BY DEF RelayOther, Receive, Send
<1>3. /\ script # <<"error">> /\ Len(script) \in Nat /\ Len(script') = Len(script) - 1
      /\ m = "negotiate" => Len(script) > 4
      /\ m = "ok" => Len(script) = 4
      /\ m = "params" => Len(script) = 3
  BY <1>1, <1>2, ReadUpstream DEF Upstream, Preamble
<1>4. /\ Told /\ Count({"error"}) = 0
      /\ conf.mediated => /\ Count({"backendkey"}) = 0
                          /\ Count(CancelKeys) > 0 =>
                                key = (IF conf.mode = "direct" THEN "routed" ELSE "registered")
  BY <1>1, <1>3 DEF SeenInv, KeyMediated
<1>5. m \in Shown /\ m \notin CancelKeys /\ m \notin {"ready"}
      /\ m \notin {"backendkey"} /\ m \notin {"error"}
  BY DEF Shown, CancelKeys
<1>6. /\ seen' \in Seq(Shown) /\ Count(CancelKeys)' = Count(CancelKeys)
      /\ Count({"ready"})' = Count({"ready"}) /\ Count({"error"})' = Count({"error"})
      /\ Count({"backendkey"})' = Count({"backendkey"})
      /\ m = "ok" => Count({"ok"})' = Count({"ok"}) + 1
      /\ m # "ok" => Count({"ok"})' = Count({"ok"})
  BY <1>2, <1>5, SentOne DEF SeenInv
<1>7. Told'
  <2>1. Len(script') > 1
    BY <1>3
  <2>2. Count(CancelKeys)' = 0 /\ Count({"ready"})' = 0
    BY <1>3, <1>4, <1>6 DEF Told
  <2>3. Count({"ok"})' = IF Len(script') <= 3 THEN 1 ELSE 0
    <3>1. Count({"ok"}) = IF Len(script) <= 3 THEN 1 ELSE 0
      BY <1>4 DEF Told
    <3>2. CASE m = "ok"
      <4>1. Len(script) = 4 /\ Len(script') = 3
        BY <1>3, <3>2
      <4>2. Count({"ok"}) = 0 /\ Count({"ok"})' = Count({"ok"}) + 1
        BY <1>6, <3>1, <3>2, <4>1
      <4> QED
        BY <4>1, <4>2
    <3>3. CASE m # "ok"
      <4>1. Len(script) > 4 \/ Len(script) = 3
        BY <1>3, <3>3
      <4> QED
        BY <1>3, <1>6, <3>1, <3>3, <4>1
    <3> QED
      BY <3>2, <3>3
  <2> QED
    BY <1>3, <2>1, <2>2, <2>3 DEF Told
<1> QED
  BY <1>1, <1>4, <1>6, <1>7 DEF SeenInv, OneCompletion, KeyMediated

\* relay_startup records the backend's key.
LEMMA SeenRecorded == ScriptInv /\ SeenInv /\ RecordKey => SeenInv'
<1> SUFFICES ASSUME ScriptInv, SeenInv, RecordKey PROVE SeenInv'
  OBVIOUS
<1>1. /\ pc = "relay" /\ pc' = "keyed" /\ conf' = conf /\ Pending("key") /\ seen' = seen
      /\ conf.mediated => key' = "routed"
  BY DEF RecordKey, Receive, Goto
<1>2. script # <<"error">> /\ Len(script) = 2
  BY <1>1, ReadUpstream DEF Upstream
<1>3. /\ Told /\ Count({"error"}) = 0
      /\ conf.mediated => Count({"backendkey"}) = 0
  BY <1>1, <1>2 DEF SeenInv, KeyMediated
<1>4. Recorded' /\ Count({"error"})' = 0 /\ (conf.mediated => Count({"backendkey"})' = 0)
  BY <1>1, <1>2, <1>3, SentNone DEF Told, Recorded
<1> QED
  BY <1>1, <1>4 DEF SeenInv, OneCompletion, KeyMediated, Recorded

\* It hands on a key: the session's, after the backend's is routed.
LEMMA SeenKey == ScriptInv /\ SeenInv /\ SendKey => SeenInv'
<1> SUFFICES ASSUME ScriptInv, SeenInv, SendKey PROVE SeenInv'
  OBVIOUS
<1>1. /\ pc = "keyed" /\ pc' = "relay" /\ UNCHANGED <<conf, key, script>>
      /\ seen' = seen \o <<DirectKey>>
  BY DEF SendKey, Goto, Send, backendVars
<1>2. conf.mode = "direct"
  BY <1>1 DEF ScriptInv, Upstream
<1>3. script # <<"error">> => Len(script) = 1
  BY <1>1 DEF ScriptInv
<1>4. /\ Recorded /\ Count({"error"}) = 0
      /\ conf.mediated => Count({"backendkey"}) = 0
  BY <1>1 DEF SeenInv, KeyMediated
<1>5. /\ DirectKey \in Shown /\ DirectKey \in CancelKeys
      /\ DirectKey \notin {"ok"} /\ DirectKey \notin {"ready"} /\ DirectKey \notin {"error"}
      /\ conf.mediated => DirectKey \notin {"backendkey"}
  BY DEF DirectKey, KeyFor, Shown, CancelKeys
<1>6. PICK x : x = DirectKey
  OBVIOUS
<1>7. /\ seen' \in Seq(Shown) /\ Len(seen) \in Nat
      /\ DOMAIN seen = 1 .. Len(seen) /\ DOMAIN seen' = 1 .. Len(seen) + 1
      /\ seen'[Len(seen) + 1] = x /\ (\A i \in DOMAIN seen : seen'[i] = seen[i])
      /\ Count(CancelKeys)' = Count(CancelKeys) + 1
      /\ Count({"ok"})' = Count({"ok"}) /\ Count({"ready"})' = Count({"ready"})
      /\ Count({"error"})' = Count({"error"})
      /\ conf.mediated => Count({"backendkey"})' = Count({"backendkey"})
  BY <1>1, <1>5, <1>6, SentOne DEF SeenInv
<1>8. OkThenKey'
  <2>1. PICK i \in DOMAIN seen : seen[i] \in {"ok"}
    BY <1>4, CountSome DEF Recorded
  <2>2. i < Len(seen) + 1 /\ i \in DOMAIN seen' /\ Len(seen) + 1 \in DOMAIN seen'
    BY <1>7
  <2> QED
    BY <1>5, <1>6, <1>7, <2>1, <2>2 DEF OkThenKey
<1>9. script' # <<"error">> => Told'
  <2>1. Count({"ok"})' = 1 /\ Count(CancelKeys)' = 1 /\ Count({"ready"})' = 0
    BY <1>4, <1>7 DEF Recorded
  <2> SUFFICES ASSUME script' # <<"error">> PROVE Told'
    OBVIOUS
  <2>2. Len(script') = 1
    BY <1>1, <1>3
  <2>3. Len(script') <= 3 /\ Len(script') <= 1
    BY <2>2
  <2> QED
    BY <1>8, <2>1, <2>3 DEF Told
<1> QED
  BY <1>1, <1>2, <1>4, <1>7, <1>9 DEF SeenInv, OneCompletion, KeyMediated, Recorded

\* The first ReadyForQuery of the backend completes the startup.
LEMMA SeenReady == ScriptInv /\ SeenInv /\ RelayReady => SeenInv'
<1> SUFFICES ASSUME ScriptInv, SeenInv, RelayReady PROVE SeenInv'
  OBVIOUS
<1>1. /\ pc = "relay" /\ pc' = "served" /\ UNCHANGED <<conf, key>> /\ Pending("ready")
      /\ seen' = seen \o <<"ready">>
  BY DEF RelayReady, Receive, Send, Goto
<1>2. script # <<"error">> /\ Len(script) = 1
  BY <1>1, ReadUpstream DEF Upstream
<1>3. /\ Told /\ Count({"error"}) = 0
      /\ conf.mediated => /\ Count({"backendkey"}) = 0
                          /\ Count(CancelKeys) > 0 =>
                                key = (IF conf.mode = "direct" THEN "routed" ELSE "registered")
  BY <1>1, <1>2 DEF SeenInv, KeyMediated
<1>4. "ready" \in Shown /\ "ready" \notin CancelKeys
  BY DEF Shown, CancelKeys
<1>5. /\ seen' \in Seq(Shown) /\ seen'[Len(seen')] = "ready"
      /\ Count(CancelKeys)' = Count(CancelKeys) /\ Count({"ok"})' = Count({"ok"})
      /\ Count({"ready"})' = Count({"ready"}) + 1 /\ Count({"error"})' = Count({"error"})
      /\ Count({"backendkey"})' = Count({"backendkey"})
      /\ OkThenKey => OkThenKey'
  BY <1>1, <1>4, SentOne DEF SeenInv
<1>6. OneCompletion'
  <2>1. Count({"ok"})' = 1 /\ Count(CancelKeys)' = 1 /\ Count({"ready"})' = 1
        /\ Count({"error"})' = 0 /\ OkThenKey'
    BY <1>2, <1>3, <1>5 DEF Told
  <2> QED
    BY <1>5, <2>1 DEF OneCompletion, OkThenKey
<1>7. KeyMediated'
  BY <1>1, <1>3, <1>5 DEF KeyMediated
<1> QED
  BY <1>1, <1>3, <1>5, <1>6, <1>7 DEF SeenInv

\* Four messages at once.
LEMMA FourAppends ==
  ASSUME NEW S, NEW q \in Seq(S), NEW a \in S, NEW b \in S, NEW c \in S, NEW d \in S
  PROVE  q \o <<a, b, c, d>> = Append(Append(Append(Append(q, a), b), c), d)
<1>1. /\ Append(q, a) = q \o <<a>>
      /\ Append(q \o <<a>>, b) = (q \o <<a>>) \o <<b>>
      /\ Append((q \o <<a>>) \o <<b>>, c) = ((q \o <<a>>) \o <<b>>) \o <<c>>
      /\ Append(((q \o <<a>>) \o <<b>>) \o <<c>>, d) = (((q \o <<a>>) \o <<b>>) \o <<c>>) \o <<d>>
  <2>1. /\ <<a>> \in Seq(S) /\ <<b>> \in Seq(S) /\ <<c>> \in Seq(S)
        /\ q \o <<a>> \in Seq(S) /\ (q \o <<a>>) \o <<b>> \in Seq(S)
        /\ ((q \o <<a>>) \o <<b>>) \o <<c>> \in Seq(S)
    OBVIOUS
  <2> QED
    BY <2>1, AppendIsConcat
<1>2. q \o <<a, b, c, d>> = (((q \o <<a>>) \o <<b>>) \o <<c>>) \o <<d>>
  <2> DEFINE t == q \o <<a, b, c, d>>
             u == (((q \o <<a>>) \o <<b>>) \o <<c>>) \o <<d>>
  <2>1. t \in Seq(S) /\ u \in Seq(S) /\ Len(t) = Len(q) + 4 /\ Len(u) = Len(q) + 4
        /\ Len(q) \in Nat
    OBVIOUS
  <2>2. \A i \in 1 .. Len(q) : t[i] = q[i] /\ u[i] = q[i]
    OBVIOUS
  <2>3. /\ t[Len(q) + 1] = a /\ t[Len(q) + 2] = b /\ t[Len(q) + 3] = c /\ t[Len(q) + 4] = d
        /\ u[Len(q) + 1] = a /\ u[Len(q) + 2] = b /\ u[Len(q) + 3] = c /\ u[Len(q) + 4] = d
    OBVIOUS
  <2> HIDE DEF t, u
  <2>4. \A i \in 1 .. Len(t) : t[i] = u[i]
    <3>1. \A i \in 1 .. Len(t) : i \in 1 .. Len(q)
                \/ i \in {Len(q) + 1, Len(q) + 2, Len(q) + 3, Len(q) + 4}
      BY <2>1
    <3> QED
      BY <2>2, <2>3, <3>1
  <2>5. t = u
    BY <2>1, <2>4, SeqEqual, Zenon
  <2> QED
    BY <2>5 DEF t, u
<1> QED
  BY <1>1, <1>2

\* The end of a startup that synthesize_startup writes, with key k.
LEMMA SentEnd ==
  ASSUME seen \in Seq(Shown), NEW k \in CancelKeys,
         seen' = seen \o <<"ok", "params", k, "ready">>
  PROVE  /\ seen' \in Seq(Shown) /\ Len(seen) \in Nat /\ Len(seen') = Len(seen) + 4
         /\ DOMAIN seen = 1 .. Len(seen) /\ DOMAIN seen' = 1 .. Len(seen) + 4
         /\ \A i \in DOMAIN seen : seen'[i] = seen[i]
         /\ seen'[Len(seen) + 1] = "ok" /\ seen'[Len(seen) + 2] = "params" /\ seen'[Len(seen) + 3] = k
         /\ seen'[Len(seen) + 4] = "ready"
         /\ CountIn(seen', {"ok"}) = CountIn(seen, {"ok"}) + 1
         /\ CountIn(seen', CancelKeys) = CountIn(seen, CancelKeys) + 1
         /\ CountIn(seen', {"ready"}) = CountIn(seen, {"ready"}) + 1
         /\ CountIn(seen', {"error"}) = CountIn(seen, {"error"})
         /\ k # "backendkey" => CountIn(seen', {"backendkey"}) = CountIn(seen, {"backendkey"})
<1>1. /\ "ok" \in Shown /\ "params" \in Shown /\ "ready" \in Shown /\ k \in Shown
      /\ "ok" \notin CancelKeys /\ "params" \notin CancelKeys /\ "ready" \notin CancelKeys
      /\ k \notin {"ok", "ready", "error", "params"}
  BY DEF Shown, CancelKeys
<1>2. PICK a : a = Append(seen, "ok")
  OBVIOUS
<1>3. PICK b : b = Append(a, "params")
  OBVIOUS
<1>4. PICK c : c = Append(b, k)
  OBVIOUS
<1>5. PICK d : d = Append(c, "ready")
  OBVIOUS
<1>r. seen' = d
  BY <1>1, <1>2, <1>3, <1>4, <1>5, FourAppends
<1>6. a \in Seq(Shown) /\ Len(a) = Len(seen) + 1 /\ Len(seen) \in Nat /\ DOMAIN seen = 1 .. Len(seen)
      /\ DOMAIN a = 1 .. Len(seen) + 1 /\ (\A i \in DOMAIN seen : a[i] = seen[i]) /\ a[Len(seen) + 1] = "ok"
  BY <1>1, <1>2, AppendFacts
<1>7. b \in Seq(Shown) /\ Len(b) = Len(a) + 1 /\ DOMAIN b = 1 .. Len(a) + 1
      /\ (\A i \in DOMAIN a : b[i] = a[i]) /\ b[Len(a) + 1] = "params"
  BY <1>1, <1>3, <1>6, AppendFacts
<1>8. c \in Seq(Shown) /\ Len(c) = Len(b) + 1 /\ DOMAIN c = 1 .. Len(b) + 1
      /\ (\A i \in DOMAIN b : c[i] = b[i]) /\ c[Len(b) + 1] = k
  BY <1>1, <1>4, <1>7, AppendFacts
<1>9. d \in Seq(Shown) /\ Len(d) = Len(c) + 1 /\ DOMAIN d = 1 .. Len(c) + 1
      /\ (\A i \in DOMAIN c : d[i] = c[i]) /\ d[Len(c) + 1] = "ready"
  BY <1>1, <1>5, <1>8, AppendFacts
<1>10. \A T : /\ CountIn(seen, T) \in Nat
              /\ "ok" \in T => CountIn(a, T) = CountIn(seen, T) + 1
              /\ "ok" \notin T => CountIn(a, T) = CountIn(seen, T)
  BY <1>1, <1>2, CountType, CountAppend
<1>11. \A T : "params" \notin T => CountIn(b, T) = CountIn(a, T)
  BY <1>1, <1>3, <1>6, CountAppend
<1>12. \A T : /\ k \in T => CountIn(c, T) = CountIn(b, T) + 1
              /\ k \notin T => CountIn(c, T) = CountIn(b, T)
  BY <1>1, <1>4, <1>7, CountAppend
<1>13. \A T : /\ "ready" \in T => CountIn(d, T) = CountIn(c, T) + 1
              /\ "ready" \notin T => CountIn(d, T) = CountIn(c, T)
  BY <1>1, <1>5, <1>8, CountAppend
<1>14. CountIn(d, {"ok"}) = CountIn(seen, {"ok"}) + 1
  BY <1>1, <1>10, <1>11, <1>12, <1>13
<1>15. CountIn(d, CancelKeys) = CountIn(seen, CancelKeys) + 1
  BY <1>1, <1>10, <1>11, <1>12, <1>13
<1>16. CountIn(d, {"ready"}) = CountIn(seen, {"ready"}) + 1
  BY <1>1, <1>10, <1>11, <1>12, <1>13
<1>17. CountIn(d, {"error"}) = CountIn(seen, {"error"})
  BY <1>1, <1>10, <1>11, <1>12, <1>13
<1>18. k # "backendkey" => CountIn(d, {"backendkey"}) = CountIn(seen, {"backendkey"})
  BY <1>1, <1>10, <1>11, <1>12, <1>13
<1>19. Len(a) = Len(seen) + 1 /\ Len(b) = Len(seen) + 2 /\ Len(c) = Len(seen) + 3 /\ Len(d) = Len(seen) + 4
  BY <1>6, <1>7, <1>8, <1>9
<1>20. DOMAIN d = 1 .. Len(seen) + 4
  BY <1>6, <1>9, <1>19
<1>21. \A i \in DOMAIN seen : i \in DOMAIN a /\ i \in DOMAIN b /\ i \in DOMAIN c
  BY <1>6, <1>7, <1>8, <1>19
<1>22. \A i \in DOMAIN seen : d[i] = seen[i]
  BY <1>6, <1>7, <1>8, <1>9, <1>21
<1>23. /\ Len(seen) + 1 \in DOMAIN a /\ Len(seen) + 1 \in DOMAIN b /\ Len(seen) + 1 \in DOMAIN c
       /\ Len(seen) + 2 \in DOMAIN b /\ Len(seen) + 2 \in DOMAIN c /\ Len(seen) + 3 \in DOMAIN c
       /\ Len(a) + 1 = Len(seen) + 2 /\ Len(b) + 1 = Len(seen) + 3 /\ Len(c) + 1 = Len(seen) + 4
  BY <1>6, <1>7, <1>8, <1>19
<1>24. d[Len(seen) + 1] = "ok" /\ d[Len(seen) + 2] = "params" /\ d[Len(seen) + 3] = k
       /\ d[Len(seen) + 4] = "ready"
  BY <1>6, <1>7, <1>8, <1>9, <1>23
<1> QED
  BY <1>r, <1>6, <1>9, <1>14, <1>15, <1>16, <1>17, <1>18, <1>19, <1>20, <1>22, <1>24

\* synthesize_startup completes the startup of the other forwarders.
LEMMA SeenSynthesized == ScriptInv /\ SeenInv /\ SynthesizeStartup => SeenInv'
<1> SUFFICES ASSUME ScriptInv, SeenInv, SynthesizeStartup PROVE SeenInv'
  OBVIOUS
<1>1. PICK k : k = IF conf.mediated THEN KeyFor(Negotiated(conf.minor)) ELSE "key8"
  OBVIOUS
<1>2. /\ pc = "synth" /\ pc' = "served" /\ UNCHANGED <<conf, key>>
      /\ seen' = seen \o <<"ok", "params", k, "ready">>
  BY <1>1 DEF SynthesizeStartup, Goto, Send
<1>3. k \in CancelKeys /\ k # "backendkey"
  BY <1>1 DEF CancelKeys, KeyFor
<1>4. conf.mode # "direct" /\ key = Begun
  BY <1>2 DEF ScriptInv, Started
<1>5. /\ seen \in Seq(Shown) /\ Quiet /\ Count({"error"}) = 0
      /\ conf.mediated => Count({"backendkey"}) = 0
  BY <1>2 DEF SeenInv, KeyMediated
<1>6. \A ms : Count(ms) = CountIn(seen, ms) /\ Count(ms)' = CountIn(seen', ms)
  BY DEF Count, CountIn
<1>7. /\ seen' \in Seq(Shown) /\ Len(seen) \in Nat /\ Len(seen') = Len(seen) + 4
      /\ DOMAIN seen' = 1 .. Len(seen) + 4
      /\ seen'[Len(seen) + 1] = "ok" /\ seen'[Len(seen) + 3] = k
      /\ seen'[Len(seen) + 4] = "ready"
      /\ CountIn(seen', {"ok"}) = CountIn(seen, {"ok"}) + 1
      /\ CountIn(seen', CancelKeys) = CountIn(seen, CancelKeys) + 1
      /\ CountIn(seen', {"ready"}) = CountIn(seen, {"ready"}) + 1
      /\ CountIn(seen', {"error"}) = CountIn(seen, {"error"})
      /\ CountIn(seen', {"backendkey"}) = CountIn(seen, {"backendkey"})
  BY <1>2, <1>3, <1>5, SentEnd
<1>8. /\ Count({"ok"})' = 1 /\ Count(CancelKeys)' = 1 /\ Count({"ready"})' = 1
      /\ Count({"error"})' = 0 /\ (conf.mediated => Count({"backendkey"})' = 0)
  BY <1>5, <1>6, <1>7 DEF Quiet
<1>9. OneCompletion'
  <2>1. /\ Len(seen) + 1 \in DOMAIN seen' /\ Len(seen) + 3 \in DOMAIN seen'
        /\ Len(seen) + 1 < Len(seen) + 3
    BY <1>7
  <2>2. \E i, j \in DOMAIN seen' :
          i < j /\ seen'[i] = "ok" /\ seen'[j] \in CancelKeys /\ seen'[Len(seen')] = "ready"
    BY <1>3, <1>7, <2>1
  <2> QED
    BY <1>8, <2>2 DEF OneCompletion
<1>10. KeyMediated'
  BY <1>2, <1>4, <1>8 DEF KeyMediated, Begun
<1> QED
  BY <1>2, <1>7, <1>8, <1>9, <1>10 DEF SeenInv

\* Every step of a forwarder preserves SeenInv.
LEMMA SeenForwarding == ScriptInv /\ SeenInv /\ Forwarding => SeenInv'
<1> SUFFICES ASSUME ScriptInv, SeenInv, Forwarding PROVE SeenInv'
  OBVIOUS
<1>0. conf' = conf /\ pc \notin Before \cup {"closed"} /\ pc' \notin Before
  BY ForwardingSteps
<1>1. CASE NoRoute \/ DialFails \/ ReauthFails \/ RelayChallengeFails \/ RelayError
           \/ RejectPassThrough \/ ConnectorRefuses \/ ConnectorFails
  <2>1. pc' = "closed" /\ (seen' = seen \/ seen' = seen \o <<"error">>)
    BY <1>1 DEF NoRoute, DialFails, ReauthFails, RelayChallengeFails, RelayError,
                RejectPassThrough, ConnectorRefuses, ConnectorFails, Reject, Drop, Send
  <2> QED
    BY <1>0, <2>1, SeenClosed
<1>2. CASE Begin \/ ParamsCached \/ StartCustom \/ ConnectorAuth \/ ConnectorCapture
           \/ \E b \in Backends : DialPooled(b)
  <2>1. /\ seen' = seen /\ pc \notin {"relay", "keyed", "served"}
        /\ pc' \notin {"relay", "keyed", "served"}
    BY <1>2 DEF Begin, ParamsCached, StartCustom, ConnectorAuth, ConnectorCapture, DialPooled, Goto
  <2> QED
    BY <1>0, <2>1, SeenEarly
<1>3. CASE \E b \in Backends : DialDirect(b)
  <2>1. PICK b \in Backends : DialDirect(b)
    BY <1>3
  <2>2. pc = "forward" /\ pc' \in {"reauth", "relay"} /\ seen' = seen /\ script' = Script(b)
    BY <2>1 DEF DialDirect, Goto, ReplayStartup
  <2>3. Len(script') \in Nat /\ Len(script') >= 4
    BY <2>2, ScriptOrdered
  <2> QED
    BY <1>0, <2>2, <2>3, SeenEarly, SeenRelayed
<1>4. CASE Reauth
  <2>1. pc = "reauth" /\ pc' \in {"reauth", "relay"} /\ seen' = seen
    BY <1>4 DEF Reauth
  <2>2. CASE pc' = "reauth"
    BY <1>0, <2>1, <2>2, SeenEarly
  <2>3. CASE pc' = "relay"
    <3>1. Pending("saslfinal") /\ script' = Tail(script)
      BY <1>4, <2>1, <2>3 DEF Reauth, Receive
    <3>2. Len(script) \in Nat /\ Len(script) > 4 /\ Len(Tail(script)) = Len(script) - 1
      BY <2>1, <3>1, ReadUpstream DEF Upstream, Preamble
    <3>3. Len(script') \in Nat /\ Len(script') >= 4
      BY <3>1, <3>2
    <3> QED
      BY <1>0, <2>1, <2>3, <3>3, SeenRelayed
  <2> QED
    BY <2>1, <2>2, <2>3
<1>5. CASE \E right \in BOOLEAN : RelayAnswer(right)
  <2>1. pc = "answer" /\ pc' = "relay" /\ seen' = seen /\ script' \in {script, <<"error">>}
    BY <1>5 DEF RelayAnswer, Goto
  <2>2. script' = <<"error">> \/ (Len(script') \in Nat /\ Len(script') >= 4)
    BY <2>1 DEF ScriptInv
  <2> QED
    BY <1>0, <2>1, <2>2, SeenRelayed
<1> QED
  BY <1>1, <1>2, <1>3, <1>4, <1>5, SeenChallenge, SeenOther, SeenRecorded, SeenKey, SeenReady, SeenSynthesized
     DEF Forwarding

\* What the first phases send: negotiation, challenges, and an error on closing.
LEMMA EarlySends ==
  ASSUME Opening \/ Authenticating
  PROVE  /\ pc \in Before /\ pc' \in Before \cup {"forward", "closed"} /\ conf' = conf
         /\ \/ seen' = seen
            \/ \E x \in {"negotiate", "challenge", "saslfinal", "error"} :
                  seen' = seen \o <<x>> /\ (x = "error" => pc' = "closed")
<1>1. CASE Opening
  BY <1>1 DEF Opening, DirectTls, PlainStart, SslRequest, PlaintextStartup, CancelPacket,
              BadStartup, StartupMessage, Goto, Reject, Drop, Send, Before
<1>2. CASE Authenticating
  BY <1>2 DEF Authenticating, PassThrough, AskPassword, ReadPassword, Lookup, LookupFails,
              ReadFirst, ReadFinal, Accepted, Goto, Reject, Drop, Send, Before
<1> QED
  BY <1>1, <1>2

\* SeenInv is inductive, with ScriptInv.
LEMMA SeenStep == ScriptInv /\ SeenInv /\ [StartupNext]_vars => SeenInv'
<1> SUFFICES ASSUME ScriptInv, SeenInv, [StartupNext]_vars PROVE SeenInv'
  OBVIOUS
<1>1. CASE Opening \/ Authenticating
  BY <1>1, EarlySends, SeenEarly DEF Before
<1>2. CASE Forwarding
  BY <1>2, SeenForwarding
<1>3. CASE SessionError
  BY <1>3, SeenClosed DEF SessionError, Drop
<1>4. CASE BackendFails \/ GssEncRequest \/ UNCHANGED vars
  <2>1. UNCHANGED <<seen, pc, conf, key>> /\ script' \in {script, <<"error">>}
    BY <1>4 DEF BackendFails, GssEncRequest, vars, backendVars
  <2>2. \A ms : Count(ms)' = Count(ms)
    BY <2>1, SentNone
  <2>3. script' = script => (Told' <=> Told)
    BY <2>1, <2>2, SentNone DEF Told
  <2>4. /\ (Quiet' <=> Quiet) /\ (Recorded' <=> Recorded)
        /\ (OneCompletion' <=> OneCompletion) /\ (KeyMediated' <=> KeyMediated)
    BY <2>1, <2>2 DEF Quiet, Recorded, OneCompletion, KeyMediated
  <2> QED
    BY <2>1, <2>2, <2>3, <2>4 DEF SeenInv
<1> QED
  BY <1>1, <1>2, <1>3, <1>4 DEF StartupNext

\* A connection that was just accepted has seen nothing.
LEMMA SeenInit == StartupInit => SeenInv
<1> SUFFICES ASSUME StartupInit PROVE SeenInv
  OBVIOUS
<1>1. seen = <<>> /\ pc = "peek"
  BY DEF StartupInit
<1>2. seen \in Seq(Shown)
  BY <1>1, EmptySeq, Zenon
<1>3. ASSUME NEW ms PROVE Count(ms) = 0
  <2>1. \A i \in DOMAIN seen : seen[i] \notin ms
    BY <1>1, NoFrames
  <2> QED
    BY <2>1, CountNone DEF Count, CountIn
<1> QED
  BY <1>1, <1>2, <1>3 DEF SeenInv, Quiet, OneCompletion, KeyMediated

\* A completed startup showed the client one AuthenticationOk, then one key, then
\* one ReadyForQuery and no error, in every mode, with every authenticator and
\* backend and wherever they fail (relay_startup, synthesize_startup).
THEOREM StartupOneCompletion == StartupSpec => []OneCompletion
<1>1. SeenInv => OneCompletion
  BY DEF SeenInv
<1> QED
  BY <1>1, ScriptInit, ScriptStep, SeenInit, SeenStep, PTL DEF StartupSpec

\* A proxy that mediates cancellation never shows the backend's own key, and the
\* key it shows is routed (direct) or registered already (relay_startup,
\* RegistryCancellation::begin).
THEOREM StartupKeyMediated == StartupSpec => []KeyMediated
<1>1. SeenInv => KeyMediated
  BY DEF SeenInv
<1> QED
  BY <1>1, ScriptInit, ScriptStep, SeenInit, SeenStep, PTL DEF StartupSpec
-----------------------------------------------------------------------------
(* The protocol version *)

\* Until a backend negotiates, the client speaks the version it asked for or the
\* one that PgSession::serve announced.
SpokenInv ==
  pc \notin {"relay", "answer", "keyed", "served", "closed"} =>
     spoken \in {conf.minor, Negotiated(conf.minor)}

\* The version is settled, or the backend has still to negotiate it or failed.
VersionInv ==
  /\ pc \in Upstream =>
        \/ spoken = Least(conf.minor, backend.max)
        \/ script = <<"error">>
        \/ \E i \in DOMAIN script : script[i] = "negotiate"
  /\ VersionAgrees

\* Only StartupMessage and a relayed NegotiateProtocolVersion change the version.
LEMMA SpokenStep == SpokenInv /\ [StartupNext]_vars => SpokenInv'
<1> SUFFICES ASSUME SpokenInv, [StartupNext]_vars PROVE SpokenInv'
  OBVIOUS
<1> USE DEF clientVars
<1>1. CASE Opening
  BY <1>1 DEF Opening, DirectTls, PlainStart, SslRequest, PlaintextStartup, CancelPacket,
              BadStartup, StartupMessage, Goto, Reject, Drop, SpokenInv
<1>2. CASE Authenticating
  <2>1. UNCHANGED <<conf, spoken>> /\ pc \in Before
    BY <1>2 DEF Authenticating, PassThrough, AskPassword, ReadPassword, Lookup, LookupFails,
                ReadFirst, ReadFinal, Goto, Before
  <2> QED
    BY <2>1 DEF SpokenInv, Before
<1>3. CASE Forwarding
  <2>1. CASE RelayOther
    BY <2>1 DEF RelayOther, SpokenInv
  <2>2. CASE ~RelayOther
    <3>1. UNCHANGED <<conf, spoken>>
      BY <1>3, <2>2 DEF Forwarding, NoRoute, DialFails, DialDirect, Reauth, ReauthFails,
         RelayChallenge, RelayAnswer, RelayChallengeFails, RecordKey, SendKey, RelayReady, RelayError,
         Begin, RejectPassThrough, ParamsCached, DialPooled, ConnectorAuth, ConnectorRefuses,
         ConnectorFails, ConnectorCapture, StartCustom, SynthesizeStartup
    <3>2. pc \in {"relay", "answer", "keyed", "served", "closed"} =>
            pc' \in {"relay", "answer", "keyed", "served", "closed"}
      BY <1>3 DEF Forwarding, NoRoute, DialFails, DialDirect, Reauth, ReauthFails,
         RelayChallenge, RelayAnswer, RelayChallengeFails, RelayOther, RecordKey, SendKey, RelayReady,
         RelayError, Begin, RejectPassThrough, ParamsCached, DialPooled, ConnectorAuth,
         ConnectorRefuses, ConnectorFails, ConnectorCapture, StartCustom, SynthesizeStartup,
         Goto, Reject, Drop
    <3> QED
      BY <3>1, <3>2 DEF SpokenInv
  <2> QED
    BY <2>1, <2>2
<1>4. CASE SessionError
  BY <1>4 DEF SessionError, Drop, SpokenInv
<1>5. CASE BackendFails \/ GssEncRequest \/ UNCHANGED vars
  BY <1>5 DEF BackendFails, GssEncRequest, vars, SpokenInv
<1> QED
  BY <1>1, <1>2, <1>3, <1>4, <1>5 DEF StartupNext

\* Reading a message that is not NegotiateProtocolVersion leaves that one where
\* it was.
LEMMA StillToNegotiate ==
  ASSUME NEW q \in Seq(BackendMessages), q # <<>>, Head(q) # "negotiate",
         \E i \in DOMAIN q : q[i] = "negotiate"
  PROVE  \E i \in DOMAIN Tail(q) : Tail(q)[i] = "negotiate"
<1>1. PICK i \in DOMAIN q : q[i] = "negotiate"
  OBVIOUS
<1>2. /\ Len(q) \in Nat /\ DOMAIN q = 1 .. Len(q) /\ DOMAIN Tail(q) = 1 .. Len(q) - 1
      /\ Head(q) = q[1] /\ \A j \in DOMAIN Tail(q) : Tail(q)[j] = q[j + 1]
  BY TailFacts
<1>3. i - 1 \in DOMAIN Tail(q) /\ (i - 1) + 1 = i
  BY <1>1, <1>2
<1> QED
  BY <1>1, <1>2, <1>3

\* A direct session that reads message m, and tells the client of a version.
LEMMA VersionRead ==
  ASSUME ScriptInv, VersionInv, pc \in Upstream, pc' \in Upstream,
         UNCHANGED <<conf, backend>>,
         NEW m, Pending(m), script' = Tail(script), m # "error",
         spoken' = IF m = "negotiate" THEN Least(conf.minor, backend.max) ELSE spoken
  PROVE  VersionInv'
<1>1. script # <<>> /\ Head(script) = m /\ script \in Seq(BackendMessages)
  BY DEF Pending, ScriptInv
<1>2. script # <<"error">>
  BY ReadUpstream
<1>3. pc' # "served"
  BY DEF Upstream
<1>4. CASE m = "negotiate"
  BY <1>3, <1>4 DEF VersionInv, VersionAgrees
<1>5. CASE m # "negotiate"
  <2>1. CASE spoken = Least(conf.minor, backend.max)
    BY <1>3, <1>5, <2>1 DEF VersionInv, VersionAgrees
  <2>2. CASE \E i \in DOMAIN script : script[i] = "negotiate"
    <3>1. \E i \in DOMAIN Tail(script) : Tail(script)[i] = "negotiate"
      BY <1>1, <1>5, <2>2, StillToNegotiate
    <3> QED
      BY <1>3, <3>1 DEF VersionInv, VersionAgrees
  <2> QED
    BY <1>2, <2>1, <2>2 DEF VersionInv
<1> QED
  BY <1>4, <1>5

\* Every step of a forwarder preserves VersionInv, for backends no newer than the
\* proxy.
LEMMA VersionForwarding ==
  ASSUME BackMaxs \subseteq 0 .. MaxMinor, ScriptInv, SpokenInv, VersionInv, Forwarding
  PROVE  VersionInv'
<1>0. conf' = conf /\ pc \notin Before \cup {"closed"} /\ pc' \notin Before
  BY ForwardingSteps
<1>1. CASE \E b \in Backends : DialDirect(b)
  <2>1. PICK b \in Backends : DialDirect(b)
    BY <1>1
  <2>2. /\ pc = "forward" /\ pc' \in {"reauth", "relay"} /\ spoken' = spoken
        /\ backend' = b /\ script' = Script(b)
    BY <2>1 DEF DialDirect, Goto, ReplayStartup, clientVars
  <2>3. CASE Negotiates(b)
    <3>1. 1 \in DOMAIN script' /\ script'[1] = "negotiate"
      BY <2>2, <2>3, ScriptOrdered
    <3> QED
      BY <2>2, <3>1 DEF VersionInv, VersionAgrees
  <2>4. CASE ~Negotiates(b)
    <3>1. conf.minor \in Nat /\ b.max \in 0 .. MaxMinor
      BY StartupAssumption DEF ScriptInv, Confs, Backends
    <3>2. ~(conf.minor > b.max)
      BY <2>4 DEF Negotiates
    <3>3. conf.minor <= MaxMinor /\ conf.minor <= b.max
      BY <3>1, <3>2 DEF MaxMinor
    <3>4. Negotiated(conf.minor) = conf.minor /\ Least(conf.minor, b.max) = conf.minor
      BY <3>1, <3>3 DEF Negotiated, Least, MaxMinor
    <3>5. spoken = conf.minor
      BY <2>2, <3>4 DEF SpokenInv
    <3> QED
      BY <1>0, <2>2, <3>4, <3>5 DEF VersionInv, VersionAgrees
  <2> QED
    BY <2>3, <2>4
<1>2. CASE Reauth
  <2>1. pc = "reauth" /\ pc' \in {"reauth", "relay"} /\ spoken' = spoken /\ backend' = backend
    BY <1>2 DEF Reauth, Receive, ReceiveAndAnswer, clientVars
  <2>2. PICK m \in {"sasl", "saslcontinue", "saslfinal"} :
          Pending(m) /\ (script' = Tail(script) \/ script' = <<"error">>)
    BY <1>2 DEF Reauth, Receive, ReceiveAndAnswer
  <2>3. CASE script' = Tail(script)
    BY <1>0, <2>1, <2>2, <2>3, VersionRead DEF Upstream
  <2>4. CASE script' = <<"error">>
    BY <2>1, <2>4 DEF VersionInv, VersionAgrees
  <2> QED
    BY <2>2, <2>3, <2>4
<1>3. CASE RelayChallenge
  <2>1. pc = "relay" /\ pc' \in {"answer", "relay"} /\ spoken' = spoken /\ backend' = backend
    BY <1>3 DEF RelayChallenge, clientVars
  <2>2. PICK m \in Challenges \cup {"saslfinal"} : Pending(m) /\ script' = Tail(script)
    BY <1>3 DEF RelayChallenge
  <2> QED
    BY <1>0, <2>1, <2>2, VersionRead DEF Upstream, Challenges
<1>4. CASE RelayOther \/ RecordKey
  <2>1. pc = "relay" /\ pc' \in {"relay", "keyed"} /\ backend' = backend
    BY <1>4 DEF RelayOther, RecordKey, Receive, Goto
  <2>2. PICK m \in {"negotiate", "ok", "params", "key"} :
          /\ Pending(m) /\ script' = Tail(script)
          /\ spoken' = IF m = "negotiate" THEN Least(conf.minor, backend.max) ELSE spoken
    BY <1>4 DEF RelayOther, RecordKey, Receive, clientVars
  <2> QED
    BY <1>0, <2>1, <2>2, VersionRead DEF Upstream
<1>5. CASE \E right \in BOOLEAN : RelayAnswer(right)
  <2>1. /\ pc = "answer" /\ pc' = "relay" /\ UNCHANGED <<spoken, backend>>
        /\ script' \in {script, <<"error">>}
    BY <1>5 DEF RelayAnswer, Goto, clientVars
  <2> QED
    BY <1>0, <2>1 DEF VersionInv, VersionAgrees, Upstream
<1>10. CASE SendKey
  BY <1>0, <1>10 DEF SendKey, Goto, clientVars, backendVars, VersionInv, VersionAgrees, Upstream
<1>6. CASE RelayReady
  <2>1. pc = "relay" /\ pc' = "served" /\ UNCHANGED <<spoken, backend>> /\ Pending("ready")
    BY <1>6 DEF RelayReady, Goto, Receive, clientVars
  <2>2. script # <<"error">> /\ Len(script) = 1
    BY <2>1, ReadUpstream DEF Upstream
  <2>3. script # <<>> /\ Head(script) = "ready" /\ script \in Seq(BackendMessages)
    BY <2>1 DEF Pending, ScriptInv
  <2>4. DOMAIN script = 1 .. 1 /\ script[1] = "ready"
    BY <2>2, <2>3, TailFacts
  <2>5. spoken = Least(conf.minor, backend.max)
    BY <2>1, <2>2, <2>4 DEF VersionInv, Upstream
  <2> QED
    BY <1>0, <2>1, <2>5 DEF VersionInv, VersionAgrees, Upstream
\* The others serve no direct client.
<1>7. CASE SynthesizeStartup
  <2>1. pc = "synth" /\ pc' = "served"
    BY <1>7 DEF SynthesizeStartup, Goto
  <2>2. conf.mode # "direct"
    BY <2>1 DEF ScriptInv, Started
  <2> QED
    BY <1>0, <2>1, <2>2 DEF VersionInv, VersionAgrees, Upstream
<1>8. ASSUME pc' \notin Upstream \cup {"served"} PROVE VersionInv'
  BY <1>8 DEF VersionInv, VersionAgrees
<1>9. CASE \/ NoRoute \/ DialFails \/ ReauthFails \/ RelayChallengeFails \/ RelayError \/ Begin
           \/ RejectPassThrough \/ ParamsCached \/ (\E b \in Backends : DialPooled(b))
           \/ ConnectorAuth \/ ConnectorRefuses \/ ConnectorFails \/ ConnectorCapture
           \/ StartCustom
  BY <1>8, <1>9 DEF NoRoute, DialFails, ReauthFails, RelayChallengeFails, RelayError, Begin,
     RejectPassThrough, ParamsCached, DialPooled, ConnectorAuth, ConnectorRefuses,
     ConnectorFails, ConnectorCapture, StartCustom, Goto, Reject, Drop, Upstream
<1> QED
  BY <1>1, <1>2, <1>3, <1>4, <1>5, <1>6, <1>7, <1>9, <1>10 DEF Forwarding

\* VersionInv is inductive, with ScriptInv and SpokenInv.
LEMMA VersionStep ==
  ASSUME BackMaxs \subseteq 0 .. MaxMinor
  PROVE  ScriptInv /\ SpokenInv /\ VersionInv /\ [StartupNext]_vars => VersionInv'
<1> SUFFICES ASSUME ScriptInv, SpokenInv, VersionInv, [StartupNext]_vars PROVE VersionInv'
  OBVIOUS
<1>1. CASE Opening \/ Authenticating
  BY <1>1, EarlySends DEF Before, Upstream, VersionInv, VersionAgrees
<1>2. CASE Forwarding
  BY <1>2, VersionForwarding
<1>3. CASE SessionError
  BY <1>3 DEF SessionError, Drop, Upstream, VersionInv, VersionAgrees
<1>4. CASE BackendFails
  BY <1>4 DEF BackendFails, clientVars, VersionInv, VersionAgrees
<1>5. CASE GssEncRequest \/ UNCHANGED vars
  BY <1>5 DEF GssEncRequest, vars, clientVars, backendVars, VersionInv, VersionAgrees
<1> QED
  BY <1>1, <1>2, <1>3, <1>4, <1>5 DEF StartupNext

\* A served client of a direct session and its backend speak the same version,
\* whoever negotiated it, for any backends no newer than the proxy
\* (ProtocolVersion::MAX): a newer one may accept what the proxy has lowered.
THEOREM StartupVersionAgrees ==
  ASSUME BackMaxs \subseteq 0 .. MaxMinor PROVE StartupSpec => []VersionAgrees
<1>1. StartupInit => SpokenInv /\ VersionInv
  BY DEF StartupInit, SpokenInv, VersionInv, VersionAgrees, Upstream
<1>2. VersionInv => VersionAgrees
  BY DEF VersionInv
<1> QED
  BY <1>1, <1>2, ScriptInit, ScriptStep, SpokenStep, VersionStep, PTL DEF StartupSpec
-----------------------------------------------------------------------------
(* The length of the key *)

\* Key k was not sent.
NoKey(k) == \A i \in DOMAIN seen : seen[i] # k

\* Only synthesize_startup sends a key of 32 bytes of the proxy's, and to a
\* client that speaks 3.2; only a direct session shows the backend's own, whose
\* backend speaks 3.2 only with a client that does.
LongInv ==
  /\ pc \notin {"served", "closed"} => NoKey("key32")
  /\ pc = "served" => NoKey("key32") \/ spoken >= 2
  /\ conf.mode # "direct" => NoKey("backendkey")
  /\ pc \in Upstream \cup {"served"} /\ conf.mode = "direct" /\ Least(conf.minor, backend.max) >= 2 =>
        spoken >= 2

\* Another message does not bring one.
LEMMA LongSent ==
  ASSUME seen \in Seq(Shown), NEW k, NoKey(k),
         seen' = seen \/ \E x \in Shown \ {k} : seen' = seen \o <<x>>
  PROVE  NoKey(k)'
<1>1. CASE seen' = seen
  BY <1>1 DEF NoKey
<1>2. ASSUME NEW x \in Shown \ {k}, seen' = seen \o <<x>> PROVE NoKey(k)'
  <2>1. /\ Len(seen) \in Nat /\ DOMAIN seen = 1 .. Len(seen) /\ DOMAIN seen' = 1 .. Len(seen) + 1
        /\ seen'[Len(seen) + 1] = x /\ \A i \in DOMAIN seen : seen'[i] = seen[i]
    BY <1>2, SentOne
  <2>2. \A i \in DOMAIN seen' : i \in DOMAIN seen \/ i = Len(seen) + 1
    BY <2>1
  <2> QED
    BY <1>2, <2>1, <2>2 DEF NoKey
<1> QED
  BY <1>1, <1>2

\* synthesize_startup sizes the key to the version that was announced.
LEMMA LongSynthesized ==
  ASSUME ScriptInv, SeenInv, SpokenInv, LongInv, SynthesizeStartup PROVE LongInv'
<1>1. PICK k : k = IF conf.mediated THEN KeyFor(Negotiated(conf.minor)) ELSE "key8"
  OBVIOUS
<1>2. /\ pc = "synth" /\ pc' = "served" /\ UNCHANGED <<conf, spoken>>
      /\ seen' = seen \o <<"ok", "params", k, "ready">>
  BY <1>1 DEF SynthesizeStartup, Goto, Send, clientVars
<1>3. /\ k \in CancelKeys /\ k # "backendkey" /\ seen \in Seq(Shown)
      /\ NoKey("key32") /\ NoKey("backendkey") /\ conf.mode # "direct"
  BY <1>1, <1>2 DEF CancelKeys, KeyFor, SeenInv, LongInv, ScriptInv, Started
<1>4. ASSUME NEW x \in {"key32", "backendkey"}, x # k PROVE NoKey(x)'
  <2>1. /\ Len(seen) \in Nat /\ DOMAIN seen = 1 .. Len(seen) /\ DOMAIN seen' = 1 .. Len(seen) + 4
        /\ \A i \in DOMAIN seen : seen'[i] = seen[i]
        /\ seen'[Len(seen) + 1] = "ok" /\ seen'[Len(seen) + 2] = "params"
        /\ seen'[Len(seen) + 3] = k /\ seen'[Len(seen) + 4] = "ready"
    BY <1>2, <1>3, SentEnd
  <2>2. \A i \in DOMAIN seen' :
          i \in DOMAIN seen \/ i \in {Len(seen) + 1, Len(seen) + 2, Len(seen) + 3, Len(seen) + 4}
    BY <2>1
  <2> QED
    BY <1>3, <1>4, <2>1, <2>2 DEF NoKey
<1>5. k = "key32" => spoken >= 2
  <2> SUFFICES ASSUME k = "key32" PROVE spoken >= 2
    OBVIOUS
  <2>1. conf.minor \in Nat
    BY StartupAssumption DEF ScriptInv, Confs
  <2>2. Negotiated(conf.minor) >= 2
    BY <1>1 DEF KeyFor
  <2>3. spoken \in {conf.minor, Negotiated(conf.minor)}
    BY <1>2 DEF SpokenInv
  <2> QED
    BY <2>1, <2>2, <2>3 DEF Negotiated, Least, MaxMinor
<1> QED
  BY <1>2, <1>3, <1>4, <1>5 DEF LongInv

\* The steps of a direct session: a key is the backend's or of 8 bytes, and the
\* version stays at 3.2 with a backend and a client that both have it.
LEMMA LongDirect ==
  ASSUME ScriptInv, SeenInv, SpokenInv, LongInv, pc \notin {"served", "closed"},
         \/ \E b \in Backends : DialDirect(b)
         \/ Reauth \/ RelayChallenge \/ (\E right \in BOOLEAN : RelayAnswer(right))
         \/ RelayOther \/ RecordKey \/ SendKey \/ RelayReady
  PROVE  LongInv'
<1> USE DEF Goto
<1>1. seen \in Seq(Shown) /\ NoKey("key32")
  BY DEF SeenInv, LongInv
<1>2. conf.mode = "direct" /\ conf' = conf
  BY DEF ScriptInv, Upstream, DialDirect, Reauth, RelayChallenge, RelayAnswer, RelayOther,
         RecordKey, SendKey, RelayReady
<1>3. seen' = seen \/ \E x \in Shown \ {"key32"} : seen' = seen \o <<x>>
  <2>1. DirectKey \in {"key8", "backendkey"}
    BY DEF DirectKey, KeyFor
  <2> QED
    BY <2>1 DEF DialDirect, Reauth, RelayChallenge, RelayAnswer, RelayOther, RecordKey, SendKey,
                RelayReady, Send, Shown, CancelKeys
<1>4. NoKey("key32")'
  BY <1>1, <1>3, LongSent
<1>5. Least(conf.minor, backend'.max) >= 2 => spoken' >= 2
  <2>1. ASSUME NEW b \in Backends, DialDirect(b)
        PROVE  Least(conf.minor, b.max) >= 2 => spoken >= 2
    <3>1. conf.minor \in Nat /\ b.max \in Nat
      BY StartupAssumption DEF ScriptInv, Confs, Backends
    <3>2. spoken \in {conf.minor, Negotiated(conf.minor)}
      BY <2>1 DEF DialDirect, SpokenInv
    <3> QED
      BY <3>1, <3>2 DEF Negotiated, Least, MaxMinor
  <2>2. CASE \E b \in Backends : DialDirect(b)
    BY <2>1, <2>2 DEF DialDirect, ReplayStartup, clientVars
  <2>3. CASE ~\E b \in Backends : DialDirect(b)
    <3>1. pc \in Upstream /\ backend' = backend
      BY <2>3 DEF Upstream, Reauth, RelayChallenge, RelayAnswer, RelayOther, RecordKey, SendKey,
         RelayReady, Receive, ReceiveAndAnswer, backendVars
    <3>2. spoken' = spoken \/ spoken' = Least(conf.minor, backend.max)
      BY <2>3 DEF Reauth, RelayChallenge, RelayAnswer, RelayOther, RecordKey, SendKey, RelayReady,
         clientVars
    <3> QED
      BY <1>2, <3>1, <3>2 DEF LongInv
  <2> QED
    BY <2>2, <2>3
<1> QED
  BY <1>2, <1>4, <1>5 DEF LongInv

\* LongInv is inductive, with ScriptInv, SeenInv and SpokenInv.
LEMMA LongStep ==
  ScriptInv /\ SeenInv /\ SpokenInv /\ LongInv /\ [StartupNext]_vars => LongInv'
<1> SUFFICES ASSUME ScriptInv, SeenInv, SpokenInv, LongInv, [StartupNext]_vars PROVE LongInv'
  OBVIOUS
<1>0. seen \in Seq(Shown)
  BY DEF SeenInv
\* A step of a session that is neither served nor relayed.
<1>1. ASSUME pc \notin {"served", "closed"}, pc' \notin Upstream \cup {"served"}, conf' = conf,
             seen' = seen \/ \E x \in Shown \ CancelKeys : seen' = seen \o <<x>>
      PROVE  LongInv'
  <2>1. NoKey("key32")' /\ (conf.mode # "direct" => NoKey("backendkey")')
    BY <1>0, <1>1, LongSent DEF LongInv, CancelKeys
  <2> QED
    BY <1>1, <2>1 DEF LongInv
<1>2. CASE Opening \/ Authenticating
  <2>1. pc \notin {"served", "closed"} /\ pc' \notin Upstream \cup {"served"} /\ conf' = conf
    BY <1>2, EarlySends DEF Before, Upstream
  <2>2. seen' = seen \/ \E x \in Shown \ CancelKeys : seen' = seen \o <<x>>
    BY <1>2, EarlySends DEF Shown, CancelKeys
  <2> QED
    BY <1>1, <2>1, <2>2
<1>3. CASE SynthesizeStartup
  BY <1>3, LongSynthesized
<1>4. CASE \/ \E b \in Backends : DialDirect(b)
           \/ Reauth \/ RelayChallenge \/ (\E right \in BOOLEAN : RelayAnswer(right))
           \/ RelayOther \/ RecordKey \/ SendKey \/ RelayReady
  <2>1. pc \notin {"served", "closed"}
    BY <1>4 DEF DialDirect, Reauth, RelayChallenge, RelayAnswer, RelayOther, RecordKey, SendKey,
       RelayReady, Goto
  <2> QED
    BY <1>4, <2>1, LongDirect
<1>5. CASE \/ NoRoute \/ DialFails \/ ReauthFails \/ RelayChallengeFails \/ RelayError \/ Begin
           \/ RejectPassThrough \/ ParamsCached \/ (\E b \in Backends : DialPooled(b))
           \/ ConnectorAuth \/ ConnectorRefuses \/ ConnectorFails \/ ConnectorCapture
           \/ StartCustom
  <2>1. pc \notin {"served", "closed"} /\ pc' \notin Upstream \cup {"served"} /\ conf' = conf
    BY <1>5 DEF NoRoute, DialFails, ReauthFails, RelayChallengeFails, RelayError, Begin,
       RejectPassThrough, ParamsCached, DialPooled, ConnectorAuth, ConnectorRefuses,
       ConnectorFails, ConnectorCapture, StartCustom, Goto, Reject, Drop, Upstream
  <2>2. seen' = seen \/ seen' = seen \o <<"error">>
    BY <1>5 DEF NoRoute, DialFails, ReauthFails, RelayChallengeFails, RelayError, Begin,
       RejectPassThrough, ParamsCached, DialPooled, ConnectorAuth, ConnectorRefuses,
       ConnectorFails, ConnectorCapture, StartCustom, Reject, Send
  <2>3. "error" \in Shown \ CancelKeys
    BY DEF Shown, CancelKeys
  <2> QED
    BY <1>1, <2>1, <2>2, <2>3
<1>6. CASE SessionError
  BY <1>6 DEF SessionError, Drop, LongInv, NoKey, Upstream
<1>7. CASE BackendFails \/ GssEncRequest \/ UNCHANGED vars
  BY <1>7 DEF BackendFails, GssEncRequest, vars, clientVars, backendVars, LongInv, NoKey
<1> QED
  BY <1>2, <1>3, <1>4, <1>5, <1>6, <1>7 DEF StartupNext, Forwarding

\* A served client has a key that its protocol version allows, the backend's own
\* included, and the CancelRequest that presents it parses as one, whatever
\* versions clients and backends have (RegistryCancellation::begin,
\* relay_startup, StartupRequest::parse).
THEOREM StartupKeyFitsVersion == StartupSpec => []KeyFitsVersion
<1>1. StartupInit => SpokenInv /\ LongInv
  BY NoFrames DEF StartupInit, SpokenInv, LongInv, NoKey, Upstream
<1>2. LongInv => KeyFitsVersion
  <2> SUFFICES ASSUME LongInv, pc = "served", NEW k \in CancelKeys, Count({k}) > 0
               PROVE  /\ KeyLength(k) > 8 => spoken >= 2
                      /\ Parse(CancelFrame(KeyLength(k))) = "cancel"
    BY DEF KeyFitsVersion
  <2>1. ~NoKey(k)
    <3> SUFFICES ASSUME NoKey(k) PROVE FALSE
      OBVIOUS
    <3>1. \A i \in DOMAIN seen : seen[i] \notin {k}
      BY DEF NoKey
    <3>2. Count({k}) = 0
      BY <3>1, CountNone DEF Count, CountIn
    <3> QED
      BY <3>2
  <2>2. KeyLength(k) > 8 => spoken >= 2
    BY <2>1 DEF KeyLength, LongInv
  <2>3. Parse(CancelFrame(KeyLength(k))) = "cancel"
    <3>1. KeyLength(k) \in {8, 32}
      BY DEF KeyLength
    <3>2. CancelFrame(KeyLength(k)).code = "cancel" /\ CancelFrame(KeyLength(k)).len \in {16, 40}
      BY <3>1 DEF CancelFrame
    <3> QED
      BY <3>2 DEF Parse, MAX_STARTUP_PACKET_LEN
  <2> QED
    BY <2>2, <2>3
<1> QED
  BY <1>1, <1>2, ScriptInit, ScriptStep, SeenInit, SeenStep, SpokenStep, LongStep, PTL
  DEF StartupSpec
-----------------------------------------------------------------------------
(* Types *)

Reasons ==
  {"none", "tls", "protocol", "mechanism", "password", "route", "mode", "reauth", "backend"}

\* What the invariants above leave open of the types; a session that is relayed
\* has a backend.
RestTyped ==
  /\ pc \in PCs /\ tls \in BOOLEAN /\ spoken \in Nat
  /\ keys \in Keys \cup {NoSecret} /\ first \in Firsts \cup {NoFirst}
  /\ proof \in Passwords \cup {NoPassword} /\ proper \in BOOLEAN
  /\ backend \in Backends \cup {NoBackend} /\ (pc \in Upstream => backend \in Backends)
  /\ owes \in BOOLEAN /\ contacted \in BOOLEAN /\ refused \in BOOLEAN
  /\ key \in {"none", "registered", "routed"}
  /\ reason \in Reasons

\* What a step may change freely: where the task is, the key and the reason.
LEMMA MovesTyped ==
  ASSUME RestTyped, [StartupNext]_vars
  PROVE  pc' \in PCs /\ key' \in {"none", "registered", "routed"} /\ reason' \in Reasons
<1> USE DEF RestTyped, PCs, Reasons, Goto, Reject, Drop
<1>1. CASE Opening
  BY <1>1 DEF Opening, DirectTls, PlainStart, SslRequest, PlaintextStartup, CancelPacket,
              BadStartup, StartupMessage
<1>2. CASE Authenticating
  BY <1>2 DEF Authenticating, PassThrough, AskPassword, ReadPassword, Lookup, LookupFails,
              ReadFirst, ReadFinal
<1>3. CASE NoRoute \/ DialFails \/ (\E b \in Backends : DialDirect(b)) \/ Reauth \/ ReauthFails
  BY <1>3 DEF NoRoute, DialFails, DialDirect, Reauth, ReauthFails, Begun
<1>4. CASE RelayChallenge \/ (\E right \in BOOLEAN : RelayAnswer(right)) \/ RelayChallengeFails
           \/ RelayOther \/ RecordKey \/ SendKey \/ RelayReady \/ RelayError
  BY <1>4 DEF RelayChallenge, RelayAnswer, RelayChallengeFails, RelayOther, RecordKey, SendKey, RelayReady,
              RelayError
<1>5. CASE Begin \/ RejectPassThrough \/ ParamsCached \/ \E b \in Backends : DialPooled(b)
  BY <1>5 DEF Begin, RejectPassThrough, ParamsCached, DialPooled, Begun
<1>6. CASE ConnectorAuth \/ ConnectorRefuses \/ ConnectorFails \/ ConnectorCapture
           \/ StartCustom \/ SynthesizeStartup
  BY <1>6 DEF ConnectorAuth, ConnectorRefuses, ConnectorFails, ConnectorCapture, StartCustom,
              SynthesizeStartup
<1>7. CASE SessionError \/ BackendFails \/ GssEncRequest \/ UNCHANGED vars
  BY <1>7 DEF SessionError, BackendFails, GssEncRequest, vars
<1> QED
  BY <1>1, <1>2, <1>3, <1>4, <1>5, <1>6, <1>7 DEF StartupNext, Forwarding

\* The client's side: encryption, its version, and its part in the
\* authentication; the keys of a proof that verifies are those stored.
LEMMA ClientTyped ==
  ASSUME RestTyped, ScriptInv, stored \in Keys \cup {NoSecret}, [StartupNext]_vars
  PROVE  /\ tls' \in BOOLEAN /\ spoken' \in Nat
         /\ keys' \in Keys \cup {NoSecret} /\ first' \in Firsts \cup {NoFirst}
         /\ proof' \in Passwords \cup {NoPassword} /\ proper' \in BOOLEAN
<1> USE DEF RestTyped, clientVars, authVars
<1>0. conf.minor \in Nat /\ Negotiated(conf.minor) \in Nat
  BY StartupAssumption DEF ScriptInv, Confs, Negotiated, Least, MaxMinor
<1>1. CASE Opening
  BY <1>0, <1>1 DEF Opening, DirectTls, PlainStart, SslRequest, PlaintextStartup, CancelPacket,
                    BadStartup, StartupMessage
<1>2. CASE Authenticating
  <2>1. tls' = tls /\ spoken' = spoken
    BY <1>2 DEF Authenticating, PassThrough, AskPassword, ReadPassword, Lookup, LookupFails,
                ReadFirst, ReadFinal
  <2>2. CASE PassThrough \/ AskPassword
             \/ \E a \in AdminConnections :
                  LookupFails(a) \/ \E r \in Keys \cup {NoSecret} : Lookup(r, a)
    BY <2>1, <2>2 DEF PassThrough, AskPassword, LookupFails, Lookup
  <2>3. CASE \E p \in Passwords, k \in Keys \cup {NoSecret} : ReadPassword(p, k)
    BY <2>1, <2>3 DEF ReadPassword
  <2>4. CASE \E f \in Firsts : ReadFirst(f)
    <3>1. \A f : ProperFirst(conf.plus, f) \in BOOLEAN
      BY DEF ProperFirst
    <3> QED
      BY <2>1, <2>4, <3>1 DEF ReadFirst
  <2>5. ASSUME NEW p \in Passwords, NEW f \in Finals(p, PresentedSalt), ReadFinal(p, f)
        PROVE  /\ keys' \in Keys \cup {NoSecret} /\ first' \in Firsts \cup {NoFirst}
               /\ proof' \in Passwords \cup {NoPassword} /\ proper' \in BOOLEAN
    <3>1. first' = first /\ proof' = p /\ proper' = FollowsRFC(conf.plus, first, f)
      BY <2>5 DEF ReadFinal
    <3>2. keys' = keys \/ (keys' = Secret /\ Secret # MockSecret)
      BY <2>5 DEF ReadFinal, ProofVerifies
    <3>3. FollowsRFC(conf.plus, first, f) \in BOOLEAN
      BY Zenon DEF FollowsRFC, ProperFirst
    <3> QED
      BY <3>1, <3>2, <3>3 DEF Secret
  <2> QED
    BY <1>2, <2>1, <2>2, <2>3, <2>4, <2>5 DEF Authenticating
<1>3. CASE Forwarding
  <2>1. UNCHANGED <<tls, authVars>>
    BY <1>3, ForwardingSteps
  <2>2. CASE RelayOther
    <3>1. backend.max \in Nat
      BY <2>2, StartupAssumption DEF RelayOther, Upstream, Backends
    <3>2. Least(conf.minor, backend.max) \in Nat
      BY <1>0, <3>1 DEF Least
    <3>3. spoken' \in {spoken, Least(conf.minor, backend.max)}
      BY <2>2 DEF RelayOther
    <3> QED
      BY <2>1, <3>2, <3>3
  <2>3. CASE ~RelayOther
    <3>1. spoken' = spoken
      BY <1>3, <2>3 DEF Forwarding, NoRoute, DialFails, DialDirect, Reauth, ReauthFails,
         RelayChallenge, RelayAnswer, RelayChallengeFails, RecordKey, SendKey, RelayReady, RelayError, Begin,
         RejectPassThrough, ParamsCached, DialPooled, ConnectorAuth, ConnectorRefuses,
         ConnectorFails, ConnectorCapture, StartCustom, SynthesizeStartup
    <3> QED
      BY <2>1, <3>1
  <2> QED
    BY <2>2, <2>3
<1>4. CASE SessionError \/ BackendFails \/ GssEncRequest \/ UNCHANGED vars
  BY <1>4 DEF SessionError, BackendFails, GssEncRequest, vars
<1> QED
  BY <1>1, <1>2, <1>3, <1>4 DEF StartupNext

\* The backend's side: a session relays only what it dialled.
LEMMA BackendTyped ==
  ASSUME RestTyped, [StartupNext]_vars
  PROVE  /\ backend' \in Backends \cup {NoBackend} /\ (pc' \in Upstream => backend' \in Backends)
         /\ owes' \in BOOLEAN /\ contacted' \in BOOLEAN /\ refused' \in BOOLEAN
<1> USE DEF RestTyped, backendVars, Upstream, Goto, Reject, Drop
<1>1. CASE Opening \/ SessionError
  BY <1>1 DEF Opening, DirectTls, PlainStart, SslRequest, PlaintextStartup, CancelPacket,
              BadStartup, StartupMessage, SessionError
<1>2. CASE Authenticating
  BY <1>2 DEF Authenticating, PassThrough, AskPassword, ReadPassword, Lookup, LookupFails,
              ReadFirst, ReadFinal
<1>3. CASE \E b \in Backends : DialDirect(b) \/ DialPooled(b)
  BY <1>3 DEF DialDirect, DialPooled, ReplayStartup
<1>4. CASE Reauth \/ ConnectorAuth
  BY <1>4 DEF Reauth, ConnectorAuth, AnswerWithPassword, Receive, ReceiveAndAnswer
<1>5. CASE ReauthFails \/ RelayChallengeFails \/ RelayOther \/ RecordKey \/ SendKey \/ RelayReady
           \/ RelayError \/ ConnectorFails \/ ConnectorCapture
  BY <1>5 DEF ReauthFails, RelayChallengeFails, RelayOther, RecordKey, SendKey, RelayReady, RelayError,
              ConnectorFails, ConnectorCapture, Receive
<1>6. CASE RelayChallenge \/ \E right \in BOOLEAN : RelayAnswer(right)
  <2>1. UNCHANGED <<backend, contacted>> /\ pc \in Upstream
    BY <1>6 DEF RelayChallenge, RelayAnswer
  <2>2. ASSUME RelayChallenge PROVE owes' \in BOOLEAN /\ refused' \in BOOLEAN
    <3>1. refused' = refused /\ \E m \in Challenges \cup {"saslfinal"} : owes' = (m \in Challenges)
      BY <2>2 DEF RelayChallenge
    <3> QED
      BY <3>1
  <2>3. ASSUME NEW right \in BOOLEAN, RelayAnswer(right)
        PROVE  owes' \in BOOLEAN /\ refused' \in BOOLEAN
    <3>1. owes' = FALSE /\ refused' = (refused \/ ~right)
      BY <2>3 DEF RelayAnswer
    <3> QED
      BY <3>1
  <2> QED
    BY <1>6, <2>1, <2>2, <2>3
<1>7. CASE NoRoute \/ DialFails \/ Begin \/ RejectPassThrough \/ ParamsCached
           \/ ConnectorRefuses \/ StartCustom \/ SynthesizeStartup
  BY <1>7 DEF NoRoute, DialFails, Begin, RejectPassThrough, ParamsCached, ConnectorRefuses,
              StartCustom, SynthesizeStartup
<1>8. CASE BackendFails \/ GssEncRequest \/ UNCHANGED vars
  BY <1>8 DEF BackendFails, GssEncRequest, vars
<1> QED
  BY <1>1, <1>2, <1>3, <1>4, <1>5, <1>6, <1>7, <1>8 DEF StartupNext, Forwarding

\* The variables of Startup keep their types.
THEOREM StartupTyped == StartupSpec => []StartupTypeOK
<1>1. StartupInit => RestTyped
  <2>1. \A c \in Confs : c.minor \in Nat
    BY StartupAssumption DEF Confs
  <2> QED
    BY <2>1 DEF StartupInit, RestTyped, PCs, Reasons, Upstream
<1>2. StartupInit => conf \in Confs /\ VerifiedInv /\ RightInv
  BY DEF StartupInit, VerifiedInv, RightInv, RightAccepted, KeysReusable, Before
<1>3. RestTyped /\ ScriptInv /\ RightInv /\ [StartupNext]_vars => RestTyped'
  BY MovesTyped, ClientTyped, BackendTyped DEF RestTyped, RightInv
<1>4. RestTyped /\ ScriptInv /\ RightInv /\ SeenInv => StartupTypeOK
  BY DEF RestTyped, ScriptInv, RightInv, SeenInv, StartupTypeOK, Reasons
<1> QED
  BY <1>1, <1>2, <1>3, <1>4, ScriptInit, ScriptStep, SeenInit, SeenStep, VerifiedStep, RightStep,
     PTL DEF StartupSpec
=============================================================================
