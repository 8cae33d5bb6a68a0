------------------------------- MODULE Scram -------------------------------
(***************************************************************************)
(* SCRAM-SHA-256 as the proxy plays it, server to its client (ScramSha256) *)
(* and client to a backend (run_scram), with ideal cryptography: the keys *)
(* derived from a password and a salt (with its iteration count) are that *)
(* pair, a proof shows which keys made it and nothing else, and a random  *)
(* value equals no other.  Both sides of an exchange saw the same messages*)
(* (a TLS stream), so AuthMessage is left out.                            *)
(***************************************************************************)
CONSTANTS
  Passwords, Salts,
  NoPassword,   \* no password at all
  NoSalt,       \* a random salt: no role's
  NoSecret      \* no verifier, no keys

ASSUME ScramAssumption ==
  /\ NoPassword \notin Passwords /\ NoSalt \notin Salts
  /\ NoSecret \notin [password : Passwords \cup {NoPassword}, salt : Salts \cup {NoSalt}]

\* ScramKeys, and the verifier (ScramSecret) that holds their one-way images.
Keys == [password : Passwords, salt : Salts]

FromPassword(p, s) == [password |-> p, salt |-> s]

\* The verifier an unknown user is met with: its keys are nobody's.
MockSecret == [password |-> NoPassword, salt |-> NoSalt]

\* SASLInitialResponse: the mechanism, and the flag of the GS2 header ("p" names
\* tls-server-end-point, "q" another channel binding).
Firsts ==
  [mechanism : {"SCRAM-SHA-256", "SCRAM-SHA-256-PLUS", "other"}, flag : {"p", "q", "y", "n"}]

\* Mutant: once -PLUS is offered, a client that cannot bind is denied.
AcceptableBoundOnly(first, plus) ==
  \/ first.mechanism = "SCRAM-SHA-256-PLUS" /\ plus /\ first.flag = "p"
  \/ first.mechanism = "SCRAM-SHA-256" /\ first.flag \in {"n", "y"} /\ ~plus

\* What the proxy accepts when it offers -PLUS or not.
Acceptable(first, plus) ==
  \/ first.mechanism = "SCRAM-SHA-256-PLUS" /\ plus /\ first.flag = "p"
  \/ first.mechanism = "SCRAM-SHA-256" /\ first.flag \in {"n", "y"} /\ (first.flag = "y" => ~plus)

\* The c= of client-final: the GS2 header again, and channel-binding data.
Bindings == [flag : {"p", "q", "y", "n"}, data : {"none", "certificate", "other"}]

Binding(first) ==
  [flag |-> first.flag, data |-> IF first.flag = "p" THEN "certificate" ELSE "none"]

\* client-final of a client that has password p and was sent salt s: it echoes
\* the nonce or not; a proof of the wrong length has no keys.
Finals(p, s) ==
  [nonce : BOOLEAN, binding : Bindings, keys : {FromPassword(p, s), NoSecret}]

\* Nonce, channel binding, then the proof, which a mock verifier never passes.
ProofVerifies(secret, first, final) ==
  /\ final.nonce
  /\ final.binding = Binding(first)
  /\ secret # MockSecret /\ final.keys = secret

\* A client that follows RFC 5802 binds to the channel if it can and the server
\* offers it, says "y" if it could and the server does not, "n" if it cannot.
ProperFirst(plus, first) ==
  first \in {[mechanism |-> "SCRAM-SHA-256", flag |-> "n"],
             IF plus THEN [mechanism |-> "SCRAM-SHA-256-PLUS", flag |-> "p"]
                     ELSE [mechanism |-> "SCRAM-SHA-256", flag |-> "y"]}

\* It then echoes the nonce and its GS2 header, with the binding's data.
FollowsRFC(plus, first, final) ==
  /\ ProperFirst(plus, first)
  /\ final.nonce
  /\ final.binding.flag = first.flag
  /\ final.binding.data = (IF plus /\ first.flag = "p" THEN "certificate" ELSE "none")
  /\ final.keys # NoSecret

\* PgAuthidStore::get_secret: the admin connection works only under trust and
\* with standard_conforming_strings, else the lookup fails; a role that is
\* missing, or whose password is not a SCRAM verifier, has no secret.
AdminConnections == [trust : BOOLEAN, conforming : BOOLEAN]

AdminUsable(admin) == admin.trust /\ admin.conforming

GetSecret(rolpassword) == IF rolpassword \in Keys THEN rolpassword ELSE NoSecret
=============================================================================
