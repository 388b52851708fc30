----------------------------- MODULE TlsContext -----------------------------
(***************************************************************************)
(* The construction of the TLS context of a stream                         *)
(* (make_ssl_context of lib/rstream/io/detail/stream/stream_socket_ssl.cpp *)
(* with the PKCS#11 and engine helpers, and parse_ssl_config of ssl.cpp    *)
(* for the defaults).  The options are read once and in order, so each one *)
(* is chosen where it is first read; any call into OpenSSL may fail, which *)
(* throws and ends the construction.                                       *)
(***************************************************************************)
EXTENDS Naturals, FiniteSets

Sources == {"none", "inline", "file", "both"}
Types   == {"none", "pem", "asn1", "engine", "pkcs11", "other"}

CONSTANTS
  ProviderBuild,  \* SSL_STREAM_USE_OPENSSL_PROVIDER, with PKCS#11 support
  EngineBuild     \* SSL_STREAM_USE_OPENSSL_ENGINE

VARIABLES
  tlsStep,    \* the part of make_ssl_context that runs next
  shared,     \* the options read in more than one part
  context,    \* the context under construction
  engine,     \* m_engine: the identifier it was loaded with
  provider    \* m_pkcs11_provider is loaded

ctxVars == <<tlsStep, shared, context, engine, provider>>

Init ==
  /\ tlsStep = "version"
  /\ shared \in [client : BOOLEAN, passphrase : BOOLEAN, engine : BOOLEAN,
                 module : BOOLEAN, pin : BOOLEAN]
  /\ context = [method |-> "none", cert |-> "none", key |-> "none", passphrase |-> FALSE,
                authorities |-> {}, configured |-> {}, verify |-> {}, checked |-> FALSE]
  /\ engine = "none" /\ provider = FALSE

Throw ==
  /\ tlsStep' = "failed"
  /\ UNCHANGED <<shared, context, engine, provider>>

(* What loading a certificate or a key may come to: where the object came
   from, or "failed", and the engine and the provider that are loaded then. *)
Outcome(from, eng, prov) == [from |-> from, eng |-> eng, prov |-> prov]

---------------------------------------------------------------------------
(* The method, the options and the raw public keys: one version at most. *)
Version ==
  /\ tlsStep = "version"
  /\ \/ Throw
     \/ \E v12, v13 \in BOOLEAN :
          /\ ~(v12 /\ v13)
          /\ context' = [context EXCEPT !.method = IF v12 THEN "tlsv12" ELSE IF v13 THEN "tlsv13" ELSE "tls"]
          /\ tlsStep' = "cert"
          /\ UNCHANGED <<shared, engine, provider>>

(* init_engine, then the load through m_engine: an engine that is loaded
   already is kept, whichever it is, and stays loaded if the load fails *)
ThroughEngine(name, prov) ==
  LET eng == IF engine = "none" THEN name ELSE engine
  IN {Outcome("failed", engine, prov), Outcome("failed", eng, prov), Outcome(eng, eng, prov)}

(* init_pkcs11_provider: whether it succeeds, and whether the provider is loaded
   then; without a module it does nothing *)
init_pkcs11_provider ==
  IF ~ProviderBuild \/ ~shared.module THEN {[ok |-> FALSE, prov |-> provider]}
  ELSE {[ok |-> FALSE, prov |-> provider], [ok |-> FALSE, prov |-> TRUE], [ok |-> TRUE, prov |-> TRUE]}

(* The PIN is required; the provider first, and the engine when the provider or
   its store cannot be opened, but not when the store holds no such object. *)
LoadPkcs11 ==
  IF ~shared.pin THEN {Outcome("failed", engine, provider)}
  ELSE UNION {(IF p.ok THEN {Outcome("provider", engine, TRUE), Outcome("failed", engine, TRUE)} ELSE {})
              \cup (IF EngineBuild THEN ThroughEngine("pkcs11", p.prov) ELSE {Outcome("failed", engine, p.prov)}) :
              p \in init_pkcs11_provider}

load_pkcs11_certificate == LoadPkcs11
load_pkcs11_private_key == LoadPkcs11

(* What a certificate or a key of source s and type t may be loaded to; no
   outcome when the options contradict each other. *)
LoadOutcomes(s, t, pkcs11) ==
  CASE s = "both" -> {}
    [] t \in {"none", "pem", "asn1"} ->
         {Outcome(s, engine, provider), Outcome("failed", engine, provider)}
    [] t = "engine" /\ s = "inline" /\ shared.engine /\ EngineBuild ->
         ThroughEngine("configured", provider)
    [] t = "pkcs11" /\ s = "inline" -> pkcs11
    [] OTHER -> {}

(* The object is installed, or the exception leaves what was loaded. *)
Install(r, next, ctx) ==
  /\ engine' = r.eng /\ provider' = r.prov
  /\ IF r.from = "failed" THEN tlsStep' = "failed" /\ UNCHANGED context
     ELSE tlsStep' = next /\ context' = ctx
  /\ UNCHANGED shared

Certificate ==
  /\ tlsStep = "cert"
  /\ \E s \in Sources, t \in Types :
       \/ /\ s = "none"
          /\ IF t # "none" \/ shared.passphrase THEN Throw
             ELSE tlsStep' = "key" /\ UNCHANGED <<shared, context, engine, provider>>
       \/ /\ s # "none" /\ LoadOutcomes(s, t, load_pkcs11_certificate) = {} /\ Throw
       \/ \E r \in LoadOutcomes(s, t, load_pkcs11_certificate) :
            s # "none" /\ Install(r, "key", [context EXCEPT !.cert = r.from])

(* The key.  A passphrase is refused for a PKCS#11 or an ASN.1 key; for a PEM
   key its callback is installed, after the key is loaded. *)
PrivateKey ==
  /\ tlsStep = "key"
  /\ \E s \in Sources, t \in Types :
       \/ /\ s = "none"
          /\ IF t # "none" THEN Throw
             ELSE tlsStep' = "authorities" /\ UNCHANGED <<shared, context, engine, provider>>
       \/ /\ s # "none"
          /\ LoadOutcomes(s, t, load_pkcs11_private_key) = {} \/ (shared.passphrase /\ t \in {"pkcs11", "asn1"})
          /\ Throw
       \/ /\ s # "none" /\ ~(shared.passphrase /\ t \in {"pkcs11", "asn1"})
          /\ \E r \in LoadOutcomes(s, t, load_pkcs11_private_key) :
               Install(r, "authorities",
                       [context EXCEPT !.key = r.from, !.passphrase = shared.passphrase /\ t # "engine"])

(* The default authorities are loaded when neither a CA certificate nor a CA
   directory is given. *)
Defaults(ca, capath) == IF ca = "none" /\ ~capath THEN {"default"} ELSE {}

(* The Diffie-Hellman parameters, the certificate authorities, the ciphers and
   the groups. *)
Authorities ==
  /\ tlsStep = "authorities"
  /\ \/ Throw
     \/ \E dh, ca \in Sources, capath \in BOOLEAN :
          /\ dh # "both" /\ ca # "both"
          /\ LET given == (IF ca = "none" THEN {} ELSE {"cacert"})
                          \cup (IF capath THEN {"capath"} ELSE {})
             IN context' = [context EXCEPT !.authorities = given \cup Defaults(ca, capath),
                                           !.configured = given]
          /\ tlsStep' = "verify"
          /\ UNCHANGED <<shared, engine, provider>>

(* The verification mode and its callback.  parse_ssl_config verifies the peer
   unless told otherwise, and asks for its certificate if it verifies it. *)
Verification ==
  /\ tlsStep = "verify"
  /\ \E peer, request \in BOOLEAN :
       IF peer /\ ~request THEN Throw
       ELSE /\ context' = [context EXCEPT
                 !.verify = (IF request THEN {"peer"} ELSE {})
                            \cup (IF peer THEN {"fail_if_no_peer_cert"} ELSE {}),
                 !.checked = peer]
            /\ tlsStep' = "done"
            /\ UNCHANGED <<shared, engine, provider>>

Next == Version \/ Certificate \/ PrivateKey \/ Authorities \/ Verification

Spec == Init /\ [][Next]_ctxVars

---------------------------------------------------------------------------
(* A finished context that checks its peer has authorities to check against,
   exactly the configured ones when there are any, and the handshake then
   fails without a peer certificate: neither half of the verification options
   is in force without the other. *)
VerificationEffective ==
  (tlsStep = "done" /\ context.checked) =>
    /\ context.verify = {"peer", "fail_if_no_peer_cert"}
    /\ context.authorities # {}
    /\ context.configured # {} => context.authorities = context.configured
=============================================================================
