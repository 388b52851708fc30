---------------------------- MODULE WebttyPayload ----------------------------
(***************************************************************************)
(* The end-to-end encryption of the WebTTY payloads                        *)
(* (bin/webtty/lib/rstream/webtty/payload_crypto.cpp): the client wraps a  *)
(* payload key for each recipient, a server opens the envelope of its      *)
(* identity, and both encrypt what they send on a stream.  Cryptography is *)
(* symbolic: a derived value is the tuple of what it is derived from, and  *)
(* a box opens with exactly the key and the associated data it was sealed  *)
(* with.  <<"public", k>> is the public key of the private key k.          *)
(***************************************************************************)
EXTENDS Naturals, Sequences, TLC

CONSTANTS
  PayloadConfigs,   \* e2e_payload_crypto_config: [suite, envelopeSuite, context, recipients, key, keyId]
  Identities,       \* the identities of the servers: [private, keyId]
  Plaintexts,
  MaxSessions, MaxPayloads

VARIABLES
  e2e,        \* per session: the client's crypto object, its grant, the server's
  payloads,   \* what was encrypted, in order
  opened      \* the last payload that was decrypted and how that went

payloadVars == <<e2e, payloads, opened>>

Sessions == 1..MaxSessions
Streams  == {"stdin", "stdout", "stderr"}

None == [present |-> FALSE]

PublicKey(k) == <<"public", k>>

(* e2e_key_id *)
e2e_key_id(public) == <<"key_id", public>>

x25519_dh(private, public) == {private, public[2]}

(* dhkem_extract_and_expand and hpke_key_schedule: the key that both ends derive *)
Schedule(dh, encapsulated, public, info) == <<"hpke", dh, <<encapsulated, public>>, info>>

aes_gcm_encrypt(key, nonce, text, aad) == [key |-> key, nonce |-> nonce, text |-> text, aad |-> aad]

aes_gcm_decrypt(box, key, nonce, aad) ==
  IF box.key = key /\ box.nonce = nonce /\ box.aad = aad THEN [ok |-> TRUE, text |-> box.text] ELSE [ok |-> FALSE]

hpke_info(suite, keyId, context, envelopeSuite) == <<"info", suite, envelopeSuite, keyId, context>>

hpke_aad(recipient, suite, keyId, context, envelopeSuite) == <<"key-wrap", suite, envelopeSuite, recipient, keyId, context>>

(* hpke_seal, with a fresh ephemeral key *)
hpke_seal(ephemeral, recipient, public, info, aad, text) ==
  [recipient |-> recipient, encapsulated |-> PublicKey(ephemeral),
   wrapped |-> aes_gcm_encrypt(Schedule(x25519_dh(ephemeral, public), PublicKey(ephemeral), public, info), "base", text, aad)]

hpke_open(identity, envelope, info, aad) ==
  aes_gcm_decrypt(envelope.wrapped,
    Schedule(x25519_dh(identity.private, envelope.encapsulated), envelope.encapsulated, PublicKey(identity.private), info),
    "base", aad)

Supported(suite, envelopeSuite) == suite = "aes_256_gcm" /\ envelopeSuite = "hpke_aes_256_gcm"

(* the key id of a recipient, computed from its key when the configuration has none *)
RecipientId(r) == IF r.keyId = <<>> THEN e2e_key_id(r.public) ELSE r.keyId

(* the payload key and its id: those of the configuration, or fresh ones *)
PayloadKey(s, c) == IF c.key = <<>> THEN <<"payload key", s>> ELSE c.key
PayloadKeyId(s, c) == IF c.keyId = <<>> THEN <<"payload key id", s>> ELSE c.keyId

(* make_e2e_client_payload_crypto in session s: one envelope per recipient; a key or an
   id of another size is refused *)
make_client(s, c) ==
  LET key   == PayloadKey(s, c)
      keyId == PayloadKeyId(s, c) IN
  IF ~Supported(c.suite, c.envelopeSuite) \/ c.recipients = <<>> \/ "short" \in {key[1], keyId[1]} THEN None
  ELSE [present |-> TRUE, suite |-> c.suite, key |-> key, keyId |-> keyId, context |-> c.context,
        envelopeSuite |-> c.envelopeSuite,
        envelopes |-> [i \in DOMAIN c.recipients |->
          LET r == c.recipients[i] IN
          hpke_seal(<<"ephemeral", s, i>>, RecipientId(r), r.public,
            hpke_info(c.suite, keyId, c.context, c.envelopeSuite),
            hpke_aad(RecipientId(r), c.suite, keyId, c.context, c.envelopeSuite), key)]]

(* normalize_identity: a missing key id is computed, and that clears the error so far *)
Normalized(identity) == [identity EXCEPT !.keyId = IF @ = <<>> THEN e2e_key_id(PublicKey(identity.private)) ELSE @]

(* the envelopes whose recipient is the identity; the first of them is taken *)
Matching(grant, keyId) == {i \in DOMAIN grant.envelopes : grant.envelopes[i].recipient = keyId}

(* make_e2e_server_payload_crypto *)
make_server(grant, identity) ==
  LET n == Normalized(identity)
      m == Matching(grant, n.keyId)
      i == CHOOSE j \in m : \A k \in m : j <= k IN
  IF ~Supported(grant.suite, grant.envelopeSuite) /\ identity.keyId # <<>> THEN None
  ELSE IF m = {} THEN None
  ELSE LET key == hpke_open(n, grant.envelopes[i],
                    hpke_info(grant.suite, grant.keyId, grant.context, grant.envelopeSuite),
                    hpke_aad(n.keyId, grant.suite, grant.keyId, grant.context, grant.envelopeSuite)) IN
       IF ~key.ok THEN None
       ELSE [present |-> TRUE, suite |-> grant.suite, key |-> key.text, keyId |-> grant.keyId,
             context |-> grant.context, envelopeSuite |-> grant.envelopeSuite, envelopes |-> <<>>]

payload_aad(stream, suite, keyId, context, nonce, length) == <<"payload", stream, suite, keyId, context, nonce, length>>

(* encrypt, with a fresh nonce *)
encrypt(crypto, stream, text, nonce) ==
  [suite |-> crypto.suite, keyId |-> crypto.keyId, nonce |-> nonce, aadContext |-> crypto.context, length |-> text,
   cipher |-> aes_gcm_encrypt(crypto.key, nonce, text,
                payload_aad(stream, crypto.suite, crypto.keyId, crypto.context, nonce, text))]

(* decrypt: the labels of the payload are compared before it is opened *)
decrypt(crypto, stream, p) ==
  IF p.suite # crypto.suite \/ p.keyId # crypto.keyId \/ p.aadContext # crypto.context THEN [ok |-> FALSE]
  ELSE aes_gcm_decrypt(p.cipher, crypto.key, p.nonce,
         payload_aad(stream, p.suite, p.keyId, p.aadContext, p.nonce, p.length))

-----------------------------------------------------------------------------
Init ==
  /\ e2e = [s \in Sessions |-> [config |-> None, client |-> None, identity |-> None, server |-> None]]
  /\ payloads = <<>>
  /\ opened = None

ClientStarts(s, c) ==
  /\ ~e2e[s].config.present
  /\ e2e' = [e2e EXCEPT ![s].config = [present |-> TRUE] @@ c, ![s].client = make_client(s, c)]
  /\ UNCHANGED <<payloads, opened>>

(* resolve: the server is given the grant of the client *)
ServerResolves(s, identity) ==
  /\ e2e[s].client.present /\ ~e2e[s].identity.present
  /\ e2e' = [e2e EXCEPT ![s].identity = [present |-> TRUE] @@ identity, ![s].server = make_server(e2e[s].client, identity)]
  /\ UNCHANGED <<payloads, opened>>

Encrypts(s, side, stream, text) ==
  /\ Len(payloads) < MaxPayloads
  /\ e2e[s][side].present
  /\ (side = "client") = (stream = "stdin")
  /\ payloads' = Append(payloads,
       [session |-> s, stream |-> stream, text |-> text,
        payload |-> encrypt(e2e[s][side], stream, text, <<"nonce", Len(payloads)>>)])
  /\ UNCHANGED <<e2e, opened>>

(* a payload of any session arrives on any stream *)
Decrypts(s, side, stream, i) ==
  /\ e2e[s][side].present
  /\ (side = "server") = (stream = "stdin")
  /\ opened' = [present |-> TRUE, session |-> s, stream |-> stream, of |-> payloads[i],
                result |-> decrypt(e2e[s][side], stream, payloads[i].payload)]
  /\ UNCHANGED <<e2e, payloads>>

Next ==
  \E s \in Sessions :
    \/ \E c \in PayloadConfigs : ClientStarts(s, c)
    \/ \E identity \in Identities : ServerResolves(s, identity)
    \/ \E side \in {"client", "server"}, stream \in Streams :
         \/ \E text \in Plaintexts : Encrypts(s, side, stream, text)
         \/ \E i \in DOMAIN payloads : Decrypts(s, side, stream, i)

Spec == Init /\ [][Next]_payloadVars

-----------------------------------------------------------------------------
(* A server gets the payload key of the client exactly when its identity is one of
   the recipients, whichever of them it is and whether or not the ids were given. *)
GrantOpens ==
  \A s \in Sessions :
    LET c == e2e[s].config
        n == Normalized(e2e[s].identity) IN
    e2e[s].identity.present =>
      /\ e2e[s].server.present <=>
           \E i \in DOMAIN c.recipients :
             /\ c.recipients[i].public = PublicKey(n.private) /\ RecipientId(c.recipients[i]) = n.keyId
             /\ \A j \in 1..(i - 1) : RecipientId(c.recipients[j]) # n.keyId
      /\ e2e[s].server.present => e2e[s].server.key = e2e[s].client.key

(* Two sessions whose configurations give the same payload key, key id and context *)
Shared(s, t) ==
  LET c == e2e[s].config
      d == e2e[t].config IN
  <<>> \notin {c.key, c.keyId} /\ c.key = d.key /\ c.keyId = d.keyId /\ c.context = d.context

(* A payload opens exactly on its own stream and in its own session, or in one that is
   configured with the same payload key, key id and context, and gives back what was
   encrypted. *)
PayloadBound ==
  opened.present =>
    /\ opened.result.ok <=>
         /\ opened.of.session = opened.session \/ Shared(opened.of.session, opened.session)
         /\ opened.of.stream = opened.stream
    /\ opened.result.ok => opened.result.text = opened.of.text
=============================================================================
