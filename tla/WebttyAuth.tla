----------------------------- MODULE WebttyAuth ------------------------------
(***************************************************************************)
(* The proofs by which a WebTTY server and its client identify themselves *)
(* (bin/webtty/lib/rstream/webtty/auth_proof.cpp, and the functions of     *)
(* server.cpp and client.cpp that fill in and verify the transcripts).     *)
(*                                                                         *)
(* A transcript is hashed as a sequence of bytes, modelled byte by byte;   *)
(* SHA-256 and ECDSA are external and symbolic: a digest is the sequence   *)
(* it was computed from, a signature is the pair of key and digest.  A     *)
(* field of fixed size (a key id, a nonce, a digest) is one byte long.     *)
(* Time runs in half seconds, since the dates of a proof are truncated to  *)
(* seconds and the clock they are compared with is not; it is counted from *)
(* instant.day, as TLC's integers have 32 bits.                            *)
(***************************************************************************)
EXTENDS Integers, Sequences, FiniteSetsExt, SequencesExt, TLC

CONSTANTS
  AuthSetups,    \* [transport, workspace, project, server, principal, credential, grant, config,
                 \*  required, expected, identity, verifier, keys, resolver]
  Instants,      \* [day, start, skew, delay]: when a session starts, the client's clock, the transit
  MaxAuth        \* the sessions of a behaviour

VARIABLES
  sessions,   \* the sessions, in order; the last one is in progress
  instant

authVars == <<sessions, instant>>

-----------------------------------------------------------------------------
(* The encoding of a transcript *)

be32(n) == <<(n \div 16777216) % 256, (n \div 65536) % 256, (n \div 256) % 256, n % 256>>

Blank == {32} \union 9..13

trim_copy(v) ==
  LET solid == {i \in DOMAIN v : v[i] \notin Blank} IN
  IF solid = {} THEN <<>> ELSE SubSeq(v, Min(solid), Max(solid))

append_length_prefixed(v) == be32(Len(v)) \o v

append_length_prefixed_string(v) == append_length_prefixed(trim_copy(v))

(* the lists of suites: their number, then the code of each *)
append_suites(suites) == be32(Len(suites)) \o FlattenSeq([i \in DOMAIN suites |-> be32(suites[i])])

auth_requirement_code(required) == IF required THEN 2 ELSE 1

(* what both transcripts begin with, after the domain *)
Head1(domain, t) ==
  append_length_prefixed(domain) \o be32(1)
    \o append_length_prefixed_string(t.transport) \o append_length_prefixed_string(t.workspace)
    \o append_length_prefixed_string(t.project) \o append_length_prefixed_string(t.server)
    \o append_length_prefixed_string(t.session)
    \o append_length_prefixed(t.signing) \o append_length_prefixed(t.encryption) \o append_length_prefixed(t.nonce)
    \o be32(auth_requirement_code(t.required))

hash_webtty_client_proof_transcript(t) ==
  Head1(<<99>>, t) \o be32(1) \o be32(1)
    \o append_length_prefixed(t.grant) \o append_length_prefixed(t.config) \o append_length_prefixed(<<>>)
    \o append_length_prefixed_string(<<>>) \o append_length_prefixed_string(t.principal)
    \o append_length_prefixed(t.key) \o append_length_prefixed(t.credential)
    \o append_length_prefixed_string(t.issued) \o append_length_prefixed_string(t.expires)

hash_webtty_server_proof_transcript(t) ==
  Head1(<<115>>, t) \o append_suites(<<1>>) \o append_suites(<<1>>) \o append_suites(<<1>>)

sign_digest(key, digest) == [key |-> key, digest |-> digest]

verify_digest_signature(key, digest, signature) == signature = sign_digest(key, digest)

(* sha256_bytes and hash_proto_message: the serialization of an empty message is empty *)
sha256_bytes(v) == <<v>>

-----------------------------------------------------------------------------
(* Dates.  A date that was formatted is a record; gmtime is external. *)

is_leap_year(y) == (y % 4 = 0 /\ y % 100 # 0) \/ y % 400 = 0

days_in_month(y, m) == IF m = 2 /\ is_leap_year(y) THEN 29 ELSE <<31, 28, 31, 30, 31, 30, 31, 31, 30, 31, 30, 31>>[m]

days_from_civil(y0, m, d) ==
  LET y   == IF m <= 2 THEN y0 - 1 ELSE y0
      era == y \div 400
      yoe == y - era * 400
      doy == (153 * (IF m > 2 THEN m - 3 ELSE m + 9) + 2) \div 5 + d - 1 IN
  era * 146097 + (yoe * 365 + yoe \div 4 - yoe \div 100 + doy) - 719468

(* the day number of a date, counted from 1970-01-01 year by year and month by month *)
Leaps(y) == y \div 4 - y \div 100 + y \div 400
Ordinal(y, m, d) ==
  365 * (y - 1970) + Leaps(y - 1) - Leaps(1969)
    + <<0, 31, 59, 90, 120, 151, 181, 212, 243, 273, 304, 334>>[m] + (IF m > 2 /\ is_leap_year(y) THEN 1 ELSE 0) + d - 1

gmtime(seconds) ==
  LET day == instant.day + seconds \div 86400
      at(y, m, d) == [year |-> y, month |-> m, day |-> d, second |-> seconds % 86400] IN
  CHOOSE date \in {at(y, m, d) : y \in {1970 + day \div 366, 1970 + day \div 365}, m \in 1..12, d \in 1..31} :
    date.day <= 28 + (IF date.month # 2 THEN (IF date.month \in {4, 6, 9, 11} THEN 2 ELSE 3) ELSE IF is_leap_year(date.year) THEN 1 ELSE 0)
      /\ Ordinal(date.year, date.month, date.day) = day

(* parse_rfc3339_utc of a date that was formatted from gmtime *)
Parses(date) == date.month \in 1..12 /\ date.day \in 1..days_in_month(date.year, date.month)
parse_rfc3339_utc(date) == (days_from_civil(date.year, date.month, date.day) - instant.day) * 86400 + date.second

(* the bytes of a formatted date *)
Format(date) == <<date.year, date.month, date.day, date.second>>

utc_now_rfc3339(now) == gmtime(now \div 2)

add_seconds_rfc3339(date, n) == gmtime(parse_rfc3339_utc(date) + n)

-----------------------------------------------------------------------------
(* The session *)

ServerKey == "server key"
ClientKey == "client key"
KeyId(key) == IF key = ServerKey THEN <<201>> ELSE <<202>>
EncryptionId == <<203>>

(* do_send_server_hello *)
do_send_server_hello(n, setup) ==
  LET t == [transport |-> setup.transport, workspace |-> setup.workspace, project |-> setup.project,
            server |-> setup.server, session |-> <<110, n>>, signing |-> KeyId(ServerKey),
            encryption |-> EncryptionId, nonce |-> <<n>>, required |-> setup.required]
      digest == hash_webtty_server_proof_transcript(t) IN
  [transcript |-> t, proof |-> [digest |-> digest, signature |-> sign_digest(ServerKey, digest)]]

(* verify_server_hello: the transcript is filled in from the hello *)
verify_server_hello(setup, hello) ==
  IF setup.expected = "none" THEN "ok"
  ELSE IF setup.expected # ServerKey THEN "server_endpoint_identity_mismatch"
  ELSE LET digest == hash_webtty_server_proof_transcript([hello.transcript EXCEPT !.transport = setup.transport]) IN
       IF digest = hello.proof.digest /\ verify_digest_signature(ServerKey, digest, hello.proof.signature)
       THEN "ok" ELSE "server_proof_invalid"

(* what the client proves: the fields of the hello and its own *)
ClientTranscript(hello, setup, grant, config, principal, credential, key, issued, expires) ==
  hello @@ [grant |-> sha256_bytes(grant), config |-> sha256_bytes(config), principal |-> principal,
            credential |-> sha256_bytes(credential), key |-> key, issued |-> Format(issued), expires |-> Format(expires)]

(* add_client_proof *)
add_client_proof(setup, hello, now) ==
  IF ~setup.required THEN [status |-> "ok", proof |-> FALSE]
  ELSE IF ~setup.identity THEN [status |-> "client_identity_required", proof |-> FALSE]
  ELSE LET issued  == utc_now_rfc3339(now)
           expires == add_seconds_rfc3339(issued, 30)
           digest  == hash_webtty_client_proof_transcript(
                        ClientTranscript(hello.transcript, setup, setup.grant, setup.config, setup.principal,
                          setup.credential, KeyId(ClientKey), issued, expires)) IN
       [status |-> "ok", proof |-> TRUE, key |-> ClientKey, issued |-> issued, expires |-> expires,
        digest |-> digest, signature |-> sign_digest(ClientKey, digest)]

(* the public key that the server has for the client's key id: the verifier of the
   credential first, then the table, then the resolver *)
AuthorizedKey(setup) ==
  IF setup.verifier = "throws" THEN "throws"
  ELSE IF setup.verifier \notin {"absent", "none"} THEN setup.verifier
  ELSE IF setup.keys # "none" THEN setup.keys
  ELSE IF setup.resolver \in {"absent", "throws"} THEN "none"
  ELSE setup.resolver

(* the window of a proof, in half seconds *)
Timely(issued, expires, now) == ~(expires < now \/ issued > now + 10 \/ expires - issued > 60)

verify_client_proof(setup, server, open, now) ==
  IF ~setup.required THEN "ok"
  ELSE IF ~open.proof THEN "client_proof_required"
  ELSE IF AuthorizedKey(setup) # open.key THEN "client_unauthorized"
  ELSE IF ~Parses(open.issued) \/ ~Parses(open.expires) THEN "client_proof_invalid"
  ELSE IF ~Timely(2 * parse_rfc3339_utc(open.issued), 2 * parse_rfc3339_utc(open.expires), now) THEN "client_proof_invalid"
  ELSE LET digest == hash_webtty_client_proof_transcript(
                       ClientTranscript(server, setup, setup.grant, setup.config, setup.principal, setup.credential,
                         KeyId(open.key), open.issued, open.expires)) IN
       IF digest = open.digest /\ verify_digest_signature(open.key, digest, open.signature)
       THEN "ok" ELSE "client_proof_invalid"

-----------------------------------------------------------------------------
Current == sessions[Len(sessions)]
Update(s) == sessions' = [sessions EXCEPT ![Len(sessions)] = s] /\ UNCHANGED instant

Init == sessions = <<>> /\ instant \in Instants

(* a connection is accepted and the server says hello *)
ServerHello(setup) ==
  /\ Len(sessions) < MaxAuth
  /\ sessions # <<>> => Current.phase = "done"
  /\ sessions' = Append(sessions,
       [phase |-> "hello", setup |-> setup, hello |-> do_send_server_hello(Len(sessions) + 1, setup),
        open |-> [status |-> "none", proof |-> FALSE], verdict |-> "none"])
  /\ UNCHANGED instant

(* do_open of the client, by its own clock *)
ClientOpen ==
  /\ sessions # <<>> /\ Current.phase = "hello"
  /\ LET verified == verify_server_hello(Current.setup, Current.hello)
         open == add_client_proof(Current.setup, Current.hello, instant.start + instant.skew) IN
     IF verified # "ok" THEN Update([Current EXCEPT !.phase = "done", !.verdict = verified])
     ELSE IF open.status # "ok" THEN Update([Current EXCEPT !.phase = "done", !.verdict = open.status])
     ELSE Update([Current EXCEPT !.phase = "open", !.open = open])

ServerVerify ==
  /\ sessions # <<>> /\ Current.phase = "open"
  /\ Update([Current EXCEPT !.phase = "done",
       !.verdict = verify_client_proof(Current.setup, Current.hello.transcript, Current.open, instant.start + instant.delay)])

Next == (\E setup \in AuthSetups : ServerHello(setup)) \/ ClientOpen \/ ServerVerify

Spec == Init /\ [][Next]_authVars

-----------------------------------------------------------------------------
(* A client that the server authorizes is let in whenever its clock is at most five
   seconds ahead and its open arrives within twenty-nine seconds by the server's clock,
   at the end of a year, a leap day or a century too; and one that is not authorized,
   or whose proof has expired, is not. *)
HonestAccepted ==
  \A i \in DOMAIN sessions :
    LET s == sessions[i]
        late == instant.delay - instant.skew IN
    (s.phase = "done" /\ s.setup.expected \in {"none", ServerKey}) =>
      /\ (~s.setup.required \/ (s.setup.identity /\ AuthorizedKey(s.setup) = ClientKey /\ late \in -10..58)) => s.verdict = "ok"
      /\ (s.verdict = "ok" /\ s.setup.required) => (AuthorizedKey(s.setup) = ClientKey /\ late \in -11..60)

(* Two sessions whose settings differ in more than blanks around a name are proved by
   different transcripts, so a proof never stands for another session's settings. *)
TranscriptsDistinct ==
  \A i, j \in DOMAIN sessions :
    LET named(t) == <<trim_copy(t.transport), trim_copy(t.workspace), trim_copy(t.project), trim_copy(t.server)>>
        hashed(t) == hash_webtty_server_proof_transcript([t EXCEPT !.session = <<>>, !.nonce = <<>>]) IN
    hashed(sessions[i].hello.transcript) = hashed(sessions[j].hello.transcript)
      <=> /\ named(sessions[i].hello.transcript) = named(sessions[j].hello.transcript)
          /\ sessions[i].setup.required = sessions[j].setup.required
=============================================================================
