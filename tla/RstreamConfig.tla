---------------------------- MODULE RstreamConfig ----------------------------
(***************************************************************************)
(* Where the library takes its engine address and its credentials from     *)
(* (lib/rstream/io-rstrm/io-rstrm.cpp): the process environment, the       *)
(* configuration file and the address itself.  The file is read anew by    *)
(* each resolution and may be edited between two of them.  A text is "" or *)
(* a name; an optional node of the file is a record with a field present.  *)
(***************************************************************************)
EXTENDS Naturals, Sequences, SequencesExt

CONSTANTS
  Files,       \* the configuration files, as YAML documents
  EditedFiles, \* those that an edit leaves
  ProcessEnvs, \* the environments of the process
  CallConfigs, \* what the callers give: [noToken, token, tokenFromUri, byUrl, server, file]
  WithPkcs11,  \* RSTREAM_WITH_PKCS11
  MaxEdits     \* bound on the edits of the file

VARIABLES
  file,    \* the file on disk, its document and how many times it was edited
  process, \* the process environment and the caller's config, fixed
  holder,  \* the client, the acceptor or the socket, and what it has read so far
  sent     \* what was presented to an engine

configVars == <<file, process, holder, sent>>

Error == [ok |-> FALSE]
Result(value) == [ok |-> TRUE, value |-> value]
None == [present |-> FALSE]

-----------------------------------------------------------------------------
(* Parsing.  A node that is not a map counts as absent. *)

parse_auth_mtls(node) ==
  IF ~node.present \/ (node.certificate = "" /\ node.certificateFile = "" /\ node.key = "" /\ node.keyFile = ""
                       /\ ~node.storage.present)
  THEN None ELSE node

parse_auth(node) == [token |-> node.token, mtls |-> parse_auth_mtls(node.mtls)]

(* a transport section that is absent reads as one with no mode, tls nor proxy *)
parse_transport(node) ==
  IF node.present THEN node
  ELSE [present |-> FALSE, modeSet |-> FALSE, mode |-> "", quic |-> "unset", tls |-> None, proxy |-> FALSE]

ParseSection(node) ==
  [name |-> node.name, apiUrl |-> node.apiUrl, engine |-> node.engine,
   auth |-> parse_auth(node), transport |-> parse_transport(node.transport)]

parse_config_yaml(doc) ==
  [default |-> doc.default,
   environments |-> [i \in DOMAIN doc.environments |-> ParseSection(doc.environments[i])],
   contexts |-> [i \in DOMAIN doc.contexts |-> ParseSection(doc.contexts[i])]]

(* load_rstream_config: the file that the caller names or the default one; a file that
   cannot be opened is an empty configuration *)
load_rstream_config(named) ==
  LET doc == IF named.present THEN named.doc ELSE file.doc IN
  CASE doc.kind = "absent"    -> Result([default |-> "", environments |-> <<>>, contexts |-> <<>>])
    [] doc.kind = "malformed" -> Error
    [] OTHER                  -> Result(parse_config_yaml(doc))

-----------------------------------------------------------------------------
(* Selection *)

transport_mode_from_config(t) ==
  IF t.modeSet THEN (IF t.mode = "" THEN Error ELSE Result(t.mode))
  ELSE IF t.quic = "invalid" THEN Error
  ELSE Result(CASE t.quic = "yes" -> "quic" [] t.quic = "no" -> "tls" [] OTHER -> "")

(* the sections are those of the context and of the environment, in this order *)
resolve_tunnel_transport_mode(sections) ==
  LET env == process.env
      set == IF env.transport # "" THEN env.transport
             ELSE CASE env.legacy = "" -> "" [] env.legacy = "1" -> "quic" [] OTHER -> "tls"
      Chosen(mode, s) ==
        IF ~mode.ok \/ mode.value # "" THEN mode ELSE transport_mode_from_config(s.transport)
      mode == FoldLeft(Chosen, Result(set), sections) IN
  IF ~mode.ok \/ mode.value \notin {"", "auto", "tls"} THEN Error ELSE Result("tls")

(* the contexts that carry the name, narrowed by an explicit API URL: those of that
   URL or, failing these, the ones linked to none *)
Candidates(cfg, url, name) ==
  LET matches == {i \in DOMAIN cfg.contexts : cfg.contexts[i].name = name}
      exact   == {i \in matches : cfg.contexts[i].apiUrl = url} IN
  IF url = "" THEN matches
  ELSE IF exact # {} THEN exact
  ELSE {i \in matches : cfg.contexts[i].apiUrl = ""}

(* the environments of an API URL; a context linked to none has none *)
LinkedEnvironment(cfg, url) == SelectSeq(cfg.environments, LAMBDA e : url # "" /\ e.apiUrl = url)

(* the selected sections, the context before the environment; "default" is https://rstream.io *)
resolve_config_selection(cfg) ==
  LET url        == process.env.apiUrl
      name       == IF process.env.context # "" THEN process.env.context ELSE cfg.default
      candidates == Candidates(cfg, url, name)
      context    == IF name = "" THEN <<>> ELSE <<cfg.contexts[CHOOSE i \in candidates : TRUE]>>
      linked     == IF name = "" THEN (IF url = "" THEN "default" ELSE url) ELSE context[1].apiUrl
      envs       == LinkedEnvironment(cfg, linked)
      sections   == context \o (IF envs = <<>> THEN <<>> ELSE <<envs[1]>>) IN
  IF name # "" /\ (\A i \in candidates : \E j \in candidates : i # j) THEN Error
  ELSE IF ~resolve_tunnel_transport_mode(sections).ok \/ \E i \in DOMAIN sections : sections[i].transport.proxy THEN Error
  ELSE Result([sections |-> sections, context |-> context])

(* resolve_token_from_config *)
resolve_token_from_config(cfg) ==
  LET resolved == resolve_config_selection(cfg)
      Token(found, s) ==
        IF ~found.ok \/ found.value # "" \/ ~s.auth.token.present THEN found
        ELSE IF s.auth.token.kind \notin {"", "inline"} THEN Error
        ELSE Result(s.auth.token.value) IN
  IF ~resolved.ok THEN Error ELSE FoldLeft(Token, Result(""), resolved.value.sections)

resolve_engine_from_config(cfg) ==
  LET resolved == resolve_config_selection(cfg) IN
  IF ~resolved.ok THEN Error
  ELSE Result(IF resolved.value.context = <<>> THEN None ELSE resolved.value.context[1].engine)

FirstPresent(nodes) ==
  LET some == SelectSeq(nodes, LAMBDA n : n.present) IN IF some = <<>> THEN None ELSE some[1]

resolve_mtls_from_config(cfg) ==
  LET resolved == resolve_config_selection(cfg) IN
  IF ~resolved.ok THEN Error
  ELSE Result(FirstPresent([i \in DOMAIN resolved.value.sections |-> resolved.value.sections[i].auth.mtls]))

resolve_tls_from_config(cfg) ==
  LET resolved == resolve_config_selection(cfg) IN
  IF ~resolved.ok THEN Error
  ELSE Result(FirstPresent([i \in DOMAIN resolved.value.sections |-> resolved.value.sections[i].transport.tls]))

resolve_mtls_from_environment ==
  LET env == process.env IN
  IF env.certFile = "" /\ env.keyFile = "" THEN None
  ELSE [present |-> TRUE, certificate |-> "", certificateFile |-> env.certFile, key |-> "",
        keyFile |-> env.keyFile, storage |-> None]

-----------------------------------------------------------------------------
(* The engine address *)

(* The parameters of an address about certificates and keys, in their order.  An
   address may carry its own; append_query_param adds to them. *)
append_query_param(address, key, value) == [address EXCEPT !.params = Append(@, <<key, value>>)]

Named(address, keys) == \E i \in DOMAIN address.params : address.params[i][1] \in keys

(* count_non_empty *)
count_non_empty(first, second) == (IF first = "" THEN 0 ELSE 1) + (IF second = "" THEN 0 ELSE 1)

(* a PKCS#11 object is named by a label or by an id, which must be hexadecimal *)
pkcs11_uri_for_object(label, id) ==
  IF label # "" THEN Result(label) ELSE IF id = "nothex" THEN Error ELSE Result(id)

append_storage_params(address, s) ==
  LET pem  == count_non_empty(s.certificate, s.certificateFile)
      key  == pkcs11_uri_for_object(s.keyLabel, s.keyIdHex)
      cert == IF pem > 0 THEN Result(s.certificate)
              ELSE pkcs11_uri_for_object(s.certificateLabel, s.certificateIdHex)
      held == count_non_empty(s.certificateLabel, s.certificateIdHex) IN
  IF \/ s.kind # "pkcs11" \/ ~WithPkcs11
     \/ s.provider # "" \/ s.module = "" \/ s.pinEnv = ""
     \/ s.slot \/ s.maxSessions # 0 \/ s.certificateSHA256 # ""
     \/ count_non_empty(s.tokenLabel, s.tokenSerial) # 1
     \/ count_non_empty(s.keyLabel, s.keyIdHex) # 1
     \/ pem + held # 1
     \/ ~key.ok \/ ~cert.ok
  THEN Error
  ELSE LET keyed == append_query_param(address, "ssl.key", key.value) IN
       Result(IF s.certificateFile # "" THEN append_query_param(keyed, "ssl.cert_file", s.certificateFile)
              ELSE append_query_param(keyed, "ssl.cert", cert.value))

append_mtls_auth_params(address, m) ==
  LET inlineCert == m.certificate # ""
      fileCert   == m.certificateFile # ""
      inlineKey  == m.key # ""
      fileKey    == m.keyFile # "" IN
  IF ~m.present THEN Result(address)
  ELSE IF m.storage.present
    THEN IF inlineCert \/ fileCert \/ inlineKey \/ fileKey THEN Error ELSE append_storage_params(address, m.storage)
  ELSE IF inlineCert = fileCert \/ inlineKey = fileKey \/ inlineCert # inlineKey THEN Error
  ELSE Result(IF inlineCert
              THEN append_query_param(append_query_param(address, "ssl.cert", m.certificate), "ssl.key", m.key)
              ELSE append_query_param(append_query_param(address, "ssl.cert_file", m.certificateFile), "ssl.key_file", m.keyFile))

append_engine_tls_params(address, tls) ==
  IF tls.present THEN [address EXCEPT !.verified = ~tls.skipVerify] ELSE address

Address(engine, ssl, from) ==
  [host |-> engine.host, ssl |-> ssl, params |-> engine.params, own |-> engine.params # <<>>, verified |-> TRUE,
   from |-> from, edits |-> file.edits]

(* an engine without a scheme is reached over TLS; one with a scheme as it says *)
EngineAddress(engine, from) == Address(engine, engine.ssl \/ ~engine.scheme, from)

get_rstream_engine_address(named) ==
  LET env  == process.env
      cfg  == load_rstream_config(named)
      mtls == resolve_mtls_from_environment IN
  IF ~resolve_tunnel_transport_mode(<<>>).ok THEN Error
  ELSE IF env.address.present THEN append_mtls_auth_params(Address(env.address, env.address.ssl, "environment"), mtls)
  ELSE IF env.engine.present THEN append_mtls_auth_params(EngineAddress(env.engine, "environment"), mtls)
  ELSE IF ~cfg.ok THEN Error
  ELSE LET engine   == resolve_engine_from_config(cfg.value)
           resolved == IF mtls.present THEN Result(mtls) ELSE resolve_mtls_from_config(cfg.value)
           tls      == resolve_tls_from_config(cfg.value) IN
       IF ~engine.ok \/ ~resolved.ok \/ ~tls.ok THEN Error
       ELSE IF ~engine.value.present THEN Error
       ELSE append_mtls_auth_params(append_engine_tls_params(EngineAddress(engine.value, IF named.present THEN "named" ELSE "default"), tls.value),
              resolved.value)

-----------------------------------------------------------------------------
(* The token *)

(* Mutant: the token of the file is offered beside a certificate. *)
MutGetToken(certified) ==
  LET cfg == load_rstream_config(process.config.file) IN
  IF process.config.noToken THEN Result("")
  ELSE IF process.config.token # "" THEN (IF certified THEN Error ELSE Result(process.config.token))
  ELSE IF process.env.token # "" THEN (IF certified THEN Error ELSE Result(process.env.token))
  ELSE IF ~cfg.ok THEN Error ELSE resolve_token_from_config(cfg.value)

get_rstream_token(certified) ==
  LET cfg == load_rstream_config(process.config.file) IN
  IF process.config.noToken THEN Result("")
  ELSE IF process.config.token # "" THEN (IF certified THEN Error ELSE Result(process.config.token))
  ELSE IF process.env.token # "" THEN (IF certified THEN Error ELSE Result(process.env.token))
  ELSE IF certified THEN Result("")
  ELSE IF ~cfg.ok THEN Error ELSE resolve_token_from_config(cfg.value)

(* has_client_certificate_config *)
Certified(address) == Named(address, {"ssl.cert", "ssl.cert_file"})

(* the TLS connection takes a certificate and a key, each inline or from a file *)
Connects(address) ==
  address.ssl => \A forms \in {{"ssl.cert", "ssl.cert_file"}, {"ssl.key", "ssl.key_file"}} :
                   \E form \in forms : ~Named(address, {form})

(* a token is not sent over an insecure connection; the message is sent otherwise *)
Presented(address, token, edits) ==
  IF ~Connects(address) \/ ~token.ok \/ (token.value # "" /\ ~address.ssl) THEN {}
  ELSE {[address |-> address, token |-> token.value, edits |-> edits]}

(* make_endpoint, from a URL or from its arguments: the server that is named there or,
   failing that, the configured engine.  A URL does not hand on the file that the
   caller names, and a server named by a URL is refused unless the URL says which token
   it is given (socket::impl::async_connect and acceptor::impl::async_accept); an
   engine passed as an argument is taken as it is. *)
Endpoint ==
  LET config == process.config IN
  IF ~config.server.present THEN get_rstream_engine_address(IF config.byUrl THEN None ELSE config.file)
  ELSE IF config.byUrl /\ ~config.noToken /\ ~config.tokenFromUri THEN Error
  ELSE Result(Address(config.server, config.server.ssl, IF config.byUrl THEN "uri" ELSE "argument"))

-----------------------------------------------------------------------------
Idle == [kind |-> "none", pc |-> "idle", address |-> Error, token |-> Error, mtlsToken |-> Error, edits |-> 0]

Init ==
  /\ file \in [doc : Files, edits : {0}]
  /\ process \in [env : ProcessEnvs, config : CallConfigs]
  /\ holder = Idle
  /\ sent = {}

(* the file is edited, by the user or by another program *)
Edit ==
  /\ file.edits < MaxEdits
  /\ \E doc \in EditedFiles : file' = [doc |-> doc, edits |-> file.edits + 1]
  /\ UNCHANGED <<process, holder, sent>>

(* client::impl::impl takes its address, then its two tokens *)
ClientAddress ==
  /\ holder.pc = "idle"
  /\ holder' = [Idle EXCEPT !.kind = "client", !.pc = "token", !.address = get_rstream_engine_address(process.config.file)]
  /\ UNCHANGED <<file, process, sent>>

ClientToken ==
  /\ holder.pc = "token"
  /\ holder' = [holder EXCEPT !.pc = "mtls", !.token = get_rstream_token(FALSE), !.edits = file.edits]
  /\ UNCHANGED <<file, process, sent>>

ClientMtlsToken ==
  /\ holder.pc = "mtls"
  /\ holder' = [holder EXCEPT !.pc = "ready", !.mtlsToken = get_rstream_token(TRUE)]
  /\ UNCHANGED <<file, process, sent>>

effective_client_details(h) == IF Certified(h.address.value) THEN h.mtlsToken ELSE h.token

(* do_open, towards the client's own address or the acceptor's *)
ClientOpen ==
  /\ holder.pc = "ready"
  /\ holder' = [holder EXCEPT !.pc = IF holder.address.ok THEN "open" ELSE "refused"]
  /\ sent' = sent \union (IF ~holder.address.ok THEN {}
                         ELSE Presented(holder.address.value, effective_client_details(holder), holder.edits))
  /\ UNCHANGED <<file, process>>

(* the endpoint of a socket, or of an acceptor, is made before it is asked to connect;
   an acceptor then makes a client *)
MakeEndpoint ==
  /\ holder.pc = "idle"
  /\ \E kind \in {"socket", "acceptor"} :
       holder' = [Idle EXCEPT !.kind = kind, !.address = Endpoint,
                   !.pc = CASE ~Endpoint.ok -> "refused" [] kind = "socket" -> "handshake" [] OTHER -> "token"]
  /\ UNCHANGED <<file, process, sent>>

(* get_client_details(config, address) *)
Details(address) ==
  LET token == get_rstream_token(Certified(address)) IN
  IF token.ok /\ token.value # "" /\ Certified(address) THEN Error ELSE token

(* do_write_request, for a socket and for a stream that a client accepts without a secret *)
Request ==
  /\ holder.pc \in {"handshake", "open"}
  /\ holder' = [holder EXCEPT !.pc = IF holder.kind = "socket" THEN "done" ELSE "open"]
  /\ sent' = sent \union Presented(holder.address.value, Details(holder.address.value), file.edits)
  /\ UNCHANGED <<file, process>>

Next ==
  \/ Edit \/ ClientAddress \/ ClientToken \/ ClientMtlsToken \/ ClientOpen
  \/ MakeEndpoint \/ Request

Spec == Init /\ [][Next]_configVars

-----------------------------------------------------------------------------
(* What is presented to an engine is a token or a client certificate, never
   both, whatever was edited between the resolution of the address and that of
   the token; a certificate that the configuration adds to an address comes with
   the key of its own section; and a token travels over TLS only. *)
OneCredential ==
  \A s \in sent :
    /\ s.token = "" \/ (~Certified(s.address) /\ s.address.ssl)
    /\ s.address.own \/ Certified(s.address) = Named(s.address, {"ssl.key", "ssl.key_file"})

(* the file was the same when the address and the token were taken from it *)
SameFile(s) ==
  \/ s.address.from = "named"
  \/ s.address.from = "default" /\ ~process.config.file.present /\ s.address.edits = s.edits /\ s.edits = file.edits

(* When the engine and the token come from the same file, the token of a section is
   sent to the engine that the file configures for it: that of the context which
   holds it, or of a context linked to the environment which holds it.  The server
   that a URL names is given the token that the URL names or none.  Nothing is
   promised of an engine that the environment or the caller names, nor of the engine
   of the default file when the caller names another file: they are given the token
   that the file selects. *)
TokenStaysHome ==
  \A s \in sent :
    LET doc == IF process.config.file.present THEN process.config.file.doc ELSE file.doc IN
    /\ s.address.from = "uri" => s.token \in {"", process.config.token}
    /\ (s.token \notin {"", process.env.token, process.config.token} /\ SameFile(s)) =>
         \E i \in DOMAIN doc.contexts :
           LET c == doc.contexts[i] IN
           /\ c.engine.present /\ c.engine.host = s.address.host
           /\ \/ c.token.present /\ c.token.value = s.token
              \/ \E j \in DOMAIN doc.environments :
                   LET e == doc.environments[j] IN
                   e.apiUrl = c.apiUrl /\ e.token.present /\ e.token.value = s.token
=============================================================================
