-------------------------- MODULE TunnelProperties --------------------------
(***************************************************************************)
(* The properties of a tunnel on their way to the engine and back          *)
(* (lib/rstream/io-rstrm): read from the parameters of a URL               *)
(* (parse_settings_acceptor of io-rstrm.cpp), completed and refused by the *)
(* client (client.cpp), written as a protobuf message and read from the    *)
(* answer (detail/convert.cpp), and turned into the addresses the programs *)
(* show (format_forwarding_address, format_forwarded_address).             *)
(*                                                                         *)
(* A tunnel_properties is a function whose domain is the set of the        *)
(* members that are set.  A text is the sequence of its pieces: "a,b" and  *)
(* "a=b" are <<"a", "b">>, the empty text is << >>.                        *)
(***************************************************************************)
EXTENDS Integers, Sequences, SequencesExt, FiniteSets, TLC

CONSTANTS
  Params,      \* the parameters of the URLs: [group, key, has_value, value]
  MaxParams,   \* bound on the parameters of a URL
  Extras,      \* the members a program may set itself, as functions
  Answers,     \* the members the engine may add to what was asked for
  Upstreams    \* the forwarded addresses: [scheme, host, port], "" for none

VARIABLES
  url,       \* the parameters of the URL, in order
  props,     \* settings_acceptor: [step, error, config, properties]
  wire,      \* the OpenTunnelReq, then the OpenTunnelRsp
  tunnel     \* tunnel::properties() of the tunnel created

tunnelVars == <<url, props, wire, tunnel>>

StringFields ==
  {"type", "protocol", "host", "hostname", "tls_min_version", "http_version", "tls_mode"}

BooleanFields ==
  {"publish", "mtls_auth", "http_use_tls", "upstream_tls", "token_auth", "rstream_auth",
   "challenge_mode", "datagram_guaranteed_delivery", "allow_cross_region_routing"}

ListFields == {"geoip", "trusted_ips", "tls_ciphers", "tls_alpns"}

CorsLists == {"allowed_origins", "allowed_methods", "allowed_headers", "exposed_headers"}

NoLists == [f \in ListFields |-> << >>]

(* tunnel_properties{} *)
NoProperties == NoLists @@ [labels |-> << >>]

NoCors ==
  [l \in CorsLists |-> << >>] @@ [allow_credentials |-> FALSE, max_age |-> 0]

----------------------------------------------------------------------------
(* The URL *)

(* url_params(url).find: the first parameter of that name *)
Found(key) == {i \in 1..Len(url) : url[i].key = key /\ \A j \in 1..(i - 1) : url[j].key # key}

(* parse_url_param_value, the three of them: what is wrong with a value *)
BooleanValid(p) == p.has_value => p.value \in {<<"true">>, <<"false">>}

TextValid(p) == p.has_value

BooleanOf(p) == p.has_value => p.value = <<"true">>

(* from_chars of a whole text: -1 for what is no number *)
NumberOf(text) ==
  CASE text = <<"0">>     -> 0
    [] text = <<"60">>    -> 60
    [] text = <<"86400">> -> 86400
    [] text = <<"86401">> -> 86401
    [] OTHER              -> -1

(* One parameter of rstrm.http_cors: the accumulator is the policy so far, *)
(* the first error, and whether the function has already returned.         *)
ReadCors(acc, p) ==
  LET at == IF acc.cors = << >> THEN NoCors ELSE acc.cors[1]
      next(cors, error, returned) == [cors |-> <<cors>>, error |-> error, returned |-> returned]
  IN IF p.group # "http_cors" \/ acc.error # "" THEN acc
     ELSE IF p.key = "allow_credentials"
       THEN IF BooleanValid(p)
              THEN next([at EXCEPT !.allow_credentials = BooleanOf(p)], "", FALSE)
              ELSE next(at, "invalid_argument", FALSE)
     ELSE IF ~TextValid(p) THEN next(at, "invalid_argument", TRUE)
     ELSE IF p.key \in CorsLists THEN next([at EXCEPT ![p.key] = p.value], "", FALSE)
     ELSE IF p.key = "max_age" /\ NumberOf(p.value) \in 0..86400
       THEN next([at EXCEPT !.max_age = NumberOf(p.value)], "", FALSE)
     ELSE next(at, "invalid_configuration", FALSE)

(* The loop over rstrm.labels: a label without '=' is ignored, the last    *)
(* one of a name wins.                                                     *)
ReadLabel(labels, p) ==
  IF p.key = "labels" /\ Len(p.value) = 2 THEN (p.value[1] :> p.value[2]) @@ labels ELSE labels

(* A policy needs origins, a tunnel that is not kept private, and http *)
CorsRefused(p) ==
  \/ p.http_cors.allowed_origins = << >>
  \/ "publish" \in DOMAIN p /\ ~p.publish
  \/ "protocol" \in DOMAIN p /\ p.protocol # <<"http">>

parse_tunnel_properties ==
  LET set(F) == {f \in F : Found(f) # {}}
      param(f) == url[CHOOSE i \in Found(f) : TRUE]
      malformed ==
        \/ \E f \in set(BooleanFields) : ~BooleanValid(param(f))
        \/ \E f \in set(StringFields \cup ListFields) : ~TextValid(param(f))
        \/ \E i \in 1..Len(url) : url[i].key = "labels" /\ ~TextValid(url[i])
      read == [f \in set(BooleanFields) |-> BooleanOf(param(f))]
                @@ [f \in set(StringFields \cup ListFields) |-> param(f).value]
                @@ [labels |-> FoldLeft(ReadLabel, << >>, url)] @@ NoProperties
      cors == FoldLeft(ReadCors, [cors |-> << >>, error |-> "", returned |-> FALSE], url)
      all  == IF cors.cors = << >> THEN read ELSE [http_cors |-> cors.cors[1]] @@ read
  IN IF malformed THEN [error |-> "invalid_argument", properties |-> NoProperties]
     ELSE [error |-> IF "http_cors" \in DOMAIN all /\ ~cors.returned /\ CorsRefused(all)
                       THEN "invalid_configuration" ELSE cors.error,
           properties |-> all]

(* parse_config: a token, or the wish to use none *)
parse_config ==
  LET no    == Found("no_token")
      given == Found("token")
      param(S) == url[CHOOSE i \in S : TRUE]
  IN IF no # {} /\ ~BooleanValid(param(no)) THEN [error |-> "invalid_argument", token |-> << >>]
     ELSE IF given = {} THEN [error |-> "", token |-> << >>]
     ELSE IF no # {} /\ BooleanOf(param(no)) THEN [error |-> "invalid_configuration", token |-> << >>]
     ELSE IF TextValid(param(given)) THEN [error |-> "", token |-> param(given).value]
     ELSE [error |-> "invalid_argument", token |-> << >>]

(* parse_settings_acceptor *)
ParseSettings ==
  /\ props.step = "url"
  /\ LET config == parse_config
         retry  == Found("retry")
         parsed == parse_tunnel_properties
         error  == IF config.error # "" THEN config.error
                   ELSE IF \E i \in retry : ~BooleanValid(url[i]) THEN "invalid_argument"
                   ELSE parsed.error
     IN \E extra \in Extras :
          props' = [step |-> IF error = "" THEN "settings" ELSE "refused", error |-> error,
                    config |-> config.token, properties |-> extra @@ parsed.properties]
  /\ UNCHANGED <<url, wire, tunnel>>

----------------------------------------------------------------------------
(* The client *)

Has(p, field) == field \in DOMAIN p

normalize_tunnel_properties(p) ==
  IF Has(p, "protocol") /\ p.protocol = <<"tcp">>
    THEN p @@ [type |-> <<"bytestream">>, publish |-> TRUE]
    ELSE p

(* The members that mean nothing on a published TCP port *)
NotForTcp ==
  {"hostname", "tls_mode", "tls_min_version", "mtls_auth", "http_version", "http_use_tls",
   "upstream_tls", "token_auth", "rstream_auth", "challenge_mode", "datagram_guaranteed_delivery"}

invalid_published_tcp_options(p) ==
  IF Has(p, "protocol") /\ p.protocol = <<"tcp">>
    THEN \/ Has(p, "publish") /\ ~p.publish
         \/ Has(p, "type") /\ p.type # <<"bytestream">>
         \/ Has(p, "port") /\ p.port \notin 1..65535
         \/ NotForTcp \cap DOMAIN p # {}
         \/ p.tls_alpns # << >> \/ p.tls_ciphers # << >>
    ELSE Has(p, "port")

(* The conversion to a message wraps every member that is set, so that one *)
(* that is set to an empty value differs from one that is not; the date is *)
(* cut to seconds.                                                         *)
Wrapped(v) == [value |-> v]

ToMessage(p) ==
  LET optional == DOMAIN p \ (ListFields \cup {"labels", "http_cors", "creation_date"})
  IN [f \in optional |-> Wrapped(p[f])]
       @@ [f \in DOMAIN p \cap {"creation_date"} |-> p[f].seconds]
       @@ [f \in DOMAIN p \cap {"http_cors"} |-> p[f]]
       @@ [f \in ListFields |-> p[f]]
       @@ [labels |-> p.labels]

(* The conversion from a message, over what dst already holds: a member the *)
(* message does not have keeps its value, but for the lists and the policy.  *)
FromMessage(dst, m) ==
  LET optional == DOMAIN m \ (ListFields \cup {"labels", "http_cors", "creation_date"})
      kept     == DOMAIN dst \ {"http_cors"}
  IN [f \in optional |-> m[f].value]
       @@ [f \in DOMAIN m \cap {"creation_date"} |-> [seconds |-> m[f], fraction |-> 0]]
       @@ [f \in DOMAIN m \cap {"http_cors"} |-> m[f]]
       @@ [f \in ListFields |-> m[f]]
       @@ [labels |-> m.labels @@ dst.labels]
       @@ [f \in kept |-> dst[f]]

(* async_create_tunnel, create_tunnel_internal and do_create_tunnel *)
CreateTunnel ==
  /\ props.step = "settings"
  /\ LET asked == normalize_tunnel_properties(props.properties)
     IN IF (Has(asked, "type") /\ asked.type # <<"bytestream">>)
             \/ invalid_published_tcp_options(asked)
          THEN /\ props' = [props EXCEPT !.step = "refused", !.error = "invalid_configuration"]
               /\ UNCHANGED wire
          ELSE /\ props' = [props EXCEPT !.step = "asked"]
               /\ wire' = [request |-> ToMessage(asked), answer |-> << >>]
  /\ UNCHANGED <<url, tunnel>>

(* The engine reads the request and answers with what it made of it *)
EngineAnswers ==
  /\ props.step = "asked"
  /\ wire.answer = << >>
  /\ \E more \in Answers :
       wire' = [wire EXCEPT !.answer = <<ToMessage(more @@ FromMessage(NoProperties, wire.request))>>]
  /\ UNCHANGED <<url, props, tunnel>>

(* on_read_incoming_message, kOpenTunnelRsp, into a fresh tunnel_properties *)
OnResponse ==
  /\ props.step = "asked"
  /\ wire.answer # << >>
  /\ LET got == FromMessage(NoProperties, wire.answer[1])
         error == IF ~Has(got, "id") THEN "protocol_error"
                  ELSE IF Has(got, "type") /\ got.type # <<"bytestream">> THEN "invalid_configuration"
                  ELSE ""
     IN IF error = ""
          THEN /\ props' = [props EXCEPT !.step = "created"]
               /\ tunnel' = got
          ELSE /\ props' = [props EXCEPT !.step = "refused", !.error = error]
               /\ UNCHANGED tunnel
  /\ UNCHANGED <<url, wire>>

Init ==
  /\ url \in UNION {[1..n -> Params] : n \in 0..MaxParams}
  /\ props = [step |-> "url", error |-> "", config |-> << >>, properties |-> NoProperties]
  /\ wire = [request |-> NoProperties, answer |-> << >>]
  /\ tunnel = NoProperties

Next == ParseSettings \/ CreateTunnel \/ EngineAnswers \/ OnResponse

Spec == Init /\ [][Next]_tunnelVars

----------------------------------------------------------------------------
(* The addresses *)

NoText == << >>

(* [scheme, name, port, note]: scheme://name:port (note), NoText for none *)
format_forwarding_address(p) ==
  LET proto  == IF Has(p, "protocol") THEN p.protocol ELSE <<"tls">>
      https  == proto \in {<<"http">>, <<"webtty">>}
      ported == Has(p, "hostname") /\ Has(p, "port") /\ ~(https /\ p.port = 443)
  IN IF Has(p, "hostname") \/ Has(p, "host")
       THEN {[scheme |-> IF https THEN <<"https">> ELSE NoText,
              name   |-> IF Has(p, "hostname") THEN p.hostname ELSE p.host,
              port   |-> IF ported THEN <<p.port>> ELSE << >>,
              note   |-> IF proto = <<"http">> THEN NoText ELSE proto]}
     ELSE {[scheme |-> <<"rstrm">>, name |-> p[f], port |-> << >>, note |-> <<"unpublished">>] :
             f \in IF Has(p, "name") THEN {"name"} ELSE DOMAIN p \cap {"id"}}

(* An address with a scheme is shown as it is; a default port is left out. *)
format_forwarded_address(a, p) ==
  LET is(v)  == Has(p, "protocol") /\ p.protocol = v
      tls    == IF Has(p, "upstream_tls") THEN p.upstream_tls ELSE Has(p, "http_use_tls") /\ p.http_use_tls
      http   == is(<<"http">>)
      scheme == IF ~http THEN NoText ELSE IF tls THEN <<"https">> ELSE <<"http">>
      hidden == <<scheme, a.port>> \in {<< <<"http">>, "80">>, << <<"https">>, "443">>}
      note   == IF http THEN IF tls \/ ~Has(p, "http_version") THEN NoText ELSE p.http_version
                ELSE IF Has(p, "tls_mode") /\ p.tls_mode = <<"passthrough">> THEN <<"tls">>
                ELSE IF Has(p, "upstream_tls") /\ p.upstream_tls
                  THEN IF is(<<"dtls">>) \/ is(<<"quic">>) THEN p.protocol ELSE <<"tls">>
                ELSE IF is(<<"dtls">>) THEN <<"udp">>
                ELSE IF is(<<"quic">>) \/ is(<<"webtty">>) THEN p.protocol
                ELSE <<"tcp">>
  IN IF a.host = "" \/ (a.scheme = "" /\ a.port = "") THEN {}
     ELSE IF a.scheme # "" THEN {[scheme |-> <<a.scheme>>, name |-> a.host, port |-> <<a.port>>, note |-> <<"unparsed">>]}
     ELSE {[scheme |-> scheme, name |-> a.host, port |-> IF hidden THEN << >> ELSE <<a.port>>, note |-> note]}

----------------------------------------------------------------------------
(* What is promised *)

(* What the engine reads from a request is what the program asked for: a   *)
(* member set to an empty value or to false is not taken for one that is   *)
(* not set, and nothing is lost but the fraction of the creation date.     *)
ArrivesWhole ==
  props.step = "asked" =>
    LET asked == normalize_tunnel_properties(props.properties)
        read  == FromMessage(NoProperties, wire.request)
    IN /\ DOMAIN read = DOMAIN asked
       /\ \A f \in DOMAIN asked \ {"creation_date"} : read[f] = asked[f]

(* No order and no repetition of the parameters of a URL gets a request    *)
(* past the checks that the engine would have to refuse: a CORS policy     *)
(* without origins, on a private tunnel or on another protocol than http,  *)
(* a port on anything but a published TCP tunnel, a TCP tunnel that is     *)
(* private or of datagrams, or a token next to the wish to send none.      *)
RequestCoherent ==
  props.step \in {"asked", "created"} =>
    LET r == FromMessage(NoProperties, wire.request)
        tcp == Has(r, "protocol") /\ r.protocol = <<"tcp">>
    IN /\ Has(r, "http_cors") =>
            /\ r.http_cors.allowed_origins # << >>
            /\ r.http_cors.max_age \in 0..86400
            /\ Has(r, "protocol") => r.protocol = <<"http">>
            /\ Has(r, "publish") => r.publish
       /\ Has(r, "port") => tcp
       /\ tcp => r.publish /\ r.type = <<"bytestream">>
       /\ props.config # << >> => \A i \in Found("no_token") : ~BooleanOf(url[i])

(* Every tunnel that was created has an address to show, which names it as *)
(* unpublished exactly if the engine gave it neither host nor hostname;    *)
(* the address shown and the forwarded address determine the port.         *)
AddressShown ==
  props.step = "created" =>
    /\ \E a \in format_forwarding_address(tunnel) :
         /\ a.note = <<"unpublished">> <=> {"host", "hostname"} \cap DOMAIN tunnel = {}
         /\ Has(tunnel, "hostname") /\ Has(tunnel, "port") =>
              tunnel.port = IF a.port # << >> THEN a.port[1] ELSE 443
         /\ a.port = << >> /\ Has(tunnel, "port") /\ Has(tunnel, "hostname") => a.scheme = <<"https">>
    /\ \A u \in Upstreams : \A a \in format_forwarded_address(u, tunnel) :
         u.port = IF a.port # << >> THEN a.port[1] ELSE IF a.scheme = <<"https">> THEN "443" ELSE "80"

PropertiesSound == ArrivesWhole /\ RequestCoherent /\ AddressShown

=============================================================================
