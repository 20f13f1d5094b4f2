------------------------------- MODULE Config -------------------------------
(***************************************************************************)
(* src/config.rs, src/auth.rs and src/tls.rs: what a configuration must be *)
(* to be loaded, and what the HTTP clients make of it.                     *)
(*                                                                         *)
(* A configuration has a field `named' (the instance has a name) and a     *)
(* function `parts' from the names of its parts to records:                *)
(*   kind     "unix", "prometheus" (collectors), "otlphttp" (a forwarder)  *)
(*            or "shipper" (a journald source and a Loki sink)             *)
(*   sound    its regexes compile, its sub-collectors are known, its url   *)
(*            or endpoint is not empty (of a shipper nothing is looked at) *)
(*   auth     the options of AuthConfig that are set                       *)
(*   tls      the options of TlsConfig that are set                        *)
(*   unset    the fields with a placeholder that cannot be resolved        *)
(*   buffer, request    buffer_max_metrics and request_max_metrics         *)
(*   initial, max       backoff_initial and backoff_max, as written        *)
(*   bytes              batch_max_bytes, as written                        *)
(***************************************************************************)
EXTENDS Naturals, FiniteSets

CONSTANT Width      \* of the integers that hold sizes and seconds: 2^64

ASSUME ConfigAssumption == Width \in Nat \ {0}

-----------------------------------------------------------------------------
(* Numbers with a unit *)

SecondsPer == [s |-> 1, m |-> 60, h |-> 3600]

\* parse_duration, of a number that fits: the product wraps (release build).
Duration(text) == (text.number * SecondsPer[text.unit]) % Width

BytesPer == [b |-> 1, kb |-> 1000, mb |-> 1000 * 1000, gb |-> 1000 * 1000 * 1000,
             kib |-> 1024, mib |-> 1024 * 1024, gib |-> 1024 * 1024 * 1024]

\* parse_byte_size refuses a product that does not fit.
Bytes(text) == text.number * BytesPer[text.unit]
BytesFit(text) == Bytes(text) < Width

-----------------------------------------------------------------------------
(* AuthConfig and TlsConfig *)

BasicOptions == {"username", "password", "password-file"}
BearerOptions == {"bearer-token", "bearer-token-file"}
AuthOptions == BasicOptions \cup BearerOptions \cup {"authorization"}
TlsOptions == {"client-cert-file", "client-key-file", "ca-cert-file"}

Methods(auth) ==
    {m \in {BasicOptions, BearerOptions, {"authorization"}} : m \cap auth # {}}

\* Mistake: a password without a username passes.
AuthValidWithoutUser(auth) ==
    /\ Cardinality(Methods(auth)) <= 1
    /\ ~ {"password", "password-file"} \subseteq auth
    /\ ~ BearerOptions \subseteq auth
    /\ "username" \in auth => {"password", "password-file"} \cap auth # {}

\* AuthConfig::validate.
AuthValid(auth) ==
    /\ Cardinality(Methods(auth)) <= 1
    /\ ~ {"password", "password-file"} \subseteq auth
    /\ ~ BearerOptions \subseteq auth
    /\ "username" \in auth => {"password", "password-file"} \cap auth # {}
    /\ BasicOptions \cap auth # {} => "username" \in auth

\* TlsConfig::validate.
TlsValid(tls) == "client-key-file" \in tls => "client-cert-file" \in tls

\* resolve_header panics.
Unreachable == {"unreachable"}

\* The options that resolve_header builds the Authorization header of, none for
\* no header.  Of two options for the same thing the first wins.
HeaderOptions(auth) ==
    LET first(a, b) == IF a \in auth THEN {a} ELSE {b} \cap auth
        password == first("password", "password-file")
    IN IF "authorization" \in auth THEN {"authorization"}
       ELSE IF BearerOptions \cap auth # {} THEN first("bearer-token", "bearer-token-file")
       ELSE IF "username" \notin auth THEN {}
       ELSE IF password = {} THEN Unreachable
       ELSE {"username"} \cup password

\* tls::configure: the key is read along with the certificate.
TlsFiles(tls) == IF "client-cert-file" \in tls THEN tls ELSE tls \ {"client-key-file"}

\* What an HTTP client reads from disk when it is built.
FilesRead(part) == (HeaderOptions(part.auth) \cap {"password-file", "bearer-token-file"})
                   \cup TlsFiles(part.tls)

-----------------------------------------------------------------------------
(* Config::load *)

OfKind(config, kinds) == {p \in DOMAIN config.parts : config.parts[p].kind \in kinds}

Collectors(config) == OfKind(config, {"unix", "prometheus"})
Forwarders(config) == OfKind(config, {"otlphttp"})
Shippers(config) == OfKind(config, {"shipper"})

BackoffValid(part) == Duration(part.initial) <= Duration(part.max)

HttpValid(part) == AuthValid(part.auth) /\ TlsValid(part.tls)

\* validate_unix_collector, validate_prometheus_collector,
\* validate_otlphttp_forwarder, and the shippers' part of Config::validate.
PartValid(part) ==
    /\ part.kind # "shipper" => part.sound
    /\ part.kind \in {"prometheus", "otlphttp", "shipper"} => HttpValid(part)
    /\ part.kind = "otlphttp" => part.buffer # 0 /\ part.request # 0
    /\ part.kind \in {"otlphttp", "shipper"} => BackoffValid(part)
    /\ part.kind = "shipper" => BytesFit(part.bytes)

\* Config::validate, all that `ferrometer validate' looks at.
Valid(config) ==
    /\ config.named
    /\ Collectors(config) # {}
    /\ Forwarders(config) # {}
    /\ \A p \in DOMAIN config.parts : PartValid(config.parts[p])

\* The fields that resolve_placeholders goes through.
ExpandedFields(kind) ==
    CASE kind = "unix" -> {}
      [] kind = "prometheus" -> AuthOptions \cup TlsOptions
      [] kind = "otlphttp" -> AuthOptions \cup TlsOptions \cup {"resource-attributes"}
      [] kind = "shipper" -> AuthOptions \cup TlsOptions \cup {"cursor-file"}

Resolvable(config) ==
    \A p \in DOMAIN config.parts :
        config.parts[p].unset \cap ExpandedFields(config.parts[p].kind) = {}

Loads(config) == Valid(config) /\ Resolvable(config)
=============================================================================
