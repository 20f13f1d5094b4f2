------------------------------- MODULE MCAgent -------------------------------
(* Agent with two collectors, a forwarder and two shippers.  One part at a    *)
(* time varies: all sets of auth options, all sets of TLS options, limits of  *)
(* zero, and durations and sizes about the width of integers.                 *)
EXTENDS Agent, TLC

Second == [number |-> 1, unit |-> "s"]
\* The last wraps, to 2608 seconds.
Durations == {Second, [number |-> 2, unit |-> "h"], [number |-> 3, unit |-> "h"]}

Plain(kind) == [kind |-> kind, sound |-> TRUE, auth |-> {}, tls |-> {}, unset |-> {},
                buffer |-> 1, request |-> 1, initial |-> Second, max |-> Second,
                bytes |-> [number |-> 1, unit |-> "kb"]]

PlainConfig ==
    [named |-> TRUE,
     parts |-> ("system" :> Plain("unix")) @@ ("scraper" :> Plain("prometheus"))
               @@ ("otlp" :> Plain("otlphttp"))
               @@ ("journal" :> Plain("shipper")) @@ ("runtime" :> Plain("shipper"))]

HttpVariants(part) ==
    {[part EXCEPT !.auth = a] : a \in SUBSET AuthOptions}
    \cup {[part EXCEPT !.tls = t] : t \in SUBSET TlsOptions}
    \cup {[part EXCEPT !.unset = {field}] : field \in {"password", "cursor-file"}}
    \cup {[part EXCEPT !.initial = i, !.max = m] : i, m \in Durations}

Variants(part) ==
    {[part EXCEPT !.sound = FALSE]}
    \cup (IF part.kind = "unix" THEN {} ELSE HttpVariants(part))
    \cup (IF part.kind = "otlphttp" THEN {[part EXCEPT !.buffer = 0], [part EXCEPT !.request = 0]}
                                    ELSE {})
    \cup (IF part.kind = "shipper" THEN {[part EXCEPT !.bytes.unit = "mb"]} ELSE {})

SomeConfigs ==
    {PlainConfig, [PlainConfig EXCEPT !.named = FALSE],
     [PlainConfig EXCEPT !.parts = "otlp" :> Plain("otlphttp")],
     [PlainConfig EXCEPT !.parts = "system" :> Plain("unix")]}
    \cup UNION {{[PlainConfig EXCEPT !.parts[p] = v] : v \in Variants(PlainConfig.parts[p])} :
                p \in {"system", "scraper", "otlp", "journal"}}
=============================================================================
