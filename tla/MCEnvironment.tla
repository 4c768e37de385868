--------------------------- MODULE MCEnvironment ---------------------------
(* Environment for TLC. *)
EXTENDS Environment

a == <<"a">>
b == <<"b">>

MCContents == {a :> <<"b">>, (a :> <<"a">>) @@ (<<"1">> :> <<"$", "(", "a", ")">>)}

Literal(name, value) == [name |-> name, from |-> "value", value |-> value]
KeyRef(name, kind, key, optional) ==
    [name |-> name, from |-> kind, object |-> "o", key |-> key, optional |-> optional]
Field(name, field) == [name |-> name, from |-> "field", field |-> field]
Resource(name) == [name |-> name, from |-> "resource", key |-> <<>>]
From(kind, prefix, optional) ==
    [kind |-> kind, name |-> "o", prefix |-> prefix, optional |-> optional]

Pod(ns, links, initContainers, containers) ==
    [ns |-> ns, enableServiceLinks |-> links, initContainers |-> initContainers,
     containers |-> containers, fields |-> "name" :> <<"b">>]

Service(ns, name, ip, value) == [ns |-> ns, name |-> name, ip |-> ip, value |-> value]
Services == {Service("default", <<"k">>, TRUE, <<"1">>), Service("other", <<"k">>, TRUE, <<"b">>),
             Service("other", a, TRUE, <<"1">>), Service("default", b, FALSE, <<"1">>)}

\* Every text of at most MaxText bytes, behind a variable it may name.
MaxText == 5
Texts == UNION {[1..n -> {"$", "(", ")", "a", HighByte}] : n \in 0..MaxText}
TextCases ==
    {[pod |-> Pod("default", TRUE, <<>>,
                  <<[envFrom |-> <<>>, env |-> <<Literal(a, <<"$", "b">>), Literal(b, t)>>]>>),
      configMaps |-> "o" :> None, secrets |-> "o" :> None, services |-> {}, changes |-> 0] :
     t \in Texts}

\* References and their order, with services and changing caches.
MCEntries ==
    {Literal(a, <<"$", "(", "b", ")", "$", "(", "k", ")">>), Literal(b, <<"$", "(", "a", ")">>)}
    \cup {KeyRef(a, kind, <<"1">>, o) : kind \in {"configMap", "secret"}, o \in BOOLEAN}
    \cup {Field(b, "name"), Field(b, "unknown"), Resource(a)}
MCFroms == {From(kind, p, o) : kind \in {"configMap", "secret"}, p \in {<<>>, b}, o \in BOOLEAN}
EntryCases ==
    {[pod |-> Pod("other", TRUE, <<[envFrom |-> <<f>>, env |-> <<>>]>>,
                  <<[envFrom |-> <<f, g>>, env |-> <<e, d>>]>>),
      configMaps |-> "o" :> m, secrets |-> "o" :> s, services |-> {}, changes |-> 1] :
     f \in {From("configMap", <<>>, TRUE), From("secret", b, FALSE)},
     g \in MCFroms, e \in MCEntries, d \in MCEntries,
     m \in MCContents, s \in MCContents \cup {None}}

ServiceCases ==
    {[pod |-> Pod(ns, links, <<>>, <<[envFrom |-> <<>>, env |-> <<e>>]>>),
      configMaps |-> "o" :> None, secrets |-> "o" :> None, services |-> ss, changes |-> 1] :
     ns \in {"default", "other"}, links \in BOOLEAN \cup {None}, e \in MCEntries,
     ss \in SUBSET Services}

MCCases == TextCases \cup EntryCases \cup ServiceCases
=============================================================================
