---------------------------- MODULE Environment ----------------------------
(***************************************************************************)
(* PopulateEnvironmentVariables (internal/podutils/env.go) for one pod:    *)
(* each container in turn, the init containers first.  Config maps,        *)
(* secrets and services are read one by one from informer caches           *)
(* (internal/manager), which change meanwhile.                             *)
(*                                                                         *)
(* An environment is a function from names to texts: the order of the list *)
(* made of it is that of a Go map, which is any.                           *)
(***************************************************************************)
EXTENDS Expansion, TLC, SequencesExt

CONSTANTS
    Cases,          \* the pods, each with what the caches hold at the start
    Contents,       \* what a config map or a secret may contain
    Letters, Digits,   \* the bytes of texts beside those of the syntax
    None

VARIABLES
    pod,            \* the deep copy that is populated
    configMaps, secrets, services,    \* the informer caches
    changes,        \* bound: how often the caches may still change
    c,              \* the container that is populated
    pc,             \* "envFrom", "env", "done", "failed"
    i,              \* the entry of envFrom or env that is next
    res,            \* the map that is built
    svcEnv,         \* the variables of services
    envs,           \* the containers that are ready: env, and the history
    readFrom, readEnv, listed   \* history of this container: what its entries
                                \* were read from, and the services it listed

cacheVars == <<configMaps, secrets, services, changes>>
vars == <<pod, cacheVars, c, pc, i, res, svcEnv, envs, readFrom, readEnv, listed>>

Empty == [n \in {} |-> <<>>]
Containers == pod.initContainers \o pod.containers
Container == Containers[c]

Init ==
    /\ \E case \in Cases :
         /\ pod = case.pod
         /\ configMaps = case.configMaps /\ secrets = case.secrets
         /\ services = case.services /\ changes = case.changes
    /\ c = 1 /\ pc = "envFrom" /\ i = 1
    /\ res = Empty /\ svcEnv = Empty /\ envs = <<>>
    /\ readFrom = <<>> /\ readEnv = <<>> /\ listed = {}

-----------------------------------------------------------------------------
\* The informers change a cache.
InformerUpdates ==
    /\ pc \in {"envFrom", "env"}
    /\ changes > 0
    /\ changes' = changes - 1
    /\ \/ \E m \in DOMAIN configMaps, content \in Contents \cup {None} :
            configMaps' = [configMaps EXCEPT ![m] = content]
          /\ UNCHANGED <<secrets, services>>
       \/ \E s \in DOMAIN secrets, content \in Contents \cup {None} :
            secrets' = [secrets EXCEPT ![s] = content]
          /\ UNCHANGED <<configMaps, services>>
       \/ \E s \in services : services' = services \ {s}
          /\ UNCHANGED <<configMaps, secrets>>
    /\ UNCHANGED <<pod, c, pc, i, res, svcEnv, envs, readFrom, readEnv, listed>>

\* None stands for the error of a lister, not found or another.
GetConfigMap(name) == configMaps[name]
GetSecret(name) == secrets[name]

-----------------------------------------------------------------------------
\* IsEnvVarName of apimachinery.
IsEnvVarName(name) ==
    /\ name # <<>> /\ Range(name) \subseteq Letters \cup Digits
    /\ name[1] \notin Digits

\* The variables of one config map or secret; invalid names are skipped.
FromContent(content, prefix) ==
    [n \in {n \in {prefix \o key : key \in DOMAIN content} : IsEnvVarName(n)} |->
        content[Rest(n, Len(prefix) + 1)]]

Fail ==
    /\ pc' = "failed"
    /\ UNCHANGED <<i, res>>

\* Mutant: what an earlier entry gave is kept.
AddContent_FirstWins(content, prefix) == res @@ FromContent(content, prefix)

\* The map with the variables of one more entry: a later entry wins.
AddContent(content, prefix) == FromContent(content, prefix) @@ res

\* One entry of envFrom in the loop of makeEnvironmentMapBasedOnEnvFrom.
EnvFromEntry ==
    LET ef == Container.envFrom[i]
        content == IF ef.kind = "configMap" THEN GetConfigMap(ef.name) ELSE GetSecret(ef.name)
    IN  /\ pc = "envFrom" /\ i <= Len(Container.envFrom)
        /\ readFrom' = Append(readFrom, content)
        /\ \/ content # None /\ i' = i + 1 /\ res' = AddContent(content, ef.prefix)
              /\ UNCHANGED pc
           \/ content = None /\ ef.optional /\ i' = i + 1 /\ UNCHANGED <<pc, res>>
           \/ content = None /\ ~ef.optional /\ Fail
        /\ UNCHANGED <<pod, cacheVars, c, svcEnv, envs, readEnv, listed>>

-----------------------------------------------------------------------------
IsMasterService(s) == s.ns = "default" /\ s.name \in {<<"k">>}

\* One round of the loop of getServiceEnvVarMap; nil links are enabled.
AddService(serviceMap, s) ==
    IF ~s.ip THEN serviceMap
    ELSE IF IsMasterService(s)
    THEN serviceMap @@ (s.name :> s)
    ELSE IF s.ns = pod.ns /\ pod.enableServiceLinks # FALSE
    THEN (s.name :> s) @@ serviceMap
    ELSE serviceMap

\* envvars.FromServices: one variable stands for those of a service.
FromServices(serviceMap) == [n \in DOMAIN serviceMap |-> serviceMap[n].value]

\* The lister gives the services in any order.
getServiceEnvVarMap(list) == FromServices(FoldLeft(AddService, Empty, list))

\* makeEnvironmentMap begins; the lister may fail.
ListServices ==
    /\ pc = "envFrom" /\ i > Len(Container.envFrom)
    /\ \/ /\ \E list \in SetToSeqs(services) : svcEnv' = getServiceEnvVarMap(list)
          /\ listed' = services
          /\ pc' = "env" /\ i' = 1 /\ UNCHANGED res
       \/ listed' = None /\ Fail /\ UNCHANGED svcEnv
    /\ UNCHANGED <<pod, cacheVars, c, envs, readFrom, readEnv>>
-----------------------------------------------------------------------------
Found(text) == [err |-> FALSE, val |-> text]
Skipped == [err |-> FALSE, val |-> None]
Error == [err |-> TRUE, val |-> None]

\* Mutant: an optional reference fails when the key is missing.
KeyOf_Strict(content, e) ==
    IF content # None /\ e.key \in DOMAIN content THEN Found(content[e.key])
    ELSE IF content = None /\ e.optional THEN Skipped ELSE Error

\* The tests that the key references of config maps and secrets share.
KeyOf(content, e) ==
    IF content # None /\ e.key \in DOMAIN content THEN Found(content[e.key])
    ELSE IF e.optional THEN Skipped ELSE Error

getEnvironmentVariableValueWithValueFromConfigMapKeyRef(e) ==
    KeyOf(GetConfigMap(e.object), e)

getEnvironmentVariableValueWithValueFromSecretKeyRef(e) ==
    KeyOf(GetSecret(e.object), e)

\* A field the code cannot select is an error.
podFieldSelectorRuntimeValue(e) ==
    IF e.field \in DOMAIN pod.fields THEN Found(pod.fields[e.field]) ELSE Error

\* A resource field is not implemented and skipped.
getEnvironmentVariableValue(e) ==
    CASE e.from = "value" -> Found(Expand(e.value, <<res, svcEnv>>))
      [] e.from = "configMap" -> getEnvironmentVariableValueWithValueFromConfigMapKeyRef(e)
      [] e.from = "secret" -> getEnvironmentVariableValueWithValueFromSecretKeyRef(e)
      [] e.from = "field" -> podFieldSelectorRuntimeValue(e)
      [] OTHER -> Skipped

\* One entry of env in the loop of makeEnvironmentMap.
EnvEntry ==
    LET e == Container.env[i]
        r == getEnvironmentVariableValue(e)
    IN  /\ pc = "env" /\ i <= Len(Container.env)
        /\ readEnv' = Append(readEnv, CASE e.from = "configMap" -> GetConfigMap(e.object)
                                        [] e.from = "secret" -> GetSecret(e.object)
                                        [] OTHER -> None)
        /\ \/ r.err /\ Fail
           \/ /\ ~r.err
              /\ res' = IF r.val = None THEN res ELSE (e.name :> r.val) @@ res
              /\ i' = i + 1
              /\ UNCHANGED pc
        /\ UNCHANGED <<pod, cacheVars, c, svcEnv, envs, readFrom, listed>>

\* makeEnvironmentMap adds the variables of services that are not set, and
\* populateContainerEnvironment stores the result; the next container begins.
ContainerReady ==
    /\ pc = "env" /\ i > Len(Container.env)
    /\ envs' = Append(envs, [env |-> res @@ svcEnv, readFrom |-> readFrom,
                             readEnv |-> readEnv, listed |-> listed])
    /\ IF c < Len(Containers)
       THEN c' = c + 1 /\ pc' = "envFrom"
       ELSE pc' = "done" /\ UNCHANGED c
    /\ i' = 1 /\ res' = Empty /\ svcEnv' = Empty
    /\ readFrom' = <<>> /\ readEnv' = <<>> /\ listed' = {}
    /\ UNCHANGED <<pod, cacheVars>>

Next == InformerUpdates \/ EnvFromEntry \/ ListServices \/ EnvEntry \/ ContainerReady

Spec == Init /\ [][Next]_vars

-----------------------------------------------------------------------------
\* The variables that a pod sees of services, in whatever order the lister gives
\* them: those of its own namespace when links are enabled, and those of the
\* master service unless one of its own has that name.
Visible(ss) ==
    LET own == {s \in ss : s.ip /\ s.ns = pod.ns /\ pod.enableServiceLinks # FALSE}
        master == {s \in ss : s.ip /\ IsMasterService(s)
                              /\ \A o \in own : o.name # s.name}
    IN  [n \in {s.name : s \in own \cup master} |->
            (CHOOSE s \in own \cup master : s.name = n).value]

\* Declared(k, n, j): the entries of container k before entry j of its env that
\* set n.
Declared(k, n, j) ==
    {l \in 1..(j - 1) :
        LET e == Containers[k].env[l]  read == envs[k].readEnv[l]
        IN  /\ e.name = n
            /\ \/ e.from \in {"value", "field"}
               \/ read # None /\ e.key \in DOMAIN read}

\* The keys that entry l of envFrom of container k has for n: its prefix and the
\* key make the name, and only a valid name counts.
KeysFor(k, l, n) ==
    {key \in DOMAIN envs[k].readFrom[l] :
        n = Containers[k].envFrom[l].prefix \o key /\ IsEnvVarName(n)}

Fetched(k) == {l \in DOMAIN Containers[k].envFrom : envs[k].readFrom[l] # None}

\* The entries of envFrom of container k that set n.
Inherited(k, n) == {l \in Fetched(k) : KeysFor(k, l, n) # {}}

Names(k) ==
    {Containers[k].env[l].name : l \in DOMAIN Containers[k].env}
    \cup DOMAIN Visible(envs[k].listed)
    \cup UNION {{Containers[k].envFrom[l].prefix \o key : key \in DOMAIN envs[k].readFrom[l]} :
                l \in Fetched(k)}

\* The environment that container k has before entry j of its env: the last
\* entry of env that sets a name, else the last entry of envFrom, else a service.
RECURSIVE Before(_, _)
Before(k, j) ==
    LET Value(l) ==
          LET e == Containers[k].env[l]
          IN  CASE e.from = "value" -> Meaning(e.value, <<Before(k, l)>>)
                [] e.from = "field" -> pod.fields[e.field]
                [] OTHER -> envs[k].readEnv[l][e.key]
        Of(n) ==
          CASE Declared(k, n, j) # {} -> Value(Max(Declared(k, n, j)))
            [] Declared(k, n, j) = {} /\ Inherited(k, n) # {} ->
                 LET l == Max(Inherited(k, n))
                 IN  envs[k].readFrom[l][CHOOSE key \in KeysFor(k, l, n) : TRUE]
            [] OTHER -> Visible(envs[k].listed)[n]
    IN  [n \in {n \in Names(k) : Declared(k, n, j) # {} \/ Inherited(k, n) # {}
                                 \/ n \in DOMAIN Visible(envs[k].listed)} |-> Of(n)]

\* The environment of each container is the one its entries describe, on what
\* they were read from, whatever the caches did in between and whatever the
\* other containers hold: env overrides envFrom, a later entry an earlier one,
\* services come last and in any order, names that are not valid are left out, and
\* a value sees the entries before it (env.go:94-123, 213-231).  Excepted are the
\* values that Expand garbles.
ContainersResolved ==
    \A k \in DOMAIN envs :
        (\A e \in Range(Containers[k].env) : e.from = "value" => ~Garbled(e.value))
            => envs[k].env = Before(k, Len(Containers[k].env) + 1)

\* An entry that cannot be resolved and may not be skipped.
Unresolved(container, from, env) ==
    \/ \E l \in DOMAIN from : from[l] = None /\ ~container.envFrom[l].optional
    \/ \E l \in DOMAIN env :
         LET e == container.env[l]
         IN  \/ e.from = "field" /\ e.field \notin DOMAIN pod.fields
             \/ /\ e.from \in {"configMap", "secret"} /\ ~e.optional
                /\ (env[l] # None => e.key \notin DOMAIN env[l])

\* PopulateEnvironmentVariables fails for a mandatory reference that was missing
\* when it was read, or when the services cannot be listed, and for nothing else:
\* no pod is started without one, and none is refused for an optional one
\* (env.go:187-207, 306-309, 374-414).
FailsOnMandatory ==
    /\ pc = "failed" <=> Unresolved(Container, readFrom, readEnv) \/ listed = None
    /\ \A k \in DOMAIN envs : ~Unresolved(Containers[k], envs[k].readFrom, envs[k].readEnv)
=============================================================================
