------------------------------ MODULE NodePing ------------------------------
(***************************************************************************)
(* The node ping controller (node/node_ping_controller.go), the provider   *)
(* it pings and the life of the kubelet process.                           *)
(*                                                                         *)
(* A check asks a singleflight group for a ping, waits for the result or   *)
(* for its context, and stores the outcome in the monitor variable, used   *)
(* here through its abstract form LatestValue.  The ping is a goroutine of *)
(* its own: it outlives a check that times out, and later checks join it.  *)
(***************************************************************************)
EXTENDS Naturals, FiniteSets

CONSTANTS
    Pings,          \* identities of ping goroutines
    None,           \* no ping, no object, no update
    PingTimeout,    \* BOOLEAN: WithNodePingTimeout is in use
    MaxDisruptions  \* bound on everything the surroundings do to the node

ASSUME PingsAssumption == None \notin Pings /\ MaxDisruptions \in Nat

VARIABLES
    life,           \* the process: "up", "stopping", or ended by an error
    budget,         \* disruptions that can still happen
    provider,       \* how the provider answers pings
    value, subs, news,  \* cond, the last ping result and its subscriptions
    check,          \* the check of the ping loop
    key,            \* the call registered in the singleflight group
    pings,          \* ping goroutines that run
    cancelled       \* those whose context is done

envVars == <<life, budget>>
cellVars == <<value, subs, news>>
pingVars == <<provider, check, key, pings, cancelled>>

Cond == INSTANCE LatestValue WITH
            Values <- {"ok", "err"},
            NoValue <- "none",
            Subscribers <- {"status", "lease"}

Alive == life \in {"up", "stopping"}

NoCheck == [at |-> "between", on |-> None, own |-> FALSE, result |-> None]

PingInit ==
    /\ life = "up"
    /\ budget = MaxDisruptions
    /\ provider = "up"
    /\ Cond!Init
    /\ check = NoCheck
    /\ key = None
    /\ pings = {}
    /\ cancelled = {}

(***************************************************************************)
(* Surroundings                                                            *)
(***************************************************************************)
Disrupt == budget > 0 /\ budget' = budget - 1

\* The root context is cancelled.
Stop ==
    /\ life = "up"
    /\ Disrupt
    /\ life' = "stopping"
    /\ UNCHANGED <<cellVars, pingVars>>

ProviderFails ==
    /\ provider = "up"
    /\ Disrupt
    /\ provider' \in {"down", "stuck"}
    /\ UNCHANGED <<life, cellVars, check, key, pings, cancelled>>

ProviderRecovers ==
    /\ provider # "up"
    /\ provider' = "up"
    /\ UNCHANGED <<envVars, cellVars, check, key, pings, cancelled>>

(***************************************************************************)
(* The ping loop                                                           *)
(***************************************************************************)

\* checkFunc up to the select: DoChan starts a ping, or joins the one that is
\* registered.  The first check does not look at the context.
StartCheck ==
    /\ Alive
    /\ check.at = "between"
    /\ Pings # pings
    /\ life = "up" \/ value = "none"
    /\ IF key = None
       THEN LET p == CHOOSE q \in Pings : q \notin pings IN
            /\ pings' = pings \cup {p}
            /\ key' = p
            /\ check' = [at |-> "waiting", on |-> p, own |-> TRUE, result |-> None]
            /\ cancelled' = IF life = "up" THEN cancelled ELSE cancelled \cup {p}
       ELSE /\ check' = [at |-> "waiting", on |-> key, own |-> FALSE, result |-> None]
            /\ UNCHANGED <<pings, key, cancelled>>
    /\ UNCHANGED <<envVars, cellVars, provider>>

\* Ping returns and doCall hands its result to whoever waits for it.  A stuck
\* provider answers only a cancelled ping, if it looks at its context at all.
PingReturns(p) ==
    /\ Alive
    /\ p \in pings
    /\ \E r \in {"ok", "err"} :
         /\ r = "ok" => provider = "up"
         /\ r = "err" => provider = "down" \/ p \in cancelled \/ life = "stopping"
         /\ check' = IF check.on = p THEN [check EXCEPT !.result = r] ELSE check
    /\ pings' = pings \ {p}
    /\ cancelled' = cancelled \ {p}
    /\ key' = IF key = p THEN None ELSE key
    /\ UNCHANGED <<envVars, cellVars, provider>>

\* Mutant: the singleflight group is told to forget the call.
Conclude_Forgets(v) ==
    /\ Cond!Set(v)
    /\ cancelled' = IF check.own /\ check.on \in pings
                    THEN cancelled \cup {check.on} ELSE cancelled
    /\ check' = NoCheck
    /\ key' = None
    /\ UNCHANGED <<envVars, provider, pings>>

\* The end of checkFunc: cond.Set and the deferred cancel, which reaches the
\* ping when this check started it.
Conclude(v) ==
    /\ Cond!Set(v)
    /\ cancelled' = IF check.own /\ check.on \in pings
                    THEN cancelled \cup {check.on} ELSE cancelled
    /\ check' = NoCheck
    /\ UNCHANGED <<envVars, provider, key, pings>>

\* Mutant: the timeout is not applied.
CheckTimesOut_OnlyAtStop ==
    /\ life = "stopping"
    /\ check.at = "waiting"
    /\ Conclude("err")

\* Mutant: the context of the check does not descend from the root context.
CheckTimesOut_Detached ==
    /\ life = "up"
    /\ check.at = "waiting"
    /\ PingTimeout
    /\ Conclude("err")

\* case <-ctx.Done()
CheckTimesOut ==
    /\ Alive
    /\ check.at = "waiting"
    /\ PingTimeout \/ life = "stopping"
    /\ Conclude("err")

\* case result := <-doChan
CheckGetsResult ==
    /\ Alive
    /\ check.at = "waiting"
    /\ check.result # None
    /\ Conclude(check.result)

\* wait.UntilWithContext returns.
PingLoopReturns ==
    /\ life = "stopping"
    /\ value # "none"
    /\ check.at = "between"
    /\ check' = [NoCheck EXCEPT !.at = "returned"]
    /\ UNCHANGED <<envVars, cellVars, provider, key, pings, cancelled>>

(***************************************************************************)
(* getResult, for the loops that use the ping result.                      *)
(***************************************************************************)
\* Mutant: the first channel of a subscription is always a closed one.
GetResult_Closed(s) ==
    /\ subs' = subs \cup {s}
    /\ news' = news \cup {s}
    /\ UNCHANGED value

GetResult(s) == Cond!Subscribe(s)

ResultReady(s) == s \in news

PingTypeOK ==
    /\ life \in {"up", "stopping", "fatal", "panic"}
    /\ budget \in 0..MaxDisruptions
    /\ provider \in {"up", "down", "stuck"}
    /\ value \in {"none", "ok", "err"}
    /\ subs \subseteq {"status", "lease"}
    /\ news \subseteq subs
    /\ check \in [at : {"between", "waiting", "returned"},
                  on : Pings \cup {None}, own : BOOLEAN,
                  result : {None, "ok", "err"}]
    /\ key \in Pings \cup {None}
    /\ pings \subseteq Pings
    /\ cancelled \subseteq pings
=============================================================================
