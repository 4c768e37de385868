-------------------------- MODULE MonitorVariable --------------------------
(***************************************************************************)
(* The monitor variable of internal/lock/monitor.go.  A channel is a       *)
(* number; closing it wakes every subscription that waits on it.  The      *)
(* variable replaces its channel at every Set, and a subscription keeps    *)
(* the channel that was current when it last read the value.  All methods  *)
(* hold the lock, so each is one step.                                     *)
(***************************************************************************)
EXTENDS Naturals

CONSTANTS
    Values,
    NoValue,        \* nil
    Subscribers,
    MaxVersion      \* bound on the number of calls of Set

VARIABLES
    currentValue,
    currentVersion,
    invalidation,       \* versionInvalidationChannel
    closed,             \* the closed channels
    subs,               \* the subscriptions in use
    lastVersionRead,
    lastChannel         \* lastVersionReadInvalidationChannel

vars == <<currentValue, currentVersion, invalidation, closed,
          subs, lastVersionRead, lastChannel>>

\* The channel that Subscribe makes and closes at once; one stands for all.
ClosedCh == 0

NewMonitorVariable ==
    /\ currentValue = NoValue
    /\ currentVersion = 0
    /\ invalidation = 1
    /\ closed = {ClosedCh}
    /\ subs = {}
    /\ lastVersionRead = [s \in Subscribers |-> 0]
    /\ lastChannel = [s \in Subscribers |-> ClosedCh]

Set(v) ==
    /\ currentVersion < MaxVersion
    /\ currentValue' = v
    /\ currentVersion' = currentVersion + 1
    /\ closed' = closed \cup {invalidation}
    /\ invalidation' = invalidation + 1
    /\ UNCHANGED <<subs, lastVersionRead, lastChannel>>

Subscribe(s) ==
    /\ subs' = subs \cup {s}
    /\ lastVersionRead' = [lastVersionRead EXCEPT ![s] = 0]
    /\ lastChannel' = [lastChannel EXCEPT ![s] =
                         IF currentVersion > 0 THEN ClosedCh ELSE invalidation]
    /\ UNCHANGED <<currentValue, currentVersion, invalidation, closed>>

\* What a receive from NewValueReady() can do.
NewValueReady(s) == lastChannel[s] \in closed

Value(s) ==
    /\ s \in subs
    /\ lastVersionRead' = [lastVersionRead EXCEPT ![s] = currentVersion]
    /\ lastChannel' = [lastChannel EXCEPT ![s] = invalidation]
    /\ UNCHANGED <<currentValue, currentVersion, invalidation, closed, subs>>

\* getResult returns and its subscription is garbage.
Drop(s) ==
    /\ s \in subs
    /\ subs' = subs \ {s}
    /\ UNCHANGED <<currentValue, currentVersion, invalidation, closed,
                   lastVersionRead, lastChannel>>

Next ==
    \/ \E v \in Values : Set(v)
    \/ \E s \in Subscribers : Subscribe(s) \/ Value(s) \/ Drop(s)

Spec == NewMonitorVariable /\ [][Next]_vars

TypeOK ==
    /\ currentValue \in Values \cup {NoValue}
    /\ currentVersion \in Nat
    /\ invalidation \in Nat
    /\ closed \subseteq Nat
    /\ subs \subseteq Subscribers
    /\ lastVersionRead \in [Subscribers -> Nat]
    /\ lastChannel \in [Subscribers -> Nat]

\* NewValueReady (monitor.go:83): the channel of a subscription is closed
\* exactly when the variable has been set since the subscription last read it.
\* No wake-up is lost, however Set, Subscribe and Value interleave, and none is
\* given twice for one value ("Once a value is read, the channel returned will
\* only be closed if a the Monitor Variable is set to a new value").
ReadyIffNew ==
    \A s \in subs : NewValueReady(s) <=> currentVersion > lastVersionRead[s]

\* getResult (node_ping_controller.go:113) converts the value it reads after
\* the receive without a check: the value is never nil then.
ReadyHasValue ==
    \A s \in subs : NewValueReady(s) => currentValue \in Values

Cell == INSTANCE LatestValue WITH
            value <- currentValue,
            subs <- subs,
            news <- {s \in subs : NewValueReady(s)}

\* The versions and channels implement the cell with one bit per subscription.
ImplementsCell == Cell!Spec
=============================================================================
