---------------------------- MODULE LatestValue ----------------------------
(***************************************************************************)
(* What a MonitorVariable (internal/lock/monitor.go) promises to its       *)
(* users: a cell that holds the last value set, and for every subscription *)
(* one bit that says whether there is a value it has not read.             *)
(*                                                                         *)
(* The ping, status and lease loops of the node use the cell in this form; *)
(* MonitorVariable, with its versions and channels, implements it.         *)
(***************************************************************************)
CONSTANTS
    Values,         \* what can be stored
    NoValue,        \* the content before the first Set
    Subscribers     \* the subscriptions that can exist at a time

VARIABLES
    value,          \* the last value set
    subs,           \* the subscriptions in use
    news            \* the subscriptions with a value they have not read

cellVars == <<value, subs, news>>

Init ==
    /\ value = NoValue
    /\ subs = {}
    /\ news = {}

Set(v) ==
    /\ value' = v
    /\ news' = subs
    /\ UNCHANGED subs

\* A new subscription has news at once when a value has been set.
Subscribe(s) ==
    /\ subs' = subs \cup {s}
    /\ news' = IF value = NoValue THEN news \ {s} ELSE news \cup {s}
    /\ UNCHANGED value

Read(s) ==
    /\ s \in subs
    /\ news' = news \ {s}
    /\ UNCHANGED <<value, subs>>

\* The subscription goes out of scope.
Drop(s) ==
    /\ s \in subs
    /\ subs' = subs \ {s}
    /\ news' = news \ {s}
    /\ UNCHANGED value

Next ==
    \/ \E v \in Values : Set(v)
    \/ \E s \in Subscribers : Subscribe(s) \/ Read(s) \/ Drop(s)

Spec == Init /\ [][Next]_cellVars
=============================================================================
