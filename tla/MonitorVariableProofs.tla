----------------------- MODULE MonitorVariableProofs -----------------------
(***************************************************************************)
(* Proofs about the monitor variable, for any values, any set of           *)
(* subscriptions and any number of calls of Set.                           *)
(***************************************************************************)
EXTENDS MonitorVariable, TLAPS

\* The inductive invariant: the current channel is numbered by the version,
\* the channels before it are the closed ones, and a subscription holds the
\* channel of the version it last read, or the closed channel of a
\* subscription made after the first Set.
IInv ==
    /\ TypeOK
    /\ invalidation = currentVersion + 1
    /\ \A c \in Nat : c \in closed <=> c < invalidation
    /\ \A s \in subs :
          /\ lastVersionRead[s] <= currentVersion
          /\ \/ lastChannel[s] = lastVersionRead[s] + 1
             \/ /\ lastChannel[s] = ClosedCh
                /\ lastVersionRead[s] = 0
                /\ currentVersion > 0
    /\ currentVersion > 0 => currentValue \in Values
    /\ currentVersion = 0 => currentValue = NoValue

\* NewMonitorVariable (monitor.go:8) establishes the invariant.
LEMMA InitIInv == NewMonitorVariable => IInv
BY DEF NewMonitorVariable, IInv, TypeOK, ClosedCh

\* Every method of the variable and of a subscription preserves it.
LEMMA NextIInv == IInv /\ [Next]_vars => IInv'
<1> SUFFICES ASSUME IInv, [Next]_vars
             PROVE  IInv'
    OBVIOUS
<1> USE DEF ClosedCh
<1>1. ASSUME NEW v \in Values, Set(v)
      PROVE  IInv'
  <2>1. TypeOK'
    BY <1>1 DEF IInv, TypeOK, Set
  <2>2. invalidation' = currentVersion' + 1
    BY <1>1 DEF IInv, TypeOK, Set
  <2>3. \A c \in Nat : c \in closed' <=> c < invalidation'
    BY <1>1 DEF IInv, TypeOK, Set
  <2>4. (\A s \in subs :
          /\ lastVersionRead[s] <= currentVersion
          /\ \/ lastChannel[s] = lastVersionRead[s] + 1
             \/ /\ lastChannel[s] = ClosedCh
                /\ lastVersionRead[s] = 0
                /\ currentVersion > 0)'
    BY <1>1 DEF IInv, TypeOK, Set
  <2>5. (currentVersion > 0 => currentValue \in Values)'
    BY <1>1 DEF IInv, TypeOK, Set
  <2>6. (currentVersion = 0 => currentValue = NoValue)'
    BY <1>1 DEF IInv, TypeOK, Set
  <2> QED
    BY <2>1, <2>2, <2>3, <2>4, <2>5, <2>6 DEF IInv
<1>2. ASSUME NEW s \in Subscribers, Subscribe(s)
      PROVE  IInv'
  BY <1>2 DEF IInv, TypeOK, Subscribe
<1>3. ASSUME NEW s \in Subscribers, Value(s)
      PROVE  IInv'
  BY <1>3 DEF IInv, TypeOK, Value
<1>4. ASSUME NEW s \in Subscribers, Drop(s)
      PROVE  IInv'
  BY <1>4 DEF IInv, TypeOK, Drop
<1>5. CASE UNCHANGED vars
  BY <1>5 DEF IInv, TypeOK, vars
<1> QED
  BY <1>1, <1>2, <1>3, <1>4, <1>5 DEF Next

\* The invariant holds throughout.
LEMMA SpecIInv == Spec => []IInv
BY InitIInv, NextIInv, PTL DEF Spec

\* No wake-up is lost and none is spurious: the channel of a subscription is
\* closed exactly when there is a value it has not read.
THEOREM ReadyIffNewThm == Spec => []ReadyIffNew
<1>1. IInv => ReadyIffNew
  BY DEF IInv, TypeOK, ReadyIffNew, NewValueReady, ClosedCh
<1> QED
  BY <1>1, SpecIInv, PTL

\* What getResult reads after the receive is a value that was set, not nil.
THEOREM ReadyHasValueThm == Spec => []ReadyHasValue
<1>1. IInv => ReadyHasValue
  BY DEF IInv, TypeOK, ReadyHasValue, NewValueReady, ClosedCh
<1> QED
  BY <1>1, SpecIInv, PTL

\* A new variable is an empty cell.
LEMMA InitCell == NewMonitorVariable => Cell!Init
BY DEF NewMonitorVariable, Cell!Init

\* Every step of the monitor variable is a step of the cell or leaves it as it
\* is: closing the current channel tells every subscription, a new channel
\* after Value means no news, and Subscribe has news when a value was set.
LEMMA StepCell ==
  ASSUME NoValue \notin Values
  PROVE  IInv /\ [Next]_vars => [Cell!Next]_Cell!cellVars
<1> SUFFICES ASSUME IInv, [Next]_vars
             PROVE  [Cell!Next]_Cell!cellVars
    OBVIOUS
<1> USE DEF NewValueReady, ClosedCh
<1>1. ASSUME NEW v \in Values, Set(v)
      PROVE  Cell!Next
  <2>1. {s \in subs : NewValueReady(s)}' = subs
    BY <1>1 DEF IInv, TypeOK, Set
  <2>2. Cell!Set(v)
    BY <1>1, <2>1 DEF Set, Cell!Set
  <2> QED
    BY <2>2 DEF Cell!Next
<1>2. ASSUME NEW s \in Subscribers, Subscribe(s)
      PROVE  Cell!Next
  <2>1. currentValue = NoValue <=> currentVersion = 0
    BY DEF IInv, TypeOK
  <2>2. CASE currentVersion = 0
    <3>1. {t \in subs : NewValueReady(t)}' = {t \in subs : NewValueReady(t)} \ {s}
      BY <1>2, <2>2 DEF IInv, TypeOK, Subscribe
    <3> QED
      BY <1>2, <2>1, <2>2, <3>1 DEF Subscribe, Cell!Subscribe, Cell!Next
  <2>3. CASE currentVersion > 0
    <3>1. {t \in subs : NewValueReady(t)}' = {t \in subs : NewValueReady(t)} \cup {s}
      BY <1>2, <2>3 DEF IInv, TypeOK, Subscribe
    <3> QED
      BY <1>2, <2>1, <2>3, <3>1 DEF Subscribe, Cell!Subscribe, Cell!Next
  <2> QED
    BY <2>2, <2>3 DEF IInv, TypeOK
<1>3. ASSUME NEW s \in Subscribers, Value(s)
      PROVE  Cell!Next
  <2>1. {t \in subs : NewValueReady(t)}' = {t \in subs : NewValueReady(t)} \ {s}
    BY <1>3 DEF IInv, TypeOK, Value
  <2> QED
    BY <1>3, <2>1 DEF Value, Cell!Read, Cell!Next
<1>4. ASSUME NEW s \in Subscribers, Drop(s)
      PROVE  Cell!Next
  <2>1. {t \in subs : NewValueReady(t)}' = {t \in subs : NewValueReady(t)} \ {s}
    BY <1>4 DEF Drop
  <2> QED
    BY <1>4, <2>1 DEF Drop, Cell!Drop, Cell!Next
<1>5. CASE UNCHANGED vars
  BY <1>5 DEF vars, Cell!cellVars
<1> QED
  BY <1>1, <1>2, <1>3, <1>4, <1>5 DEF Next

\* The monitor variable implements the cell that the loops of the node rely on.
THEOREM MonitorImplementsCell ==
  ASSUME NoValue \notin Values
  PROVE  Spec => ImplementsCell
<1>1. IInv /\ [Next]_vars => [Cell!Next]_Cell!cellVars
  BY StepCell
<1> QED
  BY <1>1, InitCell, SpecIInv, PTL DEF Spec, ImplementsCell, Cell!Spec
=============================================================================
