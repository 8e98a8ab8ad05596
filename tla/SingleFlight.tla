---------------------------- MODULE SingleFlight ----------------------------
(***************************************************************************)
(* What the session pool (internal/protocol/pool.go) promises its callers: *)
(* for each key a cached value that is made by at most one caller at a     *)
(* time, only while there is none, and that is never shared between keys.  *)
(***************************************************************************)
EXTENDS Naturals

CONSTANTS Keys, Callers, Values, None

VARIABLES
  value,  \* key -> what is cached for it, or None
  flying  \* who is making a value for which key: pairs <<key, caller>>

vars == <<value, flying>>

Init ==
  /\ value \in [Keys -> Values \cup {None}]
  /\ \A k, l \in Keys : k # l /\ value[k] # None => value[k] # value[l]
  /\ flying = {}

Begin(k, c) ==
  /\ value[k] = None
  /\ \A d \in Callers : <<k, d>> \notin flying
  /\ flying' = flying \cup {<<k, c>>}
  /\ UNCHANGED value

Deliver(k, c, v) ==
  /\ <<k, c>> \in flying
  /\ \A l \in Keys : value[l] # v
  /\ value' = [value EXCEPT ![k] = v]
  /\ flying' = flying \ {<<k, c>>}

Fail(k, c) ==
  /\ <<k, c>> \in flying
  /\ flying' = flying \ {<<k, c>>}
  /\ UNCHANGED value

\* Values expire, are invalidated, or go with what they belonged to.
Drop(K) ==
  /\ value' = [k \in Keys |-> IF k \in K THEN None ELSE value[k]]
  /\ UNCHANGED flying

Next ==
  \/ \E k \in Keys, c \in Callers : Begin(k, c) \/ Fail(k, c) \/ \E v \in Values : Deliver(k, c, v)
  \/ \E K \in SUBSET Keys : Drop(K)

Spec == Init /\ [][Next]_vars

=============================================================================
