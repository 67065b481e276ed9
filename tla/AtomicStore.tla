---------------------------- MODULE AtomicStore ----------------------------
(***************************************************************************)
(* What a journaled store promises its users: one transaction at a time,   *)
(* each applied as a whole or not at all, whatever the power does.  A      *)
(* transaction is open, then applied, then finished; a store that returned *)
(* success went through applied, and nothing but a later transaction ever  *)
(* changes what it holds.                                                  *)
(***************************************************************************)
CONSTANTS Key, Value

VARIABLES store, phase, update

vars == <<store, phase, update>>

\* An update gives some of the keys a new value.
Pair == [block : Key, image : Value]

Applied(s, u) ==
    [k \in Key |-> IF \E e \in u : e.block = k
                   THEN (CHOOSE e \in u : e.block = k).image ELSE s[k]]

Init == phase = "idle" /\ update = {} /\ store \in [Key -> Value]

Begin ==
    /\ phase = "idle"
    /\ phase' = "open"
    /\ update' # {} /\ \A e \in update' : e.block \in Key
    /\ UNCHANGED store

Apply ==
    /\ phase = "open"
    /\ store' = Applied(store, update)
    /\ phase' = "applied"
    /\ update' = {}

\* The transaction is rejected, or its caller learns the outcome.
Finish ==
    /\ phase \in {"open", "applied"}
    /\ phase' = "idle"
    /\ update' = {}
    /\ UNCHANGED store

\* Power is lost and what was open is decided.
PowerCut ==
    /\ phase' = "idle"
    /\ update' = {}
    /\ \/ UNCHANGED store
       \/ phase = "open" /\ store' = Applied(store, update)

Next == Begin \/ Apply \/ Finish \/ PowerCut

Spec == Init /\ [][Next]_vars
====
