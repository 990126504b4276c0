----------------------------- MODULE Components -----------------------------
(***************************************************************************)
(* The ephemeral index of class ComponentsEngine, one for each connection  *)
(* (vibora/components/components.pyx): from the type of a component to the *)
(* request it belongs to.  What is registered with the application (the    *)
(* permanent index) is there whatever happens and left out.                *)
(***************************************************************************)
EXTENDS Naturals, FiniteSets

CONSTANT Supers  \* for each type, its superclasses, itself among them

(* No class is derived from one that is derived from it. *)
ASSUME SupersAssumption ==
    \A a, b \in DOMAIN Supers : a \in Supers[b] /\ b \in Supers[a] => a = b

NoComponents == <<>>

(* ephemeral_index[type] = component *)
Added(index, type, owner) ==
    [k \in DOMAIN index \cup {type} |-> IF k = type THEN owner ELSE index[k]]

(* get(): the component of exactly this type, or the only one of a type    *)
(* derived from it.                                                        *)
Candidates(index, type) ==
    IF type \in DOMAIN index THEN {type}
    ELSE {k \in DOMAIN index : type \in Supers[k]}

Has(index, type) == Cardinality(Candidates(index, type)) = 1

(* get() and search_type() raise otherwise. *)
Failure(index, type) ==
    IF Candidates(index, type) = {} THEN "MissingComponent" ELSE "ValueError"

Owner(index, type) == index[CHOOSE k \in Candidates(index, type) : TRUE]
=============================================================================
