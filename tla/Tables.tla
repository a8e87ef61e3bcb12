-------------------------------- MODULE Tables --------------------------------
(***************************************************************************)
(* Partial functions as tables: the domain is the set of the primary keys. *)
(***************************************************************************)
EXTENDS Naturals

EmptyTable == [key \in {} |-> "null"]

\* The rows of t without the keys in S, and t with the rows of u added.
Without(t, S) == [key \in DOMAIN t \ S |-> t[key]]
With(t, u) == [key \in DOMAIN t \cup DOMAIN u |->
                 IF key \in DOMAIN u THEN u[key] ELSE t[key]]
Row(key, value) == [k \in {key} |-> value]

MinOf(S) == CHOOSE x \in S : \A y \in S : x <= y
===============================================================================
