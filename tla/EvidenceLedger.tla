---------------------------- MODULE EvidenceLedger ----------------------------
(***************************************************************************)
(* What the store promises: a ledger of accepted records.  A record enters *)
(* whole, under an identity no other live record has, and never into a     *)
(* retired Delivery; a Delivery has at most one terminal summary; records  *)
(* leave only with their whole Delivery, all in one step, after its        *)
(* terminal summary; a retired Delivery stays retired.                     *)
(***************************************************************************)
EXTENDS Projection

CONSTANT Records

VARIABLES
  live,      \* the accepted records
  retired    \* the retired Deliveries

Terminated(d) == \E r \in live : IsSummary(r) /\ DeliveryOf(r) = d

LedgerInit == live = {} /\ retired = {}

Accept(r) ==
  /\ DeliveryOf(r) \notin retired
  /\ \A q \in live : q.id # r.id
  /\ IsSummary(r) => ~Terminated(DeliveryOf(r))
  /\ live' = live \cup {r}
  /\ UNCHANGED retired

Retire(S) ==
  /\ S \cap retired = {}
  /\ \A d \in S : Terminated(d)
  /\ live' = {r \in live : DeliveryOf(r) \notin S}
  /\ retired' = retired \cup S

LedgerNext ==
  \/ \E r \in Records : Accept(r)
  \/ \E S \in SUBSET {DeliveryOf(r) : r \in live} : Retire(S)

LedgerSpec == LedgerInit /\ [][LedgerNext]_<<live, retired>>
===============================================================================
