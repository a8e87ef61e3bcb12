-------------------------- MODULE EvidenceInvariants --------------------------
(***************************************************************************)
(* The inductive invariant behind FenceClosed, AnchorIsSummary,            *)
(* SourcesAccepted, AckDurable and the refinement of the ledger.  The      *)
(* properties speak of committed rows; what keeps them true is what each   *)
(* running transaction knows at each of its statements, and which advisory *)
(* lock or row lock keeps the others from making it false.                 *)
(***************************************************************************)
EXTENDS EvidenceProperties

\* pg_advisory_xact_lock is exclusive.
LockExclusion ==
  \A p, q \in Procs : p # q => holds[p] \cap holds[q] = {}

PastFence(c) == adm[c].pc \in {"task_lock", "claim", "compare_identity",
                               "apply", "compare"}

\* A Profile 2 admission holds the Delivery's lock from the fence check on, and
\* past the check the Delivery has no fence.
FencePassed(c) ==
  /\ adm[c].pc \in {"delivery_lock", "fence", "task_lock"} =>
       adm[c].rec.profile = 2
  /\ adm[c].rec.profile = 2 /\ (adm[c].pc = "fence" \/ PastFence(c)) =>
       DeliveryLock(DeliveryOf(adm[c].rec)) \in holds[c]
  /\ adm[c].rec.profile = 2 /\ PastFence(c) =>
       DeliveryOf(adm[c].rec) \notin fences

\* A claimed identity is free, and so is the anchor of a claimed summary.
ClaimFree(c) ==
  /\ adm[c].claimed <=> adm[c].pc \in {"apply", "compare"}
  /\ adm[c].claimed => adm[c].rec.id \notin DOMAIN accepted
  /\ adm[c].claimed /\ IsSummary(adm[c].rec) =>
       DeliveryOf(adm[c].rec) \notin DOMAIN anchors

\* An INSERT waits for the other writer of the same identity.
ClaimUnique ==
  \A c, e \in Conns :
    adm[c].claimed /\ adm[e].claimed /\ c # e => adm[c].rec.id # adm[e].rec.id

Destroying(w) == wk[w].pc \in DestroyingPCs

\* A Delivery's lock is held from its check to the COMMIT of the batch, and all
\* that time it is anchored and not fenced.
RetiringLocked(w) ==
  /\ wk[w].pc = "check" \/ Destroying(w) =>
       DeliveryLock(Retiring(w)) \in holds[w]
  /\ Destroying(w) => Retiring(w) \in DOMAIN anchors \ fences
  /\ \A d \in wk[w].fenced :
       DeliveryLock(d) \in holds[w] /\ d \in DOMAIN anchors \ fences

\* The records an iteration deleted are all the records of the Deliveries it
\* fenced: none arrived in between.
GoneIsFenced(w) ==
  wk[w].gone =
    {id \in DOMAIN accepted : DeliveryOf(accepted[id].rec) \in wk[w].fenced}

\* What is left of the effects, as the iteration sees them, refers to none of
\* the records it deleted; each moved row has one new source.
SourcesRemain(w) ==
  /\ \A k \in DOMAIN effects \ (wk[w].dropped \cup MovedKeys(w)) :
       effects[k].src \notin wk[w].gone
  /\ \A m \in wk[w].moved :
       m[1] \in DOMAIN effects \ wk[w].dropped
         /\ m[2] \in DOMAIN accepted \ wk[w].gone
  /\ \A m, n \in wk[w].moved : m[1] = n[1] => m = n

\* Row locks keep iterations apart: none deletes a record that another has made
\* the source of a row, or a row that another has moved.
WorkersApart ==
  \A w, v \in Workers : w # v =>
    MovedTo(w) \cap wk[v].gone = {} /\ MovedKeys(w) \cap wk[v].dropped = {}

\* The conjunction that every step preserves.
Inductive ==
  /\ TypeOK
  /\ LockExclusion
  /\ ClaimUnique
  /\ WorkersApart
  /\ \A c \in Conns : FencePassed(c) /\ ClaimFree(c)
  /\ \A w \in Workers :
       RetiringLocked(w) /\ GoneIsFenced(w) /\ SourcesRemain(w)
  /\ FenceClosed
  /\ AnchorIsSummary
  /\ SourcesAccepted
  /\ AckDurable
===============================================================================
