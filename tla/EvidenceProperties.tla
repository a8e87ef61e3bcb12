-------------------------- MODULE EvidenceProperties --------------------------
(***************************************************************************)
(* What makes the store correct: invariants, action properties, the        *)
(* refinement of the abstract ledger, and liveness.                        *)
(***************************************************************************)
EXTENDS EvidenceSystem

-------------------------------------------------------------------------------
(* Invariants *)

\* A retirement fence is final: nothing of the Delivery is left in the store
\* and no admission that passed the fence check is about to bring it back.
FenceClosed ==
  \A d \in fences :
    /\ MembersOf(d) = {}
    /\ d \notin DOMAIN anchors
    /\ \A c \in Conns : adm[c].claimed => DeliveryOf(adm[c].rec) # d

\* The source of every effect row is an accepted record, so the foreign key
\* never makes the deletion of a Delivery fail.
SourcesAccepted == \A k \in DOMAIN effects : effects[k].src \in DOMAIN accepted

\* The row of effect e is what the record that projected e says it is.
Holds(e) ==
  /\ EffectKey(e) \in DOMAIN effects
  /\ LET found == effects[EffectKey(e)].payload IN
     IF e.op = "require"
     THEN \A name \in DOMAIN e.payload : Get(found, name) = e.payload[name]
     ELSE found = e.payload

\* Admission is all or nothing and stays so: every effect a live record
\* projects is in the store with that record's payload, and everything it
\* required is still there, whoever retired since.
ProjectionComplete ==
  \A id \in DOMAIN accepted : \A e \in EffectsOf(accepted[id].rec) : Holds(e)

\* A live record writes the row k.
Asserted(k) ==
  \E id \in DOMAIN accepted : \E e \in EffectsOf(accepted[id].rec) :
    e.op = "first_write" /\ EffectKey(e) = k

\* The Task rows live exactly as long as a Delivery references the Task; any
\* other row lives only as long as a live record asserts it.
NothingLingers ==
  \A k \in DOMAIN effects :
    IF k[1] \in {"task_declaration", "task_display_name"}
    THEN \E d \in Deliveries :
           <<"delivery_task_membership", k[2], d>> \in DOMAIN effects
    ELSE Asserted(k)

\* A Delivery has one terminal summary, and the anchor its retention is timed
\* by is that summary and its acceptance time.
AnchorIsSummary ==
  /\ \A d \in DOMAIN anchors :
       /\ anchors[d].id \in MembersOf(d)
       /\ IsSummary(accepted[anchors[d].id].rec)
       /\ anchors[d].at = accepted[anchors[d].id].at
  /\ \A id \in DOMAIN accepted :
       IsSummary(accepted[id].rec) =>
         /\ DeliveryOf(accepted[id].rec) \in DOMAIN anchors
         /\ anchors[DeliveryOf(accepted[id].rec)].id = id

\* Raw content is gone exactly where a RAW_DEBUG marker says so: a marker that
\* outlives its record would hide the raw content of the next record with that
\* identity from the scrub for ever.
ScrubMarked ==
  markers = {id \in DOMAIN accepted : ~accepted[id].raw}

\* An answer that says the record is in the store stays true until the record's
\* Delivery is retired.
AckDurable ==
  \A c \in Conns :
    adm[c].pc = "done" /\ adm[c].res \in {"accepted", "duplicate"} =>
      \/ /\ adm[c].rec.id \in DOMAIN accepted
         /\ accepted[adm[c].rec.id].rec = adm[c].rec
      \/ DeliveryOf(adm[c].rec) \in fences

\* A planned Delivery whose turn comes is either fenced already or still
\* anchored and old enough: the plan was read in another transaction, and the
\* "disappeared before deletion" error must not be reachable.
PlannedStillDue ==
  \A w \in Workers : \A d \in wk[w].batch :
    d \in fences \/ (d \in DOMAIN anchors
                       /\ anchors[d].at + DeliveryTTL <= wk[w].at)

\* The foreign key never refuses a statement of a deletion: when the members of
\* a Delivery are deleted no row names one as its source any more, and the
\* record that a Task row is moved to is still there.
NothingRefused ==
  \A w \in Workers :
    /\ wk[w].pc = "delete_records" => OwnedBy(w, Retiring(w)) = {}
    /\ wk[w].pc = "preserve"
         /\ OtherMembers(w, Retiring(w), wk[w].task) # {}
         /\ Preserved(w, Retiring(w), wk[w].task) # {} =>
         Heir(w, Retiring(w), wk[w].task) \in DOMAIN accepted \ wk[w].gone

\* No transactions wait for each other in a cycle.
NoWaitCycle == \A p \in Procs : ~OnWaitCycle(p)


-------------------------------------------------------------------------------
(* Action properties *)

\* First write wins: while a row exists, its record, its acceptance time and
\* its payload never change.
FirstWriteWins ==
  [][/\ \A id \in DOMAIN accepted \cap DOMAIN accepted' :
          /\ accepted'[id].rec = accepted[id].rec
          /\ accepted'[id].at = accepted[id].at
     /\ \A k \in DOMAIN effects \cap DOMAIN effects' :
          effects'[k].payload = effects[k].payload]_vars

\* Rows leave only in the transaction that fences their Delivery, and only once
\* the Delivery's terminal summary is as old as the policy asks for.  A row
\* that a record surviving that transaction asserts does not leave.
DeletesOnlyThatDelivery ==
  [][/\ \A id \in DOMAIN accepted \ DOMAIN accepted' :
          DeliveryOf(accepted[id].rec) \in fences' \ fences
     /\ \A d \in fences' \ fences :
          d \in DOMAIN anchors /\ anchors[d].at + DeliveryTTL <= now
     /\ \A k \in DOMAIN effects \ DOMAIN effects' : ~Asserted(k)']_vars

-------------------------------------------------------------------------------
(* Refinement *)

Ledger == INSTANCE EvidenceLedger
            WITH live <- {accepted[id].rec : id \in DOMAIN accepted},
                 retired <- fences

\* Admission and retention, statement by statement, implement the ledger.
LedgerImplemented == Ledger!LedgerSpec

-------------------------------------------------------------------------------
(* Liveness *)

\* PostgreSQL and the event loop keep executing statements, and a statement that
\* waits for a lock is queued: the lock goes to its first waiter when it is
\* released, so a waiter cannot be overtaken for ever (strong fairness).  The
\* deadlock detector resolves cycles, the retention loop keeps waking up and the
\* clock advances.  Clients need not send anything.
Fairness ==
  /\ \A c \in Conns : SF_vars(AdmissionStep(c))
  /\ \A w \in Workers : WF_vars(Wake(w)) /\ SF_vars(RetentionStep(w))
  /\ \A p \in Procs : WF_vars(DeadlockVictim(p))
  /\ WF_vars(Tick)

FairSpec == Spec /\ Fairness

\* Every request is answered, whatever it waits for.
RequestsAnswered == \A c \in Conns : InFlight(c) ~> adm[c].pc = "done"

\* A Delivery whose terminal summary is old enough is retired.
AgedRetired ==
  \A d \in Deliveries :
    (d \in DOMAIN anchors /\ anchors[d].at + DeliveryTTL <= now)
      ~> d \in fences

\* Raw content old enough is scrubbed, or leaves with its Delivery.
RawScrubbed ==
  \A id \in Ids :
    (id \in DOMAIN accepted /\ accepted[id].at + RawTTL <= now)
      ~> (id \in DOMAIN accepted => ~accepted[id].raw)
===============================================================================
