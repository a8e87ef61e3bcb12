--------------------------- MODULE ServiceInvariants ---------------------------
(***************************************************************************)
(* The inductive invariant behind ServiceTypeOK, FailsOnlyOnFault,         *)
(* AnswerTruthful, TombstonesMatch and ManifestsIntact: what a request has *)
(* settled so far, and whose rows and tombstones a retirement takes.       *)
(***************************************************************************)
EXTENDS EvidenceService

\* What validation makes sure of in a record.
WellFormed(r) ==
  /\ r.links \in Seq({r.links[j] : j \in DOMAIN r.links})
  /\ IsEvent(r, "task.binding") =>
       r.profile = 2 /\ ParseClosedManifestProjection(r.attrs)
  /\ r.profile = 2 => r.attrs.delivery_id \in Nat

-------------------------------------------------------------------------------
(* Requests *)

\* The records of the request before the next one that are settled, and those
\* that were rejected, are all of them; only the others can have landed.
Accounted(c) ==
  LET slot == export[c]
      done == 1..(slot.i - 1)
  IN  /\ slot.i \in 1..(Len(slot.req.records) + 1)
      /\ slot.rejected \in 0..(slot.i - 1)
      /\ Cardinality(Settled(slot.req) \cap done) + slot.rejected >= slot.i - 1
      /\ IsFiniteSet(slot.landed)
      /\ slot.status # 500 =>
           Cardinality(slot.landed) + slot.rejected <= slot.i - 1

\* A request that succeeds has been through all its records, and one that is
\* refused has put none in the store.
StatusEarned(c) ==
  LET slot == export[c] IN
  /\ slot.pc \in {"idle", "admit"} => slot.status = 0
  /\ slot.status = 200 => slot.i = Len(slot.req.records) + 1
  /\ slot.status = 400 => slot.landed = {}
  /\ slot.status = 500 => \/ slot.failed
                         \/ NotFinite(DecodeRequest(slot.req))
                         \/ RaisesAt(slot)

Slot(pc, req, i, rejected, status, landed, failed) ==
  [pc |-> pc, req |-> req, i |-> i, rejected |-> rejected, status |-> status,
   landed |-> landed, failed |-> failed]

SlotOK(c) ==
  /\ export[c] = Slot(export[c].pc, export[c].req, export[c].i,
                     export[c].rejected, export[c].status, export[c].landed,
                     export[c].failed)
  /\ export[c].pc \in {"idle", "admit", "answer"}
  /\ export[c].status \in {0, 200, 400, 500}
  /\ IsRequest(export[c].req)
  /\ Accounted(c) /\ StatusEarned(c)

-------------------------------------------------------------------------------
(* Rows *)

RecordOK(id) ==
  /\ accepted[id].rec.id = id /\ accepted[id].at \in 0..now
  /\ WellFormed(accepted[id].rec)

\* A membership row comes from a record of the Delivery it names, so that the
\* heir of a Task's rows is never of the Delivery that is retired.
RowOK(k) ==
  /\ effects[k] = [payload |-> effects[k].payload, src |-> effects[k].src,
                   at |-> effects[k].at]
  /\ effects[k].src \in DOMAIN accepted /\ effects[k].at \in 0..now
  /\ k[1] = "delivery_task_membership" =>
       k[3] \in Nat /\ k[3] = DeliveryOf(SourceOf(k))

\* Only detail expires: never a Manifest, nor the rows of a Task.
Expirable == TraceKinds \cup FactualKinds

TablesOK ==
  /\ \A id \in DOMAIN accepted : RecordOK(id)
  /\ \A k \in DOMAIN effects : RowOK(k)
  /\ \A d \in DOMAIN anchors : anchors[d] \in MembersOf(d)
  /\ TombstonesMatch /\ ManifestsIntact

PlanOK ==
  /\ plan = NoPlan \/ (plan.class \in Classes /\ plan.members # {})
  /\ \A k \in plan.members : k[1] \in Expirable

\* Every request in flight has settled or counted as rejected the records it
\* has been through, whoever else admits, expires or retires between two of
\* them (_ingest); every row, anchor and tombstone has its source, and the heir
\* of a Task's rows outlives the Delivery that is retired.
ServiceInductive ==
  /\ now \in 0..MaxTime /\ faults \in 0..MaxFaults
  /\ \A q \in inbox : IsRequest(q)
  /\ export = [c \in Exporters |-> export[c]]
  /\ \A c \in Exporters : SlotOK(c)
  /\ TablesOK
  /\ PlanOK
===============================================================================
