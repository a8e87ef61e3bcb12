---------------------------- MODULE EvidenceService ----------------------------
(***************************************************************************)
(* The service end to end: exporters send requests, their records are      *)
(* validated, admitted and projected, a maintenance caller expires detail, *)
(* Deliveries are retired, and every state is one a query may answer from. *)
(***************************************************************************)
EXTENDS Ingest, FactShape

Init ==
  /\ now = 0
  /\ accepted = EmptyTable /\ effects = EmptyTable /\ anchors = EmptyTable
  /\ fences = {} /\ markers = EmptyTable
  /\ inbox \in Workloads
  /\ export = [c \in Exporters |-> Quiet]
  /\ plan = NoPlan
  /\ faults = 0

Tick ==
  /\ now < MaxTime
  /\ now' = now + 1
  /\ UNCHANGED <<tables, inbox, export, plan, faults>>

Classes == {"TRACE_DETAIL", "FACTUAL_PROJECTION"}

Next ==
  \/ \E c \in Exporters :
       \/ \E q \in inbox : Receive(c, q)
       \/ AdmitNext(c) \/ AdmitRaises(c) \/ FailStore(c) \/ Conclude(c)
       \/ Answer(c) \/ LoseAnswer(c)
  \/ \E class \in Classes : PlanExpiry(class)
  \/ ApplyExpiry
  \/ \E d \in DOMAIN anchors : Retire(d)
  \/ Tick

Spec == Init /\ [][Next]_vars

-------------------------------------------------------------------------------

\* The type of the state: rows name live sources, slots and the plan are in
\* one of their states.
ServiceTypeOK ==
  /\ now \in 0..MaxTime /\ faults \in 0..MaxFaults
  /\ \A id \in DOMAIN accepted :
       accepted[id].rec.id = id /\ accepted[id].at \in 0..now
  /\ \A k \in DOMAIN effects :
       effects[k].src \in DOMAIN accepted /\ effects[k].at \in 0..now
  /\ \A d \in DOMAIN anchors : anchors[d] \in MembersOf(d)
  /\ \A c \in Exporters :
       /\ export[c].pc \in {"idle", "admit", "answer"}
       /\ export[c].status \in {0, 200, 400, 500}
       /\ export[c].rejected \in 0..Len(export[c].req.records)
  /\ plan = NoPlan \/ (plan.class \in Classes /\ plan.members # {})

-------------------------------------------------------------------------------
(* Requests *)

\* A request fails (500) only when the store failed under it, when it has a
\* bounded number that is not finite, or at a binding whose Manifest text makes
\* validation itself raise: whatever validation lets through has all that the
\* claim and the projection read (validate_record against project).
FailsOnlyOnFault ==
  \A c \in Exporters :
    export[c].status = 500 =>
      \/ export[c].failed
      \/ NotFinite(DecodeRequest(export[c].req))
      \/ RaisesAt(export[c])

\* The records of a request that the store holds or whose Delivery is retired.
Settled(q) ==
  {i \in DOMAIN q.records :
     LET l == Decode(q.records[i]) IN
     /\ Validates(l)
     /\ \/ l.id \in DOMAIN accepted /\ accepted[l.id].rec = Validated(l)
        \/ DeliveryOf(Validated(l)) \in fences}

\* A success that reports n rejected records means that the others are in the
\* store, or went with their Delivery; a request answered 400 left nothing in
\* it, so a client that drops it loses nothing and may correct it
\* (OtlpIngestor._ingest, whatever runs between two of its records).
AnswerTruthful ==
  \A c \in Exporters :
    /\ export[c].status = 200 =>
         Cardinality(Settled(export[c].req)) >=
           Len(export[c].req.records) - export[c].rejected
    /\ export[c].status = 400 => export[c].landed = {}
    /\ export[c].status = 200 => Cardinality(export[c].landed) <=
         Len(export[c].req.records) - export[c].rejected

-------------------------------------------------------------------------------
(* Rows and their tombstones *)

\* Every effect of every accepted record is in its row, or the row has expired:
\* records that come late for an expired row, retirement and the hand-over of
\* Task rows never leave a record with half of its projection.
ProjectionKept ==
  \A id \in DOMAIN accepted : \A i \in DOMAIN Project(accepted[id].rec) :
    LET e == Project(accepted[id].rec)[i]
        k == EffectKey(e)
    IN  e.op = "first_write" =>
          /\ k \in DOMAIN effects
          /\ \/ effects[k].payload = e.payload
             \/ k \in DOMAIN markers /\ effects[k].payload = EmptyPayload

\* A tombstone stands for a row that is there, empty and from the same source:
\* none is left behind that would hide a row written later under its key
\* (apply_expiry against apply_delivery_deletion).
TombstonesMatch ==
  \A k \in DOMAIN markers :
    /\ k \in DOMAIN effects
    /\ effects[k].src = markers[k].src /\ effects[k].at = markers[k].at
    /\ effects[k].payload = EmptyPayload

\* No row expires before its time, though a plan is applied later than it is
\* made and the age is not looked at again (plan_expiry, apply_expiry). It is
\* about records whose rows have one Delivery: a row that a second Delivery
\* reports again after a retirement is younger than a plan made before it.
ExpiredWhenDue == \A k \in DOMAIN markers : markers[k].expires <= now

-------------------------------------------------------------------------------
(* Answers to queries *)

\* The payload a row was written with.
Original(k) ==
  LET es == Project(SourceOf(k))
  IN  es[CHOOSE i \in DOMAIN es :
           es[i].op = "first_write" /\ EffectKey(es[i]) = k].payload

FamilyOf(k) == Get(SourceOf(k).attrs, "family_schema")

\* No row makes its page fail: the tombstone of a fact is one that ExpiryRecord
\* accepts, and an active row has all that shaping subscripts (read_expiry,
\* _fact_resource).  The tombstones of trace rows are never read: their rows
\* are not selected.
FactsServable ==
  \A k \in RowsOf(FactualKinds) :
    IF k \in DOMAIN markers
    THEN ExpiryRecordValid(k)
    ELSE ShapeReads(k[1]) \subseteq DOMAIN effects[k].payload

\* Every field a fact or a trace node shows is the attribute of that number in
\* the record the row came from, and no attribute its kind owns is missing
\* but the values of a summary that has none (_fields, _trace_resource).
FieldsFaithful ==
  \A k \in DOMAIN effects \ DOMAIN markers :
    LET r == SourceOf(k)
        shown == DOMAIN r.attrs \cap Registered
    IN
    /\ k[1] \in FactualKinds =>
         /\ \A field \in Fields(k, effects[k].payload) :
              LET name == NameOf(field[1])
              IN  name \in shown /\ r.attrs[name] = field[2]
         /\ \A name \in IF k[1] = "finding_assertion"
                        THEN InvariantNames \cup ActorNames \cup ArtifactNames
                        ELSE shown \cap OwnedNames(k[1]) :
              \/ <<FieldId(name), r.attrs[name]>> \in Fields(k, effects[k].payload)
              \/ /\ Get(r.attrs, "summary_state") \in {"NOT_APPLICABLE",
                                                       "UNAVAILABLE"}
                 /\ name \in IntegerNames \cup NumberNames
    /\ k[1] = "trace_node" =>
         NodeFields(effects[k].payload) =
           {<<FieldId(name), r.attrs[name]>> : name \in shown}

\* Expiry does not change what a fact may be aggregated with: the three tables
\* of dimensions agree (_projection_compatibility, _validate_compatibility,
\* _compatibility and _expired_compatibility).
CompatibilityKept ==
  \A k \in RowsOf(FactualKinds) \cap DOMAIN markers :
    ExpiredCompatibility(markers[k].compatibility) =
      Compatibility(k, Original(k), FamilyOf(k))

\* The relationships an active fact shows lead to rows that exist: a Finding,
\* its target or a Span (_relationships against require_ effects, retirement
\* and expiry, which empties rows and keeps them).
RelationshipsResolve ==
  \A k \in RowsOf(FactualKinds) \ DOMAIN markers :
    \A link \in Relationships(k, effects[k].payload, SourceOf(k)) :
      \A end \in {link[1], link[2]} :
        /\ end[1] = "FINDING" =>
             <<"finding_assertion">> \o Tail(end) \in DOMAIN effects
        /\ end[1] = "FINDING_TARGET" =>
             <<"finding_target">> \o Tail(end) \in DOMAIN effects
        /\ end[1] = "SPAN" => <<"trace_node">> \o Tail(end) \in DOMAIN effects

AcceptedRecords == {accepted[id].rec : id \in DOMAIN accepted}
SpansOf(t) == {r \in AcceptedRecords : r.type = "span" /\ r.trace = t}
Traces == {r.trace : r \in {q \in AcceptedRecords : q.trace # Null}}

\* The state of a trace says what became of its Spans: ABSENT if none was
\* accepted, EXPIRED if all their rows have expired (so that the cursor traces()
\* withholds would lead nowhere), AVAILABLE if none has.
TraceStateTruthful ==
  \A t \in Traces :
    LET nodes == {<<"trace_node", t, r.span>> : r \in SpansOf(t)}
        state == TraceState({t})
    IN
    /\ state = "ABSENT" <=> nodes = {}
    /\ state \in {"ABSENT", "EXPIRED"} => TracePage({t}) = {}
    /\ state = "AVAILABLE" => nodes \subseteq TracePage({t})
    /\ state = "EXPIRED" => nodes \subseteq DOMAIN markers

\* The Manifest route never finds a stored Manifest inconsistent
\* (_parse_closed_manifest_projection against QueryService.manifest).
ManifestsIntact ==
  \A k \in RowsOf({"delivery_manifest"}) : ManifestIntact(k, effects[k].payload)

\* Expiry moves no row in or out of what a trace or Delivery filter selects:
\* the tombstones keep what the filters need (_add_filter).
FiltersStable ==
  [][ accepted' = accepted =>
        /\ \A t \in Traces :
             FactsOfTraces({t})' = FactsOfTraces({t})
        /\ \A d \in {DeliveryOf(r) : r \in AcceptedRecords} :
             /\ RootTraces(d)' = RootTraces(d)
             /\ FactsOfTraces(RootTraces(d))' = FactsOfTraces(RootTraces(d)) ]_vars
===============================================================================
