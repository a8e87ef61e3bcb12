-------------------------------- MODULE Ingest --------------------------------
(***************************************************************************)
(* OTLP/HTTP ingestion (src/wsr_evidence/transport/otlp.py): an export     *)
(* request is decoded, checked as a whole, its records are admitted one    *)
(* transaction after the other, and one answer counts those rejected.      *)
(*                                                                         *)
(* A request is [content |-> its content type is the right one,            *)
(*   wire |-> it parses and is within the byte limit,                      *)
(*   records |-> the sequence of its items].                               *)
(* An item is a logical record with one more field, carrier: the set of    *)
(* what OTLP allows in it and the Profile does not.                        *)
(***************************************************************************)
EXTENDS ServiceStore

\* BOUNDED_CARDINALITY_FIELDS
BoundedNames ==
  {"workflow_id", "workflow_version", "implementation_id", "runtime_id",
   "review_scope", "review_total", "review_observed_count",
   "observed_loop_count", "observed_intervention_count", "usage_unit",
   "usage_source_id", "usage_value", "finding_summary",
   "delivery_elapsed_time_ms", "delivery_stage_reached", "model_id",
   "test_passed", "test_failed", "test_skipped", "test_duration_seconds",
   "coverage_covered", "coverage_total", "coverage_tool_id", "coverage_format",
   "fresh_reader_finding_count", "verification_check_passed",
   "verification_check_failed"}

-------------------------------------------------------------------------------
(* Decoding *)

\* Carrier faults after which no attribute is decoded; the others are dropped
\* attributes, scope attributes, a body, Span events, a status message, dropped
\* or attributed links, an unknown kind or status.
AttributeFaults == {"duplicate_attribute", "structured_value"}

Decode(item) ==
  LET attrs == IF item.carrier \cap AttributeFaults = {} THEN item.attrs
                                                         ELSE EmptyPayload
  IN  [type |-> item.type, profile |-> item.profile, name |-> item.name,
       id |-> item.id, attrs |-> attrs, trace |-> item.trace,
       span |-> item.span, parent |-> item.parent, links |-> item.links,
       detail |-> item.detail, kind |-> item.kind,
       bad |-> item.bad \cap DOMAIN attrs, nan |-> item.nan \cap DOMAIN attrs,
       defects |-> IF item.carrier = {} THEN item.defects
                                        ELSE item.defects \cup {"carrier"}]

DecodeRequest(q) == [i \in DOMAIN q.records |-> Decode(q.records[i])]

-------------------------------------------------------------------------------
(* The request as a whole *)

Elements(ls) == {ls[i] : i \in DOMAIN ls}

Homogeneous(ls) ==
  LET schemas == {Get(l.attrs, "family_schema") :
                    l \in {m \in Elements(ls) : "family_schema" \in DOMAIN m.attrs}}
  IN  /\ Cardinality({l.profile : l \in Elements(ls)}) <= 1
      /\ Cardinality(schemas) <= 1

Having(ls, name) == {l \in Elements(ls) : name \in DOMAIN l.attrs}

\* canonical_bytes raises a ValueError for a number that is not finite.
NotFinite(ls) ==
  \E name \in BoundedNames : \E l \in Having(ls, name) : name \in l.nan

OverBudget(ls) ==
  \E name \in BoundedNames :
    /\ \A l \in Having(ls, name) : name \notin l.nan
    /\ Cardinality({l.attrs[name] : l \in Having(ls, name)}) > MaxValues

\* The answers a request may get before any of its records is admitted: none
\* when it passes.  The attributes are visited in no particular order, so one
\* over budget and one that is not finite race.
EarlyStatus(q) ==
  LET ls == DecodeRequest(q) IN
  IF ~q.content \/ ~q.wire \/ Len(q.records) > MaxRecords \/ ~Homogeneous(ls)
  THEN {400}
  ELSE (IF OverBudget(ls) THEN {400} ELSE {})
         \cup (IF NotFinite(ls) THEN {500} ELSE {})

-------------------------------------------------------------------------------
(* Serving a request *)

NoRequest == [content |-> FALSE, wire |-> FALSE, records |-> << >>]

\* i is the next record to admit; landed has the records the request has put
\* into the store and failed says that the store failed under it: the two are
\* history, which the program does not keep.
Quiet == [pc |-> "idle", req |-> NoRequest, i |-> 1, rejected |-> 0,
          status |-> 0, landed |-> {}, failed |-> FALSE]

IngestUnchanged == UNCHANGED <<now, plan>>

Receive(c, q) ==
  /\ export[c].pc = "idle"
  /\ \A e \in Exporters : export[e].req # q
  /\ IF EarlyStatus(q) = {}
     THEN export' = [export EXCEPT ![c] = [Quiet EXCEPT !.pc = "admit", !.req = q]]
     ELSE \E status \in EarlyStatus(q) :
            export' = [export EXCEPT ![c] = [Quiet EXCEPT !.pc = "answer",
                                                          !.req = q,
                                                          !.status = status]]
  /\ UNCHANGED <<tables, inbox, faults>>
  /\ IngestUnchanged

\* Mutant: a conflict is taken for a duplicate.
CountedNoConflict(slot, result, l) ==
  [slot EXCEPT
     !.i = @ + 1,
     !.rejected = IF result \in {"invalid", "rejected"} THEN @ + 1 ELSE @,
     !.landed = IF result = "accepted" THEN @ \cup {Validated(l)} ELSE @]

\* The slot after record l has been admitted with a result.
Counted(slot, result, l) ==
  [slot EXCEPT
     !.i = @ + 1,
     !.rejected = IF result \in {"invalid", "conflict", "rejected"}
                  THEN @ + 1 ELSE @,
     !.landed = IF result = "accepted" THEN @ \cup {Validated(l)} ELSE @]

\* The next record of a request makes validation raise.
RaisesAt(slot) ==
  /\ slot.i \in DOMAIN slot.req.records
  /\ ValidationRaises(DecodeRequest(slot.req)[slot.i])

\* One turn of the loop of _ingest.  An exception other than a ValidationError
\* leaves it, and the request fails.
AdmitNext(c) ==
  LET l == DecodeRequest(export[c].req)[export[c].i] IN
  /\ export[c].pc = "admit"
  /\ export[c].i \in DOMAIN export[c].req.records
  /\ ~RaisesAt(export[c])
  /\ IF ~Validates(l)
     THEN /\ export' = [export EXCEPT ![c] = Counted(@, "invalid", l)]
          /\ UNCHANGED tables
     ELSE IF Disposition(Validated(l)) = "error"
     THEN /\ export' = [export EXCEPT ![c].pc = "answer", ![c].status = 500]
          /\ UNCHANGED tables
     ELSE /\ export' = [export EXCEPT ![c] =
                          Counted(@, Disposition(Validated(l)), l)]
          /\ Transact(Validated(l))
  /\ UNCHANGED <<inbox, faults>>
  /\ IngestUnchanged

\* A turn of the loop that validation leaves with such an exception.
AdmitRaises(c) ==
  /\ export[c].pc = "admit"
  /\ RaisesAt(export[c])
  /\ export' = [export EXCEPT ![c].pc = "answer", ![c].status = 500]
  /\ UNCHANGED <<tables, inbox, faults>>
  /\ IngestUnchanged

\* The slot after the store has failed under record l, committed or not.
Broken(slot, committed, l) ==
  [slot EXCEPT
     !.pc = "answer", !.status = 500, !.failed = TRUE,
     !.landed = IF committed /\ Disposition(Validated(l)) = "accepted"
                THEN @ \cup {Validated(l)} ELSE @]

\* The store fails under the transaction of a record, before its COMMIT or
\* after it.
FailStore(c) ==
  LET l == DecodeRequest(export[c].req)[export[c].i] IN
  /\ export[c].pc = "admit"
  /\ export[c].i \in DOMAIN export[c].req.records
  /\ Validates(l) /\ Disposition(Validated(l)) # "error"
  /\ faults < MaxFaults
  /\ faults' = faults + 1
  /\ \E committed \in BOOLEAN :
       /\ IF committed THEN Transact(Validated(l)) ELSE UNCHANGED tables
       /\ export' = [export EXCEPT ![c] = Broken(@, committed, l)]
  /\ UNCHANGED inbox
  /\ IngestUnchanged

\* An empty request is a success.
OutcomeStatus(slot) ==
  IF slot.req.records # << >> /\ slot.rejected = Len(slot.req.records)
  THEN 400 ELSE 200

Conclude(c) ==
  /\ export[c].pc = "admit"
  /\ export[c].i \notin DOMAIN export[c].req.records
  /\ export' = [export EXCEPT ![c].pc = "answer",
                              ![c].status = OutcomeStatus(export[c])]
  /\ UNCHANGED <<tables, inbox, faults>>
  /\ IngestUnchanged

\* The answer arrives: an exporter may send a request that failed again.
Answer(c) ==
  /\ export[c].pc = "answer"
  /\ export' = [export EXCEPT ![c] = Quiet]
  /\ \/ inbox' = inbox \ {export[c].req}
     \/ export[c].status = 500 /\ UNCHANGED inbox
  /\ UNCHANGED <<tables, faults>>
  /\ IngestUnchanged

\* The answer is lost, and the exporter sends the request again.
LoseAnswer(c) ==
  /\ export[c].pc = "answer"
  /\ faults < MaxFaults
  /\ faults' = faults + 1
  /\ export' = [export EXCEPT ![c] = Quiet]
  /\ UNCHANGED <<tables, inbox>>
  /\ IngestUnchanged
===============================================================================
