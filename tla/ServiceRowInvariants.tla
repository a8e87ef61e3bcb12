------------------------- MODULE ServiceRowInvariants -------------------------
(***************************************************************************)
(* The inductive invariants behind the properties of rows and of the       *)
(* answers made of them: a row of detail says what its source says, before *)
(* and after it expires; and, for records that share no rows but those of  *)
(* a Task, a record's rows are there as long as the record is.             *)
(***************************************************************************)
EXTENDS ServiceInvariants

EffectsOf(r) == {Project(r)[i] : i \in DOMAIN Project(r)}

\* The effects of record r that write row k.
Writes(r, k) == {e \in EffectsOf(r) : e.op = "first_write" /\ EffectKey(e) = k}

\* The valid records of a workload.
RecordsIn(workload) ==
  {Validated(Decode(item)) :
     item \in {i \in ItemsOf(workload) : Validates(Decode(i))}}

\* What is on its way or in the store comes from the workload.
SentFrom(workload) ==
  /\ inbox \subseteq workload
  /\ \A c \in Exporters : export[c].req \in workload \cup {NoRequest}
  /\ \A id \in DOMAIN accepted : accepted[id].rec \in RecordsIn(workload)

-------------------------------------------------------------------------------
(* Rows of detail *)

\* The row has the payload its source wrote, or its tombstone was made of it.
Told(k) ==
  /\ Writes(SourceOf(k), k) # {}
  /\ \A e \in Writes(SourceOf(k), k) :
       IF k \in DOMAIN markers
       THEN markers[k].compatibility =
              ProjectionCompatibility(k, e.payload, FamilyOf(k))
       ELSE effects[k].payload = e.payload

\* The node of an accepted Span is its own.
NodeKept(id) ==
  accepted[id].rec.type = "span" =>
    LET k == <<"trace_node", accepted[id].rec.trace, accepted[id].rec.span>>
    IN  k \in DOMAIN effects /\ effects[k].src = id

\* Only rows that an ExpiryOwner accepts are planned or have expired.
OwnersValid ==
  \A k \in DOMAIN markers \cup plan.members :
    k[1] \in Expirable /\ ValidateExpiryOwner(k)

\* A row of detail, or its tombstone, is what its source record makes it,
\* through every order of admission, expiry and retirement (apply_effects,
\* apply_expiry, apply_delivery_deletion).
DetailInductive ==
  /\ \E workload \in Workloads : SentFrom(workload)
  /\ \A k \in RowsOf(Expirable) : Told(k)
  /\ \A id \in DOMAIN accepted : NodeKept(id)
  /\ OwnersValid

-------------------------------------------------------------------------------
(* Rows that one Delivery has *)

TaskKinds == {"task_declaration", "task_display_name"}

Mentions(r, k) == \E e \in EffectsOf(r) : EffectKey(e) = k

\* Deliveries have no rows in common but those of their Task: no Finding, trace
\* or Manifest is reported in two of them.
SharesOnlyTasks ==
  \A workload \in Workloads : \A r, q \in RecordsIn(workload) :
    \A e \in EffectsOf(r) :
      Mentions(q, EffectKey(e)) =>
        e.kind \in TaskKinds \/ DeliveryOf(r) = DeliveryOf(q)

\* The source of a Task's row is a binding to the Task, and that of any other
\* row writes it.
SourceOwns(k) ==
  IF k[1] \in TaskKinds
  THEN IsBinding(SourceOf(k)) /\ SourceOf(k).attrs.task_id = k[2]
  ELSE Writes(SourceOf(k), k) # {}

\* What an accepted record refers to is there.
RequiredKept ==
  \A id \in DOMAIN accepted : \A e \in EffectsOf(accepted[id].rec) :
    EffectKey(e) \in DOMAIN effects

\* A row that was due when the plan was made is due or gone for good.
PlanDue(workload) ==
  \A k \in plan.members :
    IF k \in DOMAIN effects
    THEN effects[k].at + TTL(plan.class) <= now
    ELSE \A r \in RecordsIn(workload) :
           Writes(r, k) # {} => DeliveryOf(r) \in fences

\* Every row has an owner, and every record what it wrote and refers to.
RowsKept(workload) ==
  /\ PlanDue(workload)
  /\ \A k \in DOMAIN effects : SourceOwns(k)
  /\ RequiredKept /\ ProjectionKept
  /\ ExpiredWhenDue /\ \A k \in DOMAIN markers : markers[k].expires \in Nat

\* A record has all of its rows as long as it is in the store: a retirement
\* takes no row that a record of another Delivery has a part in, and a row is
\* not written anew under a plan that was made for its predecessor
\* (_preserve_referenced_task, apply_delivery_deletion, apply_expiry).
KeptInductive ==
  \E workload \in Workloads : SentFrom(workload) /\ RowsKept(workload)
===============================================================================
