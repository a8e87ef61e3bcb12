------------------------- MODULE EvidenceRowInvariants -------------------------
(***************************************************************************)
(* The inductive invariant behind FirstWriteWins, NothingLingers,          *)
(* NothingRefused, PlannedStillDue and, for records that share no rows but *)
(* those of a Task, ProjectionComplete and DeletesOnlyThatDelivery.  It    *)
(* says which lock protects each effect row: the lock of the one Delivery  *)
(* whose records mention it, or the lock of the Task.                      *)
(***************************************************************************)
EXTENDS EvidenceInvariants

TaskKinds == {"task_declaration", "task_display_name"}

\* Record r writes or requires the row k; it writes it.
Mentions(r, k) == \E e \in EffectsOf(r) : EffectKey(e) = k
Asserts(r, k) ==
  \E e \in EffectsOf(r) : e.op = "first_write" /\ EffectKey(e) = k

\* Only the records of one Delivery, or of none, mention the row.
Local(k) ==
  \A r, q \in Records :
    Mentions(r, k) /\ Mentions(q, k) => DeliveryOf(r) = DeliveryOf(q)

\* Deliveries have no rows in common but those of their Task: no Finding, trace
\* or Manifest is reported in two of them.
SharesOnlyTasks ==
  \A r \in Records : \A e \in EffectsOf(r) :
    e.kind \in TaskKinds \/ Local(EffectKey(e))

\* The row is protected by an advisory lock.
Guarded(k) == k[1] \in TaskKinds \/ Local(k)

\* The payload found has what effect e says.
Agrees(e, found) ==
  IF e.op = "require"
  THEN \A name \in DOMAIN e.payload : Get(found, name) = e.payload[name]
  ELSE found = e.payload

\* The accepted record id binds its Delivery to Task t.
BindsTask(id, t) ==
  IsBinding(accepted[id].rec) /\ accepted[id].rec.attrs.task_id = t

-------------------------------------------------------------------------------
(* Admissions *)

\* The effects are applied from the first on, and the rows an admission has
\* written are its own: first writes, one for each key, and not in the table.
WrittenOwn(c) ==
  /\ adm[c].idx >= 1
  /\ adm[c].pc \notin {"apply", "compare"} => adm[c].idx = 1
  /\ \A i \in adm[c].wrote : Project(adm[c].rec)[i].op = "first_write"
  /\ \A i, j \in adm[c].wrote :
       EffectKey(Project(adm[c].rec)[i]) = EffectKey(Project(adm[c].rec)[j])
         => i = j
  /\ Written(c) \cap DOMAIN effects = {}

\* An INSERT waits for the other writer of the same row.
WrittenApart ==
  \A c, e \in Conns : c # e => Written(c) \cap Written(e) = {}

\* A binding is admitted under its Task's lock.
BindingLocked(c) ==
  IsBinding(adm[c].rec)
    /\ adm[c].pc \in {"claim", "compare_identity", "apply", "compare"} =>
    TaskLock(adm[c].rec.attrs.task_id) \in holds[c]

\* The effects applied so far still hold in the transaction's view, if an
\* advisory lock protects their rows.
AppliedHolds(c) ==
  adm[c].pc \in {"apply", "compare"} =>
    \A i \in DOMAIN Project(adm[c].rec) :
      i < adm[c].idx =>
        LET e == Project(adm[c].rec)[i]
            k == EffectKey(e)
        IN  (Sees(c, k) /\ Agrees(e, Seen(c, k))) \/ ~Guarded(k)

-------------------------------------------------------------------------------
(* Iterations *)

\* The Deliveries whose effect rows the iteration has deleted.
Emptied(w) == wk[w].pc \in {"delete_markers", "delete_records"}
Doomed(w) == wk[w].fenced \cup (IF Emptied(w) THEN {Retiring(w)} ELSE {})

\* The Deliveries it is deleting are due, and have left its batch.
DueStill(w) ==
  /\ wk[w].at <= now
  /\ wk[w].pc \in {"sleep", "plan_expiry", "scrub", "plan_deletion"} =>
       wk[w].fenced = {}
  /\ wk[w].fenced \cap wk[w].batch = {}
  /\ \A d \in wk[w].fenced : anchors[d].at + DeliveryTTL <= wk[w].at

\* Only Task rows are moved, to a binding of the Task and under its lock.
MovedOwned(w) ==
  \A m \in wk[w].moved :
    /\ m[1][1] \in TaskKinds
    /\ BindsTask(m[2], m[1][2])
    /\ TaskLock(m[1][2]) \in holds[w]

\* A dropped row is there until COMMIT.  It belonged to one of the Deliveries
\* being deleted; if it is a Task's, the Task's lock is held and all Deliveries
\* in the Task are being deleted.
DroppedOwned(w) ==
  \A k \in wk[w].dropped :
    /\ k \in DOMAIN effects
    /\ k[1] \notin TaskKinds =>
         DeliveryOf(accepted[effects[k].src].rec) \in Doomed(w)
    /\ k[1] \in TaskKinds =>
         /\ TaskLock(k[2]) \in holds[w]
         /\ \A id \in DOMAIN accepted :
              BindsTask(id, k[2]) => DeliveryOf(accepted[id].rec) \in Doomed(w)

\* The lock of the retiring Delivery's Task is the one asked for, and is held
\* from then on.
TaskLocked(w) ==
  Destroying(w) =>
    \A id \in MembersOf(Retiring(w)) :
      IsBinding(accepted[id].rec) =>
        LET t == accepted[id].rec.attrs.task_id IN
        /\ wk[w].pc \in {"task_lock", "preserve"} => wk[w].task = t
        /\ wk[w].pc # "task_lock" => TaskLock(t) \in holds[w]

\* Past _preserve_referenced_task the Delivery owns a Task row only if no other
\* Delivery remains in the Task; past the DELETE it owns no row.
RetiringOwns(w) ==
  /\ wk[w].pc = "delete_effects" =>
       \A k \in OwnedBy(w, Retiring(w)) : \A id \in DOMAIN accepted :
         k[1] \in TaskKinds /\ BindsTask(id, k[2]) =>
           DeliveryOf(accepted[id].rec) \in wk[w].fenced \cup {Retiring(w)}
  /\ Emptied(w) => OwnedBy(w, Retiring(w)) = {}

-------------------------------------------------------------------------------
(* Tables *)

\* The source of a Task row binds its Delivery to the Task; the source of any
\* other row asserts it.
Owns(id, k) ==
  IF k[1] \in TaskKinds THEN BindsTask(id, k[2])
                        ELSE Asserts(accepted[id].rec, k)
SourceOwns == \A k \in DOMAIN effects : Owns(effects[k].src, k)

\* What a live record says is in the store, as far as locks protect it.
GuardedComplete ==
  \A id \in DOMAIN accepted : \A e \in EffectsOf(accepted[id].rec) :
    Holds(e) \/ ~Guarded(EffectKey(e))

\* The conjunction that every step preserves, beside Inductive.
RowsInductive ==
  /\ \A c \in Conns : WrittenOwn(c) /\ BindingLocked(c) /\ AppliedHolds(c)
  /\ WrittenApart
  /\ \A w \in Workers :
       /\ DueStill(w) /\ MovedOwned(w) /\ DroppedOwned(w)
       /\ TaskLocked(w) /\ RetiringOwns(w)
  /\ SourceOwns
  /\ GuardedComplete
  /\ PlannedStillDue

-------------------------------------------------------------------------------
(* Raw markers *)

\* The Deliveries whose members' markers an iteration has deleted.
Unmarking(w) ==
  wk[w].fenced \cup (IF wk[w].pc = "delete_records" THEN {Retiring(w)} ELSE {})

\* What a scrub marked is in the store, and a deletion removes exactly the
\* markers of the Deliveries it got to.
MarksOwned(w) ==
  /\ wk[w].pc \in {"plan_expiry", "scrub"} => wk[w].fenced = {}
  /\ wk[w].marked \subseteq DOMAIN accepted
  /\ wk[w].unmarked =
       {id \in markers : DeliveryOf(accepted[id].rec) \in Unmarking(w)}

\* The conjunction that every step preserves where one worker runs: another's
\* scrub could mark a member between the deletion of the markers and that of
\* the members.
MarksInductive ==
  /\ ScrubMarked
  /\ \A w \in Workers : MarksOwned(w)
===============================================================================
