----------------------------- MODULE EvidenceStore -----------------------------
(***************************************************************************)
(* The tables of the PostgreSQL database, the transactions in flight on    *)
(* it, and the part of PostgreSQL's behaviour the program relies on: READ  *)
(* COMMITTED visibility, transaction-scoped advisory locks, row locks, the *)
(* wait of an INSERT for a concurrent writer of the same key, and the      *)
(* deadlock detector.                                                      *)
(*                                                                         *)
(* The tables hold committed rows only.  What a transaction has written    *)
(* and not yet committed is in its own record: adm[c] for the admission    *)
(* running on connection c, wk[w] for retention worker w.                  *)
(***************************************************************************)
EXTENDS Projection, Tables, FiniteSets

CONSTANTS
  Records,      \* the validated records clients may send
  Conns,        \* pooled connections serving admissions
  Workers,      \* retention loops, one per service process
  RawTTL,       \* raw_debug_ttl
  DeliveryTTL,  \* delivery_ttl
  NeverDelete,  \* delivery_ttl is None: Deliveries are never deleted
  BatchSize,    \* batch_size, the LIMIT of both plans
  Oversized,    \* identities whose key has a string over 256 UTF-8 bytes
  MaxTime,      \* bound: clock ticks
  MaxSends,     \* bound: requests clients send
  MaxFaults     \* bound: lost connections, crashes, lost replies

ASSUME ProcsAssumption == Conns \cap Workers = {}

ASSUME BoundsAssumption ==
  /\ RawTTL \in Nat /\ DeliveryTTL \in Nat /\ NeverDelete \in BOOLEAN
  /\ BatchSize \in Nat \ {0}
  /\ MaxTime \in Nat /\ MaxSends \in Nat /\ MaxFaults \in Nat

Ids == {r.id : r \in Records}
Deliveries == {DeliveryOf(r) : r \in Records} \ {NoDelivery}
Procs == Conns \cup Workers

\* Identities and Deliveries are ranks.  The identity of a span is its (trace,
\* span) coordinates; task.binding is an event of Profile 2, and validation makes
\* its event id a function of its Delivery.
ASSUME RecordsAssumption ==
  /\ Records # {}
  /\ \A r \in Records :
       /\ r.id \in Nat /\ DeliveryOf(r) \in Nat
       /\ r.profile = 2 => DeliveryOf(r) # NoDelivery
       /\ IsEvent(r, "task.binding") => r.profile = 2
       /\ r.links \in Seq({r.links[i] : i \in DOMAIN r.links})
  /\ \A r, q \in Records :
       r.type = "span" =>
         (r.id = q.id <=> q.type = "span" /\ r.trace = q.trace
                                          /\ r.span = q.span)
  /\ \A r, q \in Records :
       IsBinding(r) /\ IsBinding(q) =>
         (r.id = q.id <=> DeliveryOf(r) = DeliveryOf(q))

VARIABLES
  now,       \* the clock
  accepted,  \* accepted_records, with the Delivery membership of each row
  effects,   \* projection_effects
  anchors,   \* delivery_terminal_anchors
  fences,    \* delivery_retirement_fences
  markers,   \* retention_expiry_markers of class RAW_DEBUG
  holds,     \* the advisory locks each process holds
  adm,       \* the admission on each connection
  wk,        \* the iteration of each retention worker
  sent,      \* requests sent so far
  faults     \* faults so far

tables == <<accepted, effects, anchors, fences, markers>>
vars == <<now, accepted, effects, anchors, fences, markers, holds, adm, wk,
          sent, faults>>

-------------------------------------------------------------------------------
(* Transactions *)

\* An admission.  at is the transaction's CURRENT_TIMESTAMP; claimed says that
\* the accepted row is inserted; idx is the next effect of Project(rec) to
\* apply; wrote has the indices of the effects whose rows are inserted; locked
\* has the effect rows locked FOR UPDATE; res is the answer.
Idle ==
  [pc |-> "idle", rec |-> CHOOSE r \in Records : TRUE, at |-> 0,
   claimed |-> FALSE, idx |-> 1, wrote |-> {}, locked |-> {}, res |-> "none"]

\* A worker.  at is the clock read at the start of the iteration; raws and
\* batch are what is left of the two planned batches; the other fields are the
\* uncommitted changes: raw records marked and scrubbed, pairs of an effect and
\* its new source, effects deleted, markers deleted, accepted rows deleted and
\* fences inserted.
Asleep ==
  [pc |-> "sleep", at |-> 0, raws |-> {}, batch |-> {}, task |-> Null,
   marked |-> {}, moved |-> {}, dropped |-> {}, unmarked |-> {},
   gone |-> {}, fenced |-> {}]

InFlight(p) == IF p \in Conns THEN adm[p].pc \notin {"idle", "done"}
                              ELSE wk[p].pc # "sleep"

\* The effect an admission applies next.
Current(c) == Project(adm[c].rec)[adm[c].idx]
CurrentKey(c) == EffectKey(Current(c))

\* The effect rows an admission has inserted, with their payloads.
Written(c) == {EffectKey(Project(adm[c].rec)[i]) : i \in adm[c].wrote}
PayloadWritten(c, k) ==
  Project(adm[c].rec)[CHOOSE i \in adm[c].wrote :
                        EffectKey(Project(adm[c].rec)[i]) = k].payload

\* The effects a worker has re-sourced, and the accepted rows they refer to now.
MovedKeys(w) == {m[1] : m \in wk[w].moved}
MovedTo(w) == {m[2] : m \in wk[w].moved}

\* The rows of projection_effects as the worker's own transaction sees them.
View(w) ==
  [k \in DOMAIN effects \ wk[w].dropped |->
     [payload |-> effects[k].payload,
      src |-> IF k \in MovedKeys(w)
              THEN (CHOOSE m \in wk[w].moved : m[1] = k)[2]
              ELSE effects[k].src]]

\* The accepted rows that are members of a Delivery.
MembersOf(d) == {id \in DOMAIN accepted : DeliveryOf(accepted[id].rec) = d}

\* The effect rows whose source is a member of the Delivery.
OwnedBy(w, d) == {k \in DOMAIN View(w) : View(w)[k].src \in MembersOf(d)}

-------------------------------------------------------------------------------
(* Locks *)

DeliveryLock(d) == <<"delivery", d>>
TaskLock(t) == <<"task", t>>
RawLock(id) == <<"RAW_DEBUG", id>>

Holders(lock) == {q \in Procs : lock \in holds[q]}

Acquire(p, lock) ==
  /\ Holders(lock) \subseteq {p}
  /\ holds' = [holds EXCEPT ![p] = @ \cup {lock}]

Release(p) == holds' = [holds EXCEPT ![p] = {}]

\* An INSERT waits for a transaction that has inserted, updated or deleted a
\* row with the same key; a row lock alone does not stop it.
WritersOfEffect(k) ==
  {c \in Conns : k \in Written(c)}
    \cup {w \in Workers : k \in wk[w].dropped \cup MovedKeys(w)}
WritersOfRecord(id) ==
  {c \in Conns : adm[c].claimed /\ adm[c].rec.id = id}
    \cup {w \in Workers : id \in wk[w].gone \cup wk[w].marked}

\* SELECT FOR UPDATE, UPDATE and DELETE wait for row locks too, but only on
\* rows they see: another transaction's uncommitted INSERT is not one.  An
\* UPDATE of a foreign key locks the row it refers to FOR KEY SHARE.
LockersOfEffect(k) ==
  IF k \in DOMAIN effects
  THEN WritersOfEffect(k) \cup {c \in Conns : k \in adm[c].locked}
  ELSE {}
LockersOfRecord(id) ==
  IF id \in DOMAIN accepted
  THEN WritersOfRecord(id) \cup {w \in Workers : id \in MovedTo(w)}
  ELSE {}

\* The first n elements in ascending order: ORDER BY ... LIMIT n.
FirstOf(S, n) == {x \in S : Cardinality({y \in S : y < x}) < n}

\* _preserve_referenced_task: the rows of the Task that the retiring Delivery
\* owns, the other Deliveries in the Task, and the record of the first of them.
TaskKeys(t) == {<<"task_declaration", t>>, <<"task_display_name", t>>}
\* Mutant: every row of the Delivery is preserved, not the Task's alone.
PreservedAll(w, d, t) == OwnedBy(w, d)

Preserved(w, d, t) == TaskKeys(t) \cap OwnedBy(w, d)
\* Mutant: the retiring Delivery counts as another one.
OtherMembersAll(w, d, t) ==
  {e \in Deliveries : <<"delivery_task_membership", t, e>> \in DOMAIN View(w)}

OtherMembers(w, d, t) ==
  {e \in Deliveries \ {d} :
     <<"delivery_task_membership", t, e>> \in DOMAIN View(w)}
Heir(w, d, t) ==
  View(w)[<<"delivery_task_membership", t, MinOf(OtherMembers(w, d, t))>>].src

\* The transactions that the statement process p is about to execute must wait
\* for.
Blockers(p) ==
  (IF p \in Conns
   THEN LET tx == adm[p] IN
        CASE tx.pc = "delivery_lock" -> Holders(DeliveryLock(DeliveryOf(tx.rec)))
          [] tx.pc = "task_lock" -> Holders(TaskLock(tx.rec.attrs.task_id))
          [] tx.pc = "claim" -> WritersOfRecord(tx.rec.id)
          [] tx.pc = "compare_identity" -> LockersOfRecord(tx.rec.id)
          [] tx.pc = "apply" /\ tx.idx \in DOMAIN Project(tx.rec)
               /\ Current(p).op = "first_write" -> WritersOfEffect(CurrentKey(p))
          [] tx.pc = "compare" -> LockersOfEffect(CurrentKey(p))
          [] OTHER -> {}
   ELSE LET tx == wk[p] IN
        CASE tx.pc = "scrub" /\ tx.raws # {} ->
               Holders(RawLock(MinOf(tx.raws)))
                 \cup LockersOfRecord(MinOf(tx.raws))
          [] tx.pc = "delivery_lock" /\ tx.batch # {} ->
               Holders(DeliveryLock(MinOf(tx.batch)))
          [] tx.pc = "task_lock" -> Holders(TaskLock(tx.task))
          [] tx.pc = "preserve"
               /\ OtherMembers(p, MinOf(tx.batch), tx.task) # {} ->
               UNION {LockersOfEffect(k)
                        \cup WritersOfRecord(Heir(p, MinOf(tx.batch), tx.task)) :
                          k \in Preserved(p, MinOf(tx.batch), tx.task)}
          [] tx.pc = "delete_effects" ->
               UNION {LockersOfEffect(k) : k \in OwnedBy(p, MinOf(tx.batch))}
          [] tx.pc = "delete_records" ->
               UNION {LockersOfRecord(id) : id \in MembersOf(MinOf(tx.batch))}
          [] OTHER -> {})
  \ {p}

\* The processes in S wait for each other in a circle: S is permuted by "waits
\* for".
Circle(S) ==
  /\ S # {}
  /\ \E f \in [S -> S] : /\ \A q \in S : f[q] \in Blockers(q)
                         /\ \A q, s \in S : f[q] = f[s] => q = s

OnWaitCycle(p) == Blockers(p) # {} /\ \E S \in SUBSET Procs : p \in S /\ Circle(S)
===============================================================================
