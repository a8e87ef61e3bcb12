------------------------------- MODULE Admission -------------------------------
(***************************************************************************)
(* AdmissionService.admit over PostgresTransaction: one transaction per    *)
(* validated record, one action per SQL statement that can wait or whose   *)
(* result depends on other transactions.                                   *)
(*                                                                         *)
(* pc: idle -> [delivery_lock -> fence -> [task_lock]] -> claim            *)
(*        -> compare_identity -> done                                      *)
(*        -> apply (-> compare -> apply)* -> done -> idle                  *)
(***************************************************************************)
EXTENDS EvidenceStore

AdmUnchanged == UNCHANGED <<now, wk, faults>>

\* The transaction ends without a trace: ROLLBACK, or the COMMIT of one that
\* wrote nothing.
Finish(c, res) ==
  /\ adm' = [adm EXCEPT ![c] = [Idle EXCEPT !.pc = "done",
                                            !.rec = adm[c].rec, !.res = res]]
  /\ Release(c)
  /\ UNCHANGED tables

\* The transaction takes its next statement; nothing is visible to others.
Step(c, tx) == adm' = [adm EXCEPT ![c] = tx] /\ UNCHANGED tables

\* A request carrying r arrives and its transaction begins.
Receive(c, r) ==
  /\ adm[c].pc = "idle"
  /\ sent < MaxSends
  /\ sent' = sent + 1
  /\ Step(c, [Idle EXCEPT !.rec = r, !.at = now,
                          !.pc = IF r.profile = 2 THEN "delivery_lock"
                                                  ELSE "claim"])
  /\ UNCHANGED holds
  /\ AdmUnchanged

\* pg_advisory_xact_lock("delivery:...")
LockDelivery(c) ==
  /\ adm[c].pc = "delivery_lock"
  /\ Acquire(c, DeliveryLock(DeliveryOf(adm[c].rec)))
  /\ Step(c, [adm[c] EXCEPT !.pc = "fence"])
  /\ UNCHANGED sent
  /\ AdmUnchanged

\* Mutant: the fence is not looked up.
CheckFenceBlindly(c) ==
  /\ adm[c].pc = "fence"
  /\ Step(c, [adm[c] EXCEPT !.pc = IF IsBinding(adm[c].rec)
                                   THEN "task_lock" ELSE "claim"])
  /\ UNCHANGED <<holds, sent>>
  /\ AdmUnchanged

\* A record of a retired Delivery is rejected.
CheckFence(c) ==
  /\ adm[c].pc = "fence"
  /\ IF DeliveryOf(adm[c].rec) \in fences
     THEN Finish(c, "rejected")
     ELSE /\ Step(c, [adm[c] EXCEPT !.pc = IF IsBinding(adm[c].rec)
                                           THEN "task_lock" ELSE "claim"])
          /\ UNCHANGED holds
  /\ UNCHANGED sent
  /\ AdmUnchanged

\* Mutant: the Task's lock is not taken.
LockNoTask(c) ==
  /\ adm[c].pc = "task_lock"
  /\ Step(c, [adm[c] EXCEPT !.pc = "claim"])
  /\ UNCHANGED <<holds, sent>>
  /\ AdmUnchanged

\* pg_advisory_xact_lock("task:...")
LockTask(c) ==
  /\ adm[c].pc = "task_lock"
  /\ Acquire(c, TaskLock(adm[c].rec.attrs.task_id))
  /\ Step(c, [adm[c] EXCEPT !.pc = "claim"])
  /\ UNCHANGED sent
  /\ AdmUnchanged

\* Mutant: a second terminal summary of the Delivery is no conflict.
ClaimAnyAnchor(c) ==
  /\ adm[c].pc = "claim"
  /\ Blockers(c) = {}
  /\ Step(c, IF adm[c].rec.id \in DOMAIN accepted
             THEN [adm[c] EXCEPT !.pc = "compare_identity"]
             ELSE [adm[c] EXCEPT !.pc = "apply", !.claimed = TRUE])
  /\ UNCHANGED <<holds, sent>>
  /\ AdmUnchanged

\* INSERT INTO accepted_records ... ON CONFLICT DO NOTHING, with the Delivery
\* membership and, for a delivery.summary, the Delivery's terminal anchor.
Claim(c) ==
  LET r == adm[c].rec IN
  /\ adm[c].pc = "claim"
  /\ Blockers(c) = {}
  /\ CASE r.id \in DOMAIN accepted ->
            /\ Step(c, [adm[c] EXCEPT !.pc = "compare_identity"])
            /\ UNCHANGED holds
       [] r.id \notin DOMAIN accepted /\ IsSummary(r)
            /\ DeliveryOf(r) \in DOMAIN anchors -> Finish(c, "conflict")
       [] OTHER ->
            /\ Step(c, [adm[c] EXCEPT !.pc = "apply", !.claimed = TRUE])
            /\ UNCHANGED holds
  /\ UNCHANGED sent
  /\ AdmUnchanged

\* Mutant: an identity that is taken is a duplicate, whatever its digest.
CompareNothing(c) ==
  /\ adm[c].pc = "compare_identity"
  /\ Blockers(c) = {}
  /\ Finish(c, "duplicate")
  /\ UNCHANGED sent
  /\ AdmUnchanged

\* SELECT canonical_digest ... FOR UPDATE.  The row the INSERT ran into may be
\* gone by now; the RuntimeError then leaves admit.  Nothing is awaited
\* between this statement and the end of the transaction but the COMMIT.
CompareIdentity(c) ==
  LET r == adm[c].rec IN
  /\ adm[c].pc = "compare_identity"
  /\ Blockers(c) = {}
  /\ Finish(c, IF r.id \notin DOMAIN accepted THEN "error"
               ELSE IF accepted[r.id].rec = r THEN "duplicate" ELSE "conflict")
  /\ UNCHANGED sent
  /\ AdmUnchanged

Applying(c) == adm[c].pc = "apply" /\ adm[c].idx \in DOMAIN Project(adm[c].rec)

\* Mutant: the rows of other records are overwritten.
SeesOwn(c, k) == k \in Written(c)

\* The effect rows this transaction sees, and their payloads.
Sees(c, k) == k \in Written(c) \cup DOMAIN effects
Seen(c, k) == IF k \in Written(c) THEN PayloadWritten(c, k)
                                  ELSE effects[k].payload

\* Mutant: a required row is not looked up.
RequireNothing(c) ==
  /\ Applying(c)
  /\ Current(c).op = "require"
  /\ Step(c, [adm[c] EXCEPT !.idx = @ + 1])
  /\ UNCHANGED <<holds, sent>>
  /\ AdmUnchanged

\* _require_effect: a plain SELECT of the row, which takes no lock on it.
RequireEffect(c) ==
  /\ Applying(c)
  /\ Current(c).op = "require"
  /\ LET k == CurrentKey(c)
         wanted == Current(c).payload
     IN  IF /\ Sees(c, k)
            /\ \A name \in DOMAIN wanted : Get(Seen(c, k), name) = wanted[name]
         THEN /\ Step(c, [adm[c] EXCEPT !.idx = @ + 1])
              /\ UNCHANGED holds
         ELSE Finish(c, "rejected")
  /\ UNCHANGED sent
  /\ AdmUnchanged

\* _first_write: INSERT INTO projection_effects ... ON CONFLICT DO NOTHING.
FirstWrite(c) ==
  /\ Applying(c)
  /\ Current(c).op = "first_write"
  /\ Blockers(c) = {}
  /\ Step(c, IF Sees(c, CurrentKey(c))
             THEN [adm[c] EXCEPT !.pc = "compare"]
             ELSE [adm[c] EXCEPT !.idx = @ + 1, !.wrote = @ \cup {adm[c].idx}])
  /\ UNCHANGED <<holds, sent>>
  /\ AdmUnchanged

\* Mutant: an equal row sends the loop back to the same effect.
CompareAndRetry(c) ==
  LET k == CurrentKey(c) IN
  /\ adm[c].pc = "compare"
  /\ Blockers(c) = {}
  /\ CASE ~Sees(c, k) -> Finish(c, "error")
       [] Sees(c, k) /\ Seen(c, k) # Current(c).payload -> Finish(c, "conflict")
       [] OTHER -> /\ Step(c, [adm[c] EXCEPT !.pc = "apply",
                                             !.locked = @ \cup {k}])
                   /\ UNCHANGED holds
  /\ UNCHANGED sent
  /\ AdmUnchanged

\* _first_write after the conflict: SELECT payload ... FOR UPDATE, which may
\* find the row gone (RuntimeError), different (ProjectionConflict) or equal.
CompareEffect(c) ==
  LET k == CurrentKey(c) IN
  /\ adm[c].pc = "compare"
  /\ Blockers(c) = {}
  /\ CASE ~Sees(c, k) -> Finish(c, "error")
       [] Sees(c, k) /\ Seen(c, k) # Current(c).payload -> Finish(c, "conflict")
       [] OTHER -> /\ Step(c, [adm[c] EXCEPT !.pc = "apply", !.idx = @ + 1,
                                             !.locked = @ \cup {k}])
                   /\ UNCHANGED holds
  /\ UNCHANGED sent
  /\ AdmUnchanged

\* Every effect is applied: COMMIT.
CommitAdmission(c) ==
  LET tx == adm[c] IN
  /\ tx.pc = "apply"
  /\ tx.idx \notin DOMAIN Project(tx.rec)
  /\ accepted' = With(accepted,
                      Row(tx.rec.id, [rec |-> tx.rec, at |-> tx.at, raw |-> TRUE]))
  /\ effects' = With(effects, [k \in Written(c) |->
                                 [payload |-> PayloadWritten(c, k),
                                  src |-> tx.rec.id]])
  /\ anchors' = IF IsSummary(tx.rec)
                THEN With(anchors, Row(DeliveryOf(tx.rec),
                                       [id |-> tx.rec.id, at |-> tx.at]))
                ELSE anchors
  /\ adm' = [adm EXCEPT ![c] = [Idle EXCEPT !.pc = "done", !.rec = tx.rec,
                                            !.res = "accepted"]]
  /\ Release(c)
  /\ UNCHANGED <<fences, markers, sent>>
  /\ AdmUnchanged

\* The answer is delivered and the connection returns to the pool.
Respond(c) ==
  /\ adm[c].pc = "done"
  /\ Step(c, Idle)
  /\ UNCHANGED <<holds, sent>>
  /\ AdmUnchanged

\* The statements of a running admission.
AdmissionStep(c) ==
  \/ LockDelivery(c) \/ CheckFence(c) \/ LockTask(c) \/ Claim(c)
  \/ CompareIdentity(c) \/ RequireEffect(c) \/ FirstWrite(c)
  \/ CompareEffect(c) \/ CommitAdmission(c) \/ Respond(c)
===============================================================================
