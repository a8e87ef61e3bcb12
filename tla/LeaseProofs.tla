------------------------------ MODULE LeaseProofs ------------------------------
(***************************************************************************)
(* Proofs about queries over leased snapshots: LeaseInductive is preserved *)
(* by every step, and the lease properties follow from it.                 *)
(***************************************************************************)
EXTENDS LeaseInvariants, TLAPS, FiniteSetTheorems, WellFoundedInduction,
        NaturalsInduction, SequenceTheorems

-------------------------------------------------------------------------------
(* Rows and pages *)

\* The least element of a set of numbers is one of its elements.
LEMMA LeastOfIn ==
  ASSUME NEW S \in SUBSET Nat, S # {}
  PROVE  LeastOf(S) \in S /\ \A y \in S : LeastOf(S) <= y
<1>. DEFINE Less == {ss \in Nat \X Nat : ss[1] < ss[2]}
<1>0. IsWellFoundedOn(Less, Nat)
  BY NatLessThanWellFounded DEF OpToRel
<1>. HIDE DEF Less
<1>1. PICK x \in S : \A y \in S : ~(<<y, x>> \in Less)
  BY <1>0, WFMin
<1>2. ASSUME NEW y \in S
      PROVE  x <= y
  <2>1. <<y, x>> \in Nat \X Nat /\ <<y, x>>[1] = y /\ <<y, x>>[2] = x
    OBVIOUS
  <2>2. ~(y < x)
    BY <1>1, <2>1 DEF Less
  <2>. QED
    BY <2>2
<1>. QED
  BY <1>1, <1>2 DEF LeastOf

\* A finite set of numbers has an upper bound: a minimal one without would be
\* one element larger than one with.
LEMMA FiniteBounded ==
  ASSUME NEW S \in SUBSET Nat, IsFiniteSet(S)
  PROVE  \E n \in Nat : \A x \in S : x <= n
<1>. DEFINE Bounded(U) == \E n \in Nat : \A x \in U : x <= n
            Bad == {U \in FiniteSubsetsOf(S) : ~Bounded(U)}
<1>. SUFFICES ASSUME ~Bounded(S) PROVE FALSE
  OBVIOUS
<1>1. S \in Bad
  BY DEF FiniteSubsetsOf
<1>2. PICK U \in Bad : \A V \in Bad : ~(<<V, U>> \in StrictSubsetOrdering(S))
  <2>1. Bad \subseteq FiniteSubsetsOf(S) /\ Bad # {}
    BY <1>1
  <2>. QED
    BY <2>1, WFMin, FS_StrictSubsetOrderingWellFounded
<1>3. /\ U \subseteq S /\ IsFiniteSet(U) /\ ~Bounded(U)
  BY DEF FiniteSubsetsOf
<1>4. PICK x \in U : TRUE
  BY <1>3
<1>5. U \ {x} \in FiniteSubsetsOf(S) /\ U \in FiniteSubsetsOf(S)
  BY <1>3, FS_RemoveElement DEF FiniteSubsetsOf
<1>6. <<U \ {x}, U>> \in StrictSubsetOrdering(S)
  BY <1>3, <1>4, <1>5 DEF StrictSubsetOrdering, FiniteSubsetsOf
<1>7. Bounded(U \ {x})
  BY <1>2, <1>5, <1>6
<1>8. PICK n \in Nat : \A y \in U \ {x} : y <= n
  BY <1>7
<1>9. x \in Nat
  BY <1>3, <1>4
<1>10. \A y \in U : y <= (IF x <= n THEN n ELSE x)
  BY <1>3, <1>8, <1>9
<1>. QED
  BY <1>3, <1>8, <1>9, <1>10

\* The greatest element of a finite set of numbers is one of its elements.
LEMMA GreatestOfIn ==
  ASSUME NEW S \in SUBSET Nat, IsFiniteSet(S), S # {}
  PROVE  GreatestOf(S) \in S
<1>. DEFINE B == {n \in Nat : \A x \in S : x <= n}
            m == LeastOf(B)
<1>1. B # {}
  BY FiniteBounded
<1>2. m \in B /\ \A y \in B : m <= y
  BY <1>1, LeastOfIn
<1>. HIDE DEF m
<1>3. m \in S
  <2>. SUFFICES ASSUME m \notin S PROVE FALSE
    OBVIOUS
  <2>1. \A x \in S : x < m
    BY <1>2
  <2>2. m - 1 \in Nat /\ \A x \in S : x <= m - 1
    <3>1. PICK x \in S : TRUE
      OBVIOUS
    <3>2. x \in Nat /\ m \in Nat /\ x < m
      BY <1>2, <2>1
    <3>3. m - 1 \in Nat
      BY <3>2
    <3>4. \A y \in S : y \in Nat /\ y < m
      BY <2>1
    <3>. QED
      BY <3>2, <3>3, <3>4
  <2>. QED
    BY <1>2, <2>2
<1>. QED
  BY <1>2, <1>3 DEF GreatestOf

\* A page is made of rows, and is not empty when there are more.
LEMMA PageRows ==
  ASSUME NEW S \in SUBSET Rows, NEW b \in Bindings, NEW after \in Nat
  PROVE  /\ PageOf(S, b, after) \in SUBSET Rows
         /\ IsFiniteSet(PageOf(S, b, after))
         /\ Cardinality(PageOf(S, b, after)) \in Nat
         /\ HasMore(S, b, after) => GreatestOf(PageOf(S, b, after)) \in Rows
<1>. DEFINE M == Matching(S, b, after)
            P == PageOf(S, b, after)
<1>1. M \in SUBSET Nat /\ P \in SUBSET Rows /\ P \subseteq M
  BY LeaseAssumption DEF Matching, PageOf
<1>2. IsFiniteSet(P) /\ Cardinality(P) \in Nat
  BY <1>1, FS_Subset, FS_CardinalityType, LeaseAssumption
<1>3. ASSUME M # P
      PROVE  P # {}
  <2>1. M # {}
    BY <1>1, <1>3
  <2>2. LeastOf(M) \in M /\ \A y \in M : LeastOf(M) <= y
    BY <1>1, <2>1, LeastOfIn
  <2>3. {y \in M : y < LeastOf(M)} = {}
    BY <1>1, <2>2
  <2>4. b.limit \in Nat \ {0}
    BY LeaseAssumption
  <2>5. Cardinality({y \in M : y < LeastOf(M)}) < b.limit
    BY <2>3, <2>4, FS_EmptySet
  <2>. QED
    BY <2>2, <2>5 DEF PageOf
<1>4. P \in SUBSET Nat
  BY <1>1
<1>. QED
  BY <1>1, <1>2, <1>3, <1>4, GreatestOfIn DEF HasMore


-------------------------------------------------------------------------------
(* Lease objects *)

\* A lease object keeps its connection and its binding, and its snapshot once
\* it has one.
Grows ==
  /\ Len(objects) <= Len(objects')
  /\ \A s \in LeaseIds :
       /\ objects'[s].conn = objects[s].conn
       /\ objects'[s].binding = objects[s].binding
       /\ objects[s].snap # None => objects'[s].snap = objects[s].snap

\* q takes or leaves lease.lock for itself only.
OwnLocks(q) ==
  \A s \in LeaseIds' : \A p \in Requests \ {q} :
    objects'[s].holder = p <=> s \in LeaseIds /\ objects[s].holder = p

\* The objects are a table of records.
LEMMA ObjectsTable ==
  ASSUME Types
  PROVE  /\ Len(objects) \in Nat /\ DOMAIN objects = LeaseIds
         /\ LeaseIds \in SUBSET Nat /\ IsFiniteSet(LeaseIds)
         /\ \A s \in LeaseIds : objects[s] \in ObjectType
         /\ leased \in SUBSET Nat /\ IsFiniteSet(leased)
         /\ Cardinality(leased) \in Nat
<1>1. Len(objects) \in Nat /\ DOMAIN objects = LeaseIds
      /\ \A s \in LeaseIds : objects[s] \in ObjectType
  BY DEF Types, LeaseIds
<1>2. LeaseIds \in SUBSET Nat /\ IsFiniteSet(LeaseIds)
  BY <1>1, FS_Interval DEF LeaseIds
<1>3. leased \in SUBSET Nat /\ IsFiniteSet(leased)
      /\ Cardinality(leased) \in Nat
  BY <1>2, FS_Subset, FS_CardinalityType DEF Types
<1>. QED
  BY <1>1, <1>2, <1>3

\* A table with the same rows.
LEMMA SameTable ==
  ASSUME Types, DOMAIN objects' = LeaseIds,
         \A s \in LeaseIds : objects'[s] \in ObjectType,
         objects' = [s \in LeaseIds |-> objects'[s]]
  PROVE  objects' \in Seq(ObjectType) /\ Len(objects') = Len(objects)
<1>1. Len(objects) \in Nat
  BY ObjectsTable
<1>2. objects' \in [1..Len(objects) -> ObjectType]
  BY DEF LeaseIds
<1>3. objects' \in Seq(ObjectType)
  BY <1>1, <1>2, SeqDef
<1>. QED
  BY <1>1, <1>2, <1>3, LenProperties

\* lease.lock changes hands.
LEMMA SetHolder ==
  ASSUME Types, NEW q \in Requests, NEW t \in LeaseIds,
         NEW h \in {q, None}, objects[t].holder \in {q, None},
         objects' = [objects EXCEPT ![t].holder = h]
  PROVE  /\ objects' \in Seq(ObjectType) /\ Len(objects') = Len(objects)
         /\ Grows /\ OwnLocks(q)
         /\ \A s \in LeaseIds :
              /\ objects'[s].holder = (IF s = t THEN h ELSE objects[s].holder)
              /\ objects'[s].snap = objects[s].snap
<1>1. DOMAIN objects' = LeaseIds /\ objects' = [s \in LeaseIds |-> objects'[s]]
  BY ObjectsTable
<1>2. \A s \in LeaseIds :
        objects'[s] = IF s = t THEN [objects[s] EXCEPT !.holder = h]
                               ELSE objects[s]
  BY ObjectsTable
<1>3. \A s \in LeaseIds :
        /\ objects'[s] \in ObjectType
        /\ objects'[s].holder = (IF s = t THEN h ELSE objects[s].holder)
        /\ objects'[s].snap = objects[s].snap
        /\ objects'[s].conn = objects[s].conn
        /\ objects'[s].binding = objects[s].binding
  BY <1>2, ObjectsTable DEF ObjectType
<1>4. objects' \in Seq(ObjectType) /\ Len(objects') = Len(objects)
  BY <1>1, <1>3, SameTable
<1>5. LeaseIds' = LeaseIds
  BY <1>4 DEF LeaseIds
<1>6. Grows
  BY <1>3, <1>4, ObjectsTable DEF Grows
<1>7. OwnLocks(q)
  BY <1>3, <1>5, LeaseAssumption DEF OwnLocks
<1>. QED
  BY <1>3, <1>4, <1>6, <1>7

\* A statement takes the snapshot of its transaction, and the lock is left or
\* kept.
LEMMA LookTable ==
  ASSUME Types, NEW q \in Requests, NEW h \in {q, None}, Look(q, h),
         req[q].sid \in LeaseIds, LeaseOf(q).holder = q
  PROVE  /\ objects' \in Seq(ObjectType) /\ Len(objects') = Len(objects)
         /\ Grows /\ OwnLocks(q)
         /\ \A s \in LeaseIds :
              /\ objects'[s].holder =
                   (IF s = req[q].sid THEN h ELSE objects[s].holder)
              /\ s = open[LeaseOf(q).conn] =>
                   objects'[s].snap = Snapshot(s) /\ Snapshot(s) # None
         /\ Visible(q) \in SUBSET Rows
<1>0. /\ \A s \in LeaseIds : objects[s] \in ObjectType
      /\ store \in SUBSET Rows /\ DOMAIN objects = LeaseIds
  BY ObjectsTable DEF Types
<1>1. \A s \in LeaseIds : /\ Snapshot(s) \in SUBSET Rows
                          /\ Snapshot(s) # None
                          /\ objects[s].snap # None =>
                               Snapshot(s) = objects[s].snap
  BY <1>0, LeaseAssumption DEF Snapshot, ObjectType
<1>2. \A s \in LeaseIds :
        objects'[s] =
          [objects[s] EXCEPT
             !.holder = IF s = req[q].sid THEN h ELSE @,
             !.snap = IF s = open[LeaseOf(q).conn] THEN Snapshot(s) ELSE @]
  BY <1>0 DEF Look
<1>. HIDE DEF Snapshot
<1>3. \A s \in LeaseIds :
        /\ objects'[s] \in ObjectType
        /\ objects'[s].holder =
             (IF s = req[q].sid THEN h ELSE objects[s].holder)
        /\ objects'[s].snap =
             (IF s = open[LeaseOf(q).conn] THEN Snapshot(s) ELSE objects[s].snap)
        /\ objects'[s].conn = objects[s].conn
        /\ objects'[s].binding = objects[s].binding
  <2>. SUFFICES
         ASSUME NEW s \in LeaseIds
         PROVE  /\ objects'[s] \in ObjectType
                /\ objects'[s].holder =
                     (IF s = req[q].sid THEN h ELSE objects[s].holder)
                /\ objects'[s].snap =
                     (IF s = open[LeaseOf(q).conn] THEN Snapshot(s)
                                                   ELSE objects[s].snap)
                /\ objects'[s].conn = objects[s].conn
                /\ objects'[s].binding = objects[s].binding
    OBVIOUS
  <2>. DEFINE holder == IF s = req[q].sid THEN h ELSE objects[s].holder
              snap == IF s = open[LeaseOf(q).conn] THEN Snapshot(s)
                                                   ELSE objects[s].snap
  <2>1. holder \in Requests \cup {None} /\ snap \in (SUBSET Rows) \cup {None}
    BY <1>0, <1>1 DEF ObjectType
  <2>2. objects'[s] = [objects[s] EXCEPT !.holder = holder, !.snap = snap]
    BY <1>2
  <2>3. objects[s] \in ObjectType
    BY <1>0
  <2>. HIDE DEF holder, snap
  <2>4. /\ objects'[s] \in ObjectType
        /\ objects'[s].holder = holder /\ objects'[s].snap = snap
        /\ objects'[s].conn = objects[s].conn
        /\ objects'[s].binding = objects[s].binding
    BY <2>1, <2>2, <2>3 DEF ObjectType
  <2>. QED
    BY <2>4 DEF holder, snap
<1>4. objects' \in Seq(ObjectType) /\ Len(objects') = Len(objects)
  <2>1. DOMAIN objects' = LeaseIds /\ objects' = [s \in LeaseIds |-> objects'[s]]
    BY <1>0 DEF Look
  <2>. QED
    BY <1>3, <2>1, SameTable
<1>5. LeaseIds' = LeaseIds
  BY <1>4 DEF LeaseIds
<1>6. Grows
  BY <1>1, <1>3, <1>4, ObjectsTable DEF Grows
<1>7. OwnLocks(q)
  BY <1>3, <1>5, LeaseAssumption DEF OwnLocks, LeaseOf
<1>8. Visible(q) \in SUBSET Rows
  <2>1. objects[req[q].sid].conn \in Pool
    BY <1>0 DEF ObjectType
  <2>2. open[LeaseOf(q).conn] \in {None} \cup LeaseIds
    BY <2>1 DEF Types, LeaseOf
  <2>. QED
    BY <1>0, <1>1, <2>2 DEF Visible
<1>. QED
  BY <1>1, <1>3, <1>4, <1>6, <1>7, <1>8


-------------------------------------------------------------------------------
(* What a step of q leaves alone *)

\* What another request relies on: its guard, its locks, the rest of _leases
\* while it holds the guard, and the cursors of the leases that stay.
Spares(q) ==
  /\ Grows /\ OwnLocks(q)
  /\ \A p \in Requests \ {q} :
       /\ req'[p] = req[p]
       /\ guard' = p <=> guard = p
       /\ guard = p => leased \subseteq leased'
  /\ leased' \cap LeaseIds \subseteq leased
  /\ \A k \in cursors : k[1] \in leased' => k \in cursors'

\* What another request knows stays true.
LEMMA OtherRequest ==
  ASSUME Types, Types', NEW q \in Requests, Spares(q),
         NEW p \in Requests \ {q}, RequestOK(p)
  PROVE  RequestOK(p)'
<1>0. /\ req'[p] = req[p] /\ p \in Requests
      /\ LeaseIds \subseteq LeaseIds' /\ LeaseIds \subseteq Nat
      /\ leased' \cap LeaseIds \subseteq leased
      /\ Releasing(p)' = Releasing(p)
      /\ leased \subseteq LeaseIds
  BY ObjectsTable DEF Spares, Grows, LeaseIds, Types, Releasing
<1>1. HasSnapshot(p)'
  BY <1>0 DEF HasSnapshot, RequestOK
<1>2. Inside(p)'
  BY <1>0 DEF Inside, RequestOK, Spares, OwnLocks, HasSnapshot, Reading, Holding
<1>3. Evicting(p)'
  <2>1. req[p].pc \in {"evict", "rollback"} => leased \subseteq leased'
    BY DEF RequestOK, Inside, Spares, Guarding
  <2>. QED
    BY <1>0, <2>1 DEF Evicting, RequestOK
<1>4. CursorKept(p)'
  <2>1. req[p].pc \in Reading /\ req[p].sid \in leased' => req[p].sid \in leased
    BY <1>0 DEF RequestOK, HasSnapshot
  <2>. QED
    BY <1>0, <2>1 DEF CursorKept, RequestOK, Spares
<1>5. PageSeen(p)'
  <2>1. ASSUME req[p].sid \in LeaseIds
        PROVE  /\ PageShown(p) => PageShown(p)'
               /\ Confirmed(p)' => Confirmed(p)
    BY <1>0, <2>1 DEF PageShown, Confirmed, LeaseOf, Spares, Grows
  <2>2. Confirmed(p)' => req[p].sid \in LeaseIds
    BY <1>0 DEF Confirmed, RequestOK, HasSnapshot, Reading
  <2>3. req[p].pc \in {"expiry", "expiry_read", "summary_lock", "summary_read",
                       "finish"} => req[p].sid \in LeaseIds
    BY DEF RequestOK, HasSnapshot, Reading
  <2>. QED
    BY <1>0, <2>1, <2>2, <2>3 DEF PageSeen, RequestOK
<1>. QED
  BY <1>1, <1>2, <1>3, <1>4, <1>5 DEF RequestOK

\* A step that leases and returns no connection: what q knows afterwards is all
\* there is to show.
LEMMA QuietStep ==
  ASSUME LeaseInductive, Types', NEW q \in Requests, RequestOK(q)',
         UNCHANGED <<free, leased, open>>, cursors \subseteq cursors',
         Len(objects') = Len(objects), Grows, OwnLocks(q),
         \A p \in Requests \ {q} : req'[p] = req[p] /\ (guard' = p <=> guard = p),
         req[q].pc # "rollback", req'[q].pc # "rollback",
         req'[q].pc = "getconn" => Cardinality(leased) < LeaseLimit,
         req[q].pc \in Waiting /\ req[q].sid \in leased =>
           \/ req'[q].pc \in Waiting /\ req'[q].sid = req[q].sid
           \/ \E k \in cursors' : k[1] = req[q].sid
  PROVE  LeaseInductive'
<1>1. /\ \A p \in Requests : RequestOK(p)
      /\ Types /\ TableOK /\ LeaseInUse /\ LeaseIds' = LeaseIds
      /\ leased \subseteq LeaseIds
      /\ \A s \in LeaseIds : objects'[s].conn = objects[s].conn
  BY DEF LeaseInductive, LeaseIds, Types, Grows
<1>2. Spares(q)
  BY <1>1 DEF Spares
<1>3. \A p \in Requests : RequestOK(p)'
  BY <1>1, <1>2, OtherRequest
<1>4. \A p \in Requests :
        /\ req'[p].pc = "rollback" <=> req[p].pc = "rollback"
        /\ req[p].pc = "rollback" =>
             /\ Releasing(p)' = Releasing(p) /\ Releasing(p) \in LeaseIds
  BY <1>1 DEF Releasing, RequestOK, Evicting
<1>5. LeasesOpen'
  BY <1>1 DEF LeasesOpen, TableOK
<1>6. ReturningApart'
  BY <1>1, <1>4 DEF ReturningApart, TableOK
<1>7. NoneLost'
  BY <1>1, <1>4 DEF NoneLost, TableOK
<1>8. WithinLimit'
  BY <1>1, <1>4 DEF WithinLimit, TableOK
<1>9. LeaseInUse'
  <2>. SUFFICES ASSUME NEW s \in leased
                PROVE  \/ \E p \in Requests : req'[p].pc \in Waiting
                                                /\ req'[p].sid = s
                       \/ \E k \in cursors' : k[1] = s
    BY DEF LeaseInUse
  <2>1. CASE \E k \in cursors : k[1] = s
    BY <2>1
  <2>2. CASE \E p \in Requests : req[p].pc \in Waiting /\ req[p].sid = s
    BY <2>2
  <2>. QED
    BY <1>1, <2>1, <2>2 DEF LeaseInUse
<1>. QED
  BY <1>3, <1>5, <1>6, <1>7, <1>8, <1>9 DEF LeaseInductive, TableOK

\* What a request knows before a step, and the type of its record.
LEMMA RequestKnown ==
  ASSUME LeaseInductive, NEW q \in Requests
  PROVE  /\ Types /\ RequestOK(q) /\ req[q] \in RequestType
         /\ req = [p \in Requests |-> req[p]]
         /\ None \notin Requests
  BY LeaseAssumption DEF LeaseInductive, Types

\* Go changes the record of q only.
LEMMA GoOnly ==
  ASSUME LeaseInductive, NEW q \in Requests, NEW r, Go(q, r)
  PROVE  /\ req'[q] = r
         /\ \A p \in Requests \ {q} : req'[p] = req[p]
         /\ r \in RequestType => req' \in [Requests -> RequestType]
  BY DEF Go, LeaseInductive, Types


\* A step of q that changes no table.
LEMMA PlainStep ==
  ASSUME LeaseInductive, NEW q \in Requests, NEW r \in RequestType, Go(q, r),
         UNCHANGED <<now, store, free, objects, leased, cursors, bound, open>>,
         \A p \in Requests \ {q} : guard' = p <=> guard = p,
         RequestOK(q)', req[q].pc # "rollback", r.pc # "rollback",
         r.pc = "getconn" => Cardinality(leased) < LeaseLimit,
         req[q].pc \in Waiting /\ req[q].sid \in leased =>
           \/ r.pc \in Waiting /\ r.sid = req[q].sid
           \/ \E k \in cursors : k[1] = req[q].sid
  PROVE  LeaseInductive'
<1>1. /\ req'[q] = r /\ req' \in [Requests -> RequestType]
      /\ \A p \in Requests \ {q} : req'[p] = req[p]
  BY GoOnly
<1>2. Types'
  BY <1>1 DEF LeaseInductive, Types, LeaseIds, Cursors
<1>3. Grows /\ OwnLocks(q) /\ Len(objects') = Len(objects)
  BY ObjectsTable DEF Grows, OwnLocks, LeaseIds, LeaseInductive
<1>. QED
  BY <1>1, <1>2, <1>3, QuietStep

\* A connection without a request.
LEMMA QuietType == Quiet \in RequestType
  BY DEF Quiet, RequestType, Results

\* A query arrives.
LEMMA AskStep ==
  ASSUME LeaseInductive, NEW q \in Requests, NEW b \in Bindings,
         NEW k \in DOMAIN bound \cup {None}, Ask(q, b, k)
  PROVE  LeaseInductive'
<1>. DEFINE wrong == k # None /\ bound[k] # b
            r == [Quiet EXCEPT !.binding = b, !.cursor = k, !.at = now,
                               !.pc = IF wrong THEN "done" ELSE "guard",
                               !.res = IF wrong THEN "CURSOR_MISMATCH" ELSE "none"]
<1>1. /\ req[q].pc = "idle" /\ Go(q, r) /\ UNCHANGED guard
      /\ UNCHANGED <<now, store, free, objects, leased, cursors, bound, open>>
  BY DEF Ask, lease_vars
<1>2. /\ r.pc \in {"done", "guard"} /\ r.binding = b /\ r.cursor = k
      /\ r.sid = 0 /\ r.page = {} /\ r.next = None /\ r.evict = {}
      /\ r.res \in {"CURSOR_MISMATCH", "none"}
  BY DEF Quiet
<1>3. r \in RequestType
  <2>1. LeaseIds \subseteq Nat /\ Rows \subseteq Nat
    BY LeaseAssumption, ObjectsTable DEF LeaseInductive
  <2>2. DOMAIN bound \subseteq LeaseIds \X Rows /\ now \in Nat
    BY LeaseAssumption DEF LeaseInductive, Types, Cursors
  <2>3. k \in (Nat \X Nat) \cup {None}
    BY <2>1, <2>2
  <2>. DEFINE pc == IF wrong THEN "done" ELSE "guard"
              res == IF wrong THEN "CURSOR_MISMATCH" ELSE "none"
  <2>4. pc \in Waiting \cup {"idle", "done"} /\ res \in Results
    BY DEF Waiting, Results
  <2>. HIDE DEF pc, res
  <2>5. r = [Quiet EXCEPT !.binding = b, !.cursor = k, !.at = now, !.pc = pc,
                          !.res = res]
    BY DEF pc, res
  <2>. HIDE DEF r
  <2>. QED
    BY <2>2, <2>3, <2>4, <2>5, QuietType DEF RequestType
<1>4. req'[q] = r
  BY <1>1, GoOnly
<1>5. RequestOK(q)'
  <2>1. RequestOK(q) /\ LeaseIds' = LeaseIds
    BY <1>1, RequestKnown DEF LeaseIds
  <2>. HIDE DEF r
  <2>. QED
    BY <1>1, <1>2, <1>4, <2>1
       DEF RequestOK, HasSnapshot, Evicting, Inside, CursorKept, PageSeen,
           Confirmed, Guarding, Holding, Before, Reading
<1>. HIDE DEF r
<1>. QED
  BY <1>1, <1>2, <1>3, <1>5, PlainStep DEF Waiting

\* The guard is taken, and the expired leases are listed.
LEMMA EnterGuardStep ==
  ASSUME LeaseInductive, NEW q \in Requests, EnterGuard(q)
  PROVE  LeaseInductive'
<1>. DEFINE expired == {s \in leased : req[q].at >= objects[s].expires}
            r == [req[q] EXCEPT !.pc = "evict", !.evict = expired]
<1>1. /\ req[q].pc = "guard" /\ guard = None /\ guard' = q /\ Go(q, r)
      /\ UNCHANGED <<now, store, free, objects, leased, cursors, bound, open>>
  BY DEF EnterGuard, lease_vars, store_vars
<1>2. /\ expired \subseteq leased /\ expired \subseteq Nat
  BY ObjectsTable DEF LeaseInductive
<1>. HIDE DEF expired
<1>3. /\ r \in RequestType
      /\ r.pc = "evict" /\ r.evict = expired
      /\ r.sid = req[q].sid /\ r.binding = req[q].binding
      /\ r.next = req[q].next /\ r.res = req[q].res /\ r.cursor = req[q].cursor
  BY <1>1, <1>2, RequestKnown DEF RequestType, Waiting
<1>4. req'[q] = r
  BY <1>1, GoOnly
<1>. HIDE DEF r
<1>5. RequestOK(q)'
  <2>1. RequestOK(q) /\ LeaseIds' = LeaseIds
    BY <1>1, RequestKnown DEF LeaseIds
  <2>. QED
    BY <1>1, <1>2, <1>3, <1>4, <2>1
       DEF RequestOK, HasSnapshot, Evicting, Inside, CursorKept, PageSeen,
           Confirmed, Guarding, Holding, Before, Reading
<1>. QED
  BY <1>1, <1>3, <1>5, PlainStep, RequestKnown DEF Waiting


\* The capacity check of acquire_snapshot.
LEMMA CheckCapacityStep ==
  ASSUME LeaseInductive, NEW q \in Requests, CheckCapacity(q)
  PROVE  LeaseInductive'
<1>1. /\ req[q].pc = "evict" /\ req[q].evict = {} /\ req[q].cursor = None
      /\ UNCHANGED <<now, store, free, objects, leased, cursors, bound, open>>
  BY DEF CheckCapacity, lease_vars, store_vars
<1>2. /\ Cardinality(leased) \in Nat /\ LeaseLimit \in Nat
      /\ RequestOK(q) /\ LeaseIds' = LeaseIds /\ guard = q /\ req[q].sid = 0
      /\ 0 \notin leased
  BY <1>1, RequestKnown, ObjectsTable, LeaseAssumption
     DEF LeaseInductive, RequestOK, Inside, Guarding, HasSnapshot, LeaseIds, Types
<1>3. CASE Cardinality(leased) >= LeaseLimit
  <2>. DEFINE r == [req[q] EXCEPT !.pc = "done", !.res = "QUERY_UNAVAILABLE"]
  <2>1. Go(q, r) /\ guard' = None
    BY <1>3 DEF CheckCapacity, Reply
  <2>2. /\ r \in RequestType
        /\ r.pc = "done" /\ r.res = "QUERY_UNAVAILABLE"
        /\ r.sid = req[q].sid /\ r.binding = req[q].binding
    BY RequestKnown DEF RequestType, Results
  <2>3. req'[q] = r
    BY <2>1, GoOnly
  <2>. HIDE DEF r
  <2>4. RequestOK(q)'
    BY <1>1, <1>2, <2>1, <2>2, <2>3, RequestKnown
       DEF RequestOK, HasSnapshot, Evicting, Inside, CursorKept, PageSeen,
           Confirmed, Guarding, Holding, Before, Reading
  <2>. QED
    BY <1>1, <1>2, <2>1, <2>2, <2>4, PlainStep, RequestKnown
<1>4. CASE ~(Cardinality(leased) >= LeaseLimit)
  <2>. DEFINE r == [req[q] EXCEPT !.pc = "getconn"]
  <2>1. Go(q, r) /\ guard' = guard
    BY <1>4 DEF CheckCapacity
  <2>2. /\ r \in RequestType
        /\ r.pc = "getconn" /\ r.res = req[q].res /\ r.cursor = None
        /\ r.sid = req[q].sid /\ r.binding = req[q].binding
        /\ r.evict = {} /\ r.next = req[q].next
    BY <1>1, RequestKnown DEF RequestType, Waiting
  <2>3. req'[q] = r
    BY <2>1, GoOnly
  <2>. HIDE DEF r
  <2>4. RequestOK(q)'
    BY <1>1, <1>2, <2>1, <2>2, <2>3, RequestKnown
       DEF RequestOK, HasSnapshot, Evicting, Inside, CursorKept, PageSeen,
           Confirmed, Guarding, Holding, Before, Reading
  <2>. QED
    BY <1>1, <1>2, <1>4, <2>1, <2>2, <2>4, PlainStep, RequestKnown
<1>. QED
  BY <1>3, <1>4

\* What a step of a request that is reading keeps: an error releases the lease.
LEMMA BreakStep ==
  ASSUME LeaseInductive, NEW q \in Requests, Break(q),
         req[q].pc \in {"expiry", "expiry_read"},
         UNCHANGED <<now, store, free, objects, leased, cursors, bound, open,
                     guard>>
  PROVE  LeaseInductive'
<1>. DEFINE r == [req[q] EXCEPT !.pc = "drop", !.res = "QUERY_INTERNAL"]
<1>1. /\ r \in RequestType
      /\ r.pc = "drop" /\ r.res = "QUERY_INTERNAL" /\ r.cursor = req[q].cursor
      /\ r.sid = req[q].sid /\ r.binding = req[q].binding
      /\ r.evict = req[q].evict /\ r.next = req[q].next
  BY RequestKnown DEF RequestType, Waiting, Results
<1>2. Go(q, r) /\ req'[q] = r
  BY GoOnly DEF Break
<1>. HIDE DEF r
<1>3. RequestOK(q)'
  <2>1. RequestOK(q) /\ LeaseIds' = LeaseIds
    BY RequestKnown DEF LeaseIds
  <2>. QED
    BY <1>1, <1>2, <2>1
       DEF RequestOK, HasSnapshot, Evicting, Inside, CursorKept, PageSeen,
           Confirmed, Guarding, Holding, Before, Reading
<1>. QED
  BY <1>1, <1>2, <1>3, PlainStep, RequestKnown DEF Waiting

\* read_expiry looks the lease up: one that is there has shown the page.
LEMMA LookupExpiryStep ==
  ASSUME LeaseInductive, NEW q \in Requests, LookupExpiry(q)
  PROVE  LeaseInductive'
<1>1. /\ req[q].pc = "expiry" /\ req[q].left > 0
      /\ UNCHANGED <<now, store, free, objects, leased, cursors, bound, open,
                     guard>>
  BY DEF LookupExpiry, store_vars
<1>2. CASE req[q].sid \in leased
  <2>. DEFINE r == [req[q] EXCEPT !.pc = "expiry_read"]
  <2>1. /\ r \in RequestType
        /\ r.pc = "expiry_read" /\ r.res = req[q].res /\ r.cursor = req[q].cursor
        /\ r.sid = req[q].sid /\ r.binding = req[q].binding
        /\ r.evict = req[q].evict /\ r.next = req[q].next
        /\ r.page = req[q].page /\ r.after = req[q].after
        /\ r.left = req[q].left
    BY RequestKnown DEF RequestType, Waiting
  <2>2. Go(q, r) /\ req'[q] = r
    BY <1>2, GoOnly DEF LookupExpiry
  <2>. HIDE DEF r
  <2>3. RequestOK(q) /\ LeaseIds' = LeaseIds /\ PageShown(q)
    BY <1>1, <1>2, RequestKnown DEF LeaseIds, RequestOK, PageSeen
  <2>4. PageShown(q)'
    BY <1>1, <2>1, <2>2, <2>3 DEF PageShown, LeaseOf
  <2>5. RequestOK(q)'
    BY <1>1, <2>1, <2>2, <2>3, <2>4
       DEF RequestOK, HasSnapshot, Evicting, Inside, CursorKept, PageSeen,
           Confirmed, Guarding, Holding, Before, Reading
  <2>. QED
    BY <1>1, <2>1, <2>2, <2>5, PlainStep, RequestKnown DEF Waiting
<1>3. CASE req[q].sid \notin leased
  BY <1>1, <1>3, BreakStep DEF LookupExpiry
<1>. QED
  BY <1>2, <1>3

\* The expiry of a row was read.
LEMMA ReadExpiryStep ==
  ASSUME LeaseInductive, NEW q \in Requests, ReadExpiry(q)
  PROVE  LeaseInductive'
<1>1. /\ req[q].pc = "expiry_read"
      /\ UNCHANGED <<now, store, free, objects, leased, cursors, bound, open,
                     guard>>
  BY DEF ReadExpiry, store_vars
<1>. DEFINE r == [req[q] EXCEPT !.pc = "expiry", !.left = @ - 1]
<1>2. CASE Go(q, r)
  <2>0. req[q].left - 1 \in Nat
    BY <1>1, RequestKnown DEF RequestOK, HasSnapshot, RequestType
  <2>1. /\ r \in RequestType
        /\ r.pc = "expiry" /\ r.res = req[q].res /\ r.cursor = req[q].cursor
        /\ r.sid = req[q].sid /\ r.binding = req[q].binding
        /\ r.evict = req[q].evict /\ r.next = req[q].next
        /\ r.page = req[q].page /\ r.after = req[q].after
    BY <2>0, RequestKnown DEF RequestType, Waiting
  <2>2. Go(q, r) /\ req'[q] = r
    BY <1>2, GoOnly
  <2>. HIDE DEF r
  <2>3. RequestOK(q) /\ LeaseIds' = LeaseIds /\ PageShown(q)
    BY <1>1, RequestKnown DEF LeaseIds, RequestOK, PageSeen, Confirmed
  <2>4. PageShown(q)'
    BY <1>1, <2>1, <2>2, <2>3 DEF PageShown, LeaseOf
  <2>5. RequestOK(q)'
    BY <1>1, <2>1, <2>2, <2>3, <2>4
       DEF RequestOK, HasSnapshot, Evicting, Inside, CursorKept, PageSeen,
           Confirmed, Guarding, Holding, Before, Reading
  <2>. QED
    BY <1>1, <2>1, <2>2, <2>5, PlainStep, RequestKnown DEF Waiting
<1>3. CASE Break(q)
  BY <1>1, <1>3, BreakStep
<1>. QED
  BY <1>2, <1>3 DEF ReadExpiry


\* The response is complete.
LEMMA FinishStep ==
  ASSUME LeaseInductive, NEW q \in Requests, Finish(q)
  PROVE  LeaseInductive'
<1>. DEFINE pc == IF req[q].cursor = None /\ req[q].next = None
                  THEN "drop" ELSE "done"
            r == [req[q] EXCEPT !.res = "page", !.pc = pc]
<1>1. /\ req[q].pc = "finish" /\ Go(q, r)
      /\ UNCHANGED <<now, store, free, objects, leased, cursors, bound, open,
                     guard>>
  BY DEF Finish, lease_vars, store_vars
<1>2. /\ pc \in {"drop", "done"}
      /\ pc = "done" => req[q].cursor # None \/ req[q].next # None
  OBVIOUS
<1>. HIDE DEF pc
<1>3. /\ r \in RequestType
      /\ r.pc = pc /\ r.res = "page" /\ r.cursor = req[q].cursor
      /\ r.sid = req[q].sid /\ r.binding = req[q].binding
      /\ r.evict = req[q].evict /\ r.next = req[q].next
      /\ r.page = req[q].page /\ r.after = req[q].after
  BY <1>2, RequestKnown DEF RequestType, Waiting, Results
<1>4. req'[q] = r
  BY <1>1, GoOnly
<1>. HIDE DEF r
<1>5. RequestOK(q) /\ LeaseIds' = LeaseIds
  BY <1>1, RequestKnown DEF LeaseIds
<1>6. Confirmed(q)' => PageShown(q)'
  <2>1. Confirmed(q)' => Confirmed(q)
    BY <1>1, <1>2, <1>3, <1>4 DEF Confirmed, LeaseOf
  <2>. QED
    BY <1>1, <1>3, <1>4, <1>5, <2>1 DEF PageShown, LeaseOf, RequestOK, PageSeen
<1>7. RequestOK(q)'
  BY <1>1, <1>2, <1>3, <1>4, <1>5, <1>6
     DEF RequestOK, HasSnapshot, Evicting, Inside, CursorKept, PageSeen,
         Guarding, Holding, Before, Reading
<1>8. r.pc = "done" /\ req[q].sid \in leased => \E k \in cursors : k[1] = req[q].sid
  BY <1>1, <1>2, <1>3, <1>5 DEF RequestOK, CursorKept, Reading
<1>. QED
  BY <1>1, <1>2, <1>3, <1>7, <1>8, PlainStep, RequestKnown DEF Waiting

\* The answer goes out.
LEMMA AnswerStep ==
  ASSUME LeaseInductive, NEW q \in Requests, Answer(q)
  PROVE  LeaseInductive'
<1>1. /\ req[q].pc = "done" /\ Go(q, Quiet)
      /\ UNCHANGED <<now, store, free, objects, leased, cursors, bound, open,
                     guard>>
  BY DEF Answer, lease_vars, store_vars
<1>2. req'[q] = Quiet /\ Quiet \in RequestType
  BY <1>1, GoOnly, QuietType
<1>3. RequestOK(q) /\ LeaseIds' = LeaseIds
  BY <1>1, RequestKnown DEF LeaseIds
<1>4. RequestOK(q)'
  BY <1>1, <1>2, <1>3
     DEF Quiet, RequestOK, HasSnapshot, Evicting, Inside, CursorKept, PageSeen,
         Confirmed, Guarding, Holding, Before, Reading
<1>. QED
  BY <1>1, <1>2, <1>4, PlainStep DEF Waiting, Quiet

-------------------------------------------------------------------------------
(* lease.lock *)

\* A request that comes to lease.lock is inside it or waits for it.
LEMMA EnterTable ==
  ASSUME LeaseInductive, NEW q \in Requests, NEW r \in RequestType,
         r.sid \in LeaseIds, req[q].pc \notin Holding,
         NEW locked \in Holding, NEW waiting \in {"lock", "summary_lock"},
         Enter(q, r, locked, waiting),
         UNCHANGED <<now, store, free, leased, cursors, bound, open>>
  PROVE  /\ Types' /\ Len(objects') = Len(objects) /\ Grows /\ OwnLocks(q)
         /\ \A p \in Requests \ {q} : req'[p] = req[p]
         /\ \E pc \in {locked, waiting} :
              /\ req'[q] = [r EXCEPT !.pc = pc]
              /\ req'[q] \in RequestType
              /\ \A s \in LeaseIds :
                   objects'[s].holder = q <=> pc \in Holding /\ s = r.sid
         /\ \A s \in LeaseIds : objects'[s].snap = objects[s].snap
<1>1. /\ Types /\ \A s \in LeaseIds : objects[s].holder # q
      /\ LeaseIds \subseteq Nat
  BY RequestKnown, ObjectsTable DEF RequestOK, Inside
<1>2. \A pc \in {locked, waiting} : [r EXCEPT !.pc = pc] \in RequestType
  BY DEF RequestType, Waiting, Holding
<1>3. CASE objects[r.sid].holder = None
  <2>1. /\ objects' = [objects EXCEPT ![r.sid].holder = q]
        /\ Go(q, [r EXCEPT !.pc = locked])
    BY <1>3 DEF Enter
  <2>2. /\ objects' \in Seq(ObjectType) /\ Len(objects') = Len(objects)
        /\ Grows /\ OwnLocks(q)
        /\ \A s \in LeaseIds :
             /\ objects'[s].holder = (IF s = r.sid THEN q ELSE objects[s].holder)
             /\ objects'[s].snap = objects[s].snap
    BY <1>1, <1>3, <2>1, SetHolder
  <2>3. /\ req'[q] = [r EXCEPT !.pc = locked]
        /\ \A p \in Requests \ {q} : req'[p] = req[p]
        /\ req' \in [Requests -> RequestType]
    BY <1>2, <2>1, GoOnly
  <2>4. Types'
    BY <1>1, <2>2, <2>3 DEF Types, LeaseIds, Cursors
  <2>5. /\ [r EXCEPT !.pc = locked] \in RequestType
        /\ \A s \in LeaseIds :
             objects'[s].holder = q <=> locked \in Holding /\ s = r.sid
    BY <1>1, <1>2, <2>2
  <2>. QED
    BY <2>2, <2>3, <2>4, <2>5
<1>4. CASE objects[r.sid].holder # None
  <2>1. objects' = objects /\ Go(q, [r EXCEPT !.pc = waiting])
    BY <1>4 DEF Enter
  <2>2. /\ req'[q] = [r EXCEPT !.pc = waiting]
        /\ \A p \in Requests \ {q} : req'[p] = req[p]
        /\ req' \in [Requests -> RequestType]
    BY <1>2, <2>1, GoOnly
  <2>3. Types'
    BY <1>1, <2>1, <2>2 DEF Types, LeaseIds, Cursors
  <2>4. Grows /\ OwnLocks(q) /\ Len(objects') = Len(objects)
    BY <1>1, <2>1, ObjectsTable DEF Grows, OwnLocks, LeaseIds
  <2>5. waiting \notin Holding
    BY DEF Holding
  <2>6. /\ [r EXCEPT !.pc = waiting] \in RequestType
        /\ \A s \in LeaseIds :
             objects'[s].holder = q <=> waiting \in Holding /\ s = r.sid
    BY <1>1, <1>2, <2>1, <2>5
  <2>. QED
    BY <2>1, <2>2, <2>3, <2>4, <2>6
<1>. QED
  BY <1>3, <1>4


\* continue_snapshot: the cursor and its lease are there, or the query ends.
LEMMA ContinueStep ==
  ASSUME LeaseInductive, NEW q \in Requests, Continue(q)
  PROVE  LeaseInductive'
<1>. DEFINE k == req[q].cursor
<1>1. /\ req[q].pc = "evict" /\ req[q].evict = {} /\ k # None /\ guard' = None
      /\ UNCHANGED <<now, store, free, leased, cursors, bound, open>>
  BY DEF Continue, store_vars
<1>2. /\ RequestOK(q) /\ Types /\ guard = q /\ req[q].sid = 0 /\ 0 \notin leased
      /\ req[q] \in RequestType /\ leased \subseteq LeaseIds
      /\ req[q].next = None /\ req[q].res # "page"
  BY <1>1, RequestKnown
     DEF RequestOK, Inside, Guarding, HasSnapshot, LeaseIds, Types, Before
<1>3. CASE k \in cursors /\ k[1] \in leased
  <2>1. k \in Nat \X Nat
    BY <1>1, <1>2 DEF RequestType
  <2>2. PICK r \in RequestType : r = [req[q] EXCEPT !.sid = k[1], !.after = k[2]]
    BY <1>2, <2>1 DEF RequestType
  <2>3. PICK locked \in {"bound", "read"} : locked = ReadPC(objects[k[1]].binding)
    BY DEF ReadPC
  <2>a. Enter(q, r, locked, "lock") /\ r.sid = k[1]
    BY <1>2, <1>3, <2>2, <2>3 DEF Continue, RequestType
  <2>4. \A pc : LET x == [r EXCEPT !.pc = pc] IN
          /\ x.pc = pc /\ x.sid = k[1] /\ x.binding = req[q].binding
          /\ x.cursor = k /\ x.next = None /\ x.evict = {}
          /\ x.res = req[q].res
    BY <1>1, <1>2, <2>1, <2>2 DEF RequestType
  <2>5. r.sid \in LeaseIds /\ locked \in Holding /\ req[q].pc \notin Holding
    BY <1>1, <1>2, <1>3, <2>a DEF Holding
  <2>6. /\ Types' /\ Len(objects') = Len(objects) /\ Grows /\ OwnLocks(q)
        /\ \A p \in Requests \ {q} : req'[p] = req[p]
        /\ \E pc \in {locked, "lock"} :
             /\ req'[q] = [r EXCEPT !.pc = pc]
             /\ req'[q] \in RequestType
             /\ \A s \in LeaseIds :
                  objects'[s].holder = q <=> pc \in Holding /\ s = r.sid
        /\ \A s \in LeaseIds : objects'[s].snap = objects[s].snap
    <3>1. "lock" \in {"lock", "summary_lock"} /\ Enter(q, r, locked, "lock")
      BY <2>a
    <3>2. UNCHANGED <<now, store, free, leased, cursors, bound, open>>
      BY <1>1
    <3>. QED
      BY <2>5, <3>1, <3>2, EnterTable
  <2>7. PICK pc \in {"bound", "read", "lock"} :
          /\ req'[q] = [r EXCEPT !.pc = pc]
          /\ \A s \in LeaseIds :
               objects'[s].holder = q <=> pc \in Holding /\ s = r.sid
    BY <2>6
  <2>8. /\ req'[q].pc = pc /\ req'[q].sid = k[1] /\ req'[q].cursor = k
        /\ req'[q].binding = req[q].binding /\ req'[q].next = None
        /\ req'[q].evict = {} /\ req'[q].res = req[q].res
    BY <2>4, <2>7
  <2>9. LeaseIds' = LeaseIds
    BY <2>6 DEF LeaseIds
  <2>10. RequestOK(q)'
    BY <1>1, <1>2, <1>3, <2>a, <2>5, <2>7, <2>8, <2>9, RequestKnown
       DEF RequestOK, HasSnapshot, Evicting, Inside, CursorKept, PageSeen,
           Confirmed, Guarding, Holding, Before, Reading
  <2>. QED
    BY <1>1, <1>2, <2>6, <2>8, <2>10, QuietStep, RequestKnown
<1>4. CASE ~(k \in cursors /\ k[1] \in leased)
  <2>. DEFINE r == [req[q] EXCEPT !.pc = "done", !.res = "CURSOR_EXPIRED"]
  <2>1. Go(q, r) /\ UNCHANGED objects
    BY <1>4 DEF Continue, Reply
  <2>2. /\ r \in RequestType
        /\ r.pc = "done" /\ r.res = "CURSOR_EXPIRED"
        /\ r.sid = req[q].sid /\ r.binding = req[q].binding
    BY RequestKnown DEF RequestType, Results
  <2>3. req'[q] = r /\ LeaseIds' = LeaseIds
    BY <2>1, GoOnly DEF LeaseIds
  <2>. HIDE DEF r
  <2>4. RequestOK(q)'
    BY <1>1, <1>2, <2>1, <2>2, <2>3, RequestKnown
       DEF RequestOK, HasSnapshot, Evicting, Inside, CursorKept, PageSeen,
           Confirmed, Guarding, Holding, Before, Reading
  <2>. QED
    BY <1>1, <1>2, <2>1, <2>2, <2>4, PlainStep, RequestKnown
<1>. QED
  BY <1>3, <1>4

\* lease.lock is granted.
LEMMA GrantStep ==
  ASSUME LeaseInductive, NEW q \in Requests, Grant(q)
  PROVE  LeaseInductive'
<1>. DEFINE locked == IF req[q].pc = "lock" THEN ReadPC(LeaseOf(q).binding)
                                            ELSE "summary_read"
<1>1. /\ req[q].pc \in {"lock", "summary_lock"} /\ LeaseOf(q).holder = None
      /\ Enter(q, req[q], locked, "lock")
      /\ UNCHANGED <<now, store, free, leased, cursors, bound, open, guard>>
  BY DEF Grant, store_vars
<1>2. /\ RequestOK(q) /\ Types /\ req[q].sid \in LeaseIds
      /\ req[q] \in RequestType /\ req[q].pc \notin Holding
  BY <1>1, RequestKnown DEF RequestOK, HasSnapshot, Reading, Holding
<1>3. /\ locked \in Holding
      /\ req[q].pc = "lock" => locked \in {"bound", "read"}
      /\ req[q].pc # "lock" => locked = "summary_read"
  BY DEF ReadPC, Holding
<1>4. /\ Go(q, [req[q] EXCEPT !.pc = locked])
      /\ objects' = [objects EXCEPT ![req[q].sid].holder = q]
  BY <1>1 DEF Enter, LeaseOf
<1>. HIDE DEF locked
<1>5. /\ Types' /\ Len(objects') = Len(objects) /\ Grows /\ OwnLocks(q)
      /\ \A p \in Requests \ {q} : req'[p] = req[p]
  BY <1>1, <1>2, <1>3, EnterTable
<1>6. /\ \A s \in LeaseIds :
           /\ objects'[s].holder =
                (IF s = req[q].sid THEN q ELSE objects[s].holder)
           /\ objects'[s].snap = objects[s].snap
           /\ objects'[s].binding = objects[s].binding
      /\ LeaseIds' = LeaseIds
  BY <1>1, <1>2, <1>4, <1>5, SetHolder DEF LeaseOf, LeaseIds, Grows
<1>7. req'[q] = [req[q] EXCEPT !.pc = locked]
  BY <1>4, GoOnly
<1>8. /\ req'[q].pc = locked /\ req'[q].sid = req[q].sid
      /\ req'[q].cursor = req[q].cursor /\ req'[q].binding = req[q].binding
      /\ req'[q].next = req[q].next /\ req'[q].evict = req[q].evict
      /\ req'[q].res = req[q].res /\ req'[q].page = req[q].page
      /\ req'[q].after = req[q].after
  BY <1>2, <1>7 DEF RequestType
<1>9. PageShown(q) => PageShown(q)'
  BY <1>2, <1>6, <1>8 DEF PageShown, LeaseOf
<1>10. RequestOK(q)'
  BY <1>1, <1>2, <1>3, <1>6, <1>8, <1>9
     DEF RequestOK, HasSnapshot, Evicting, Inside, CursorKept, PageSeen,
         Confirmed, Guarding, Holding, Before, Reading
<1>11. req'[q].pc \in Waiting /\ req'[q].pc \notin {"rollback", "getconn"}
  BY <1>3, <1>8 DEF Waiting, Holding
<1>. QED
  BY <1>1, <1>5, <1>8, <1>10, <1>11, QuietStep


\* A trace page is summarized, if the lease is still there.
LEMMA SummarizeStep ==
  ASSUME LeaseInductive, NEW q \in Requests, Summarize(q)
  PROVE  LeaseInductive'
<1>1. /\ req[q].pc = "expiry" /\ req[q].left = 0
      /\ UNCHANGED <<now, store, free, leased, cursors, bound, open, guard>>
  BY DEF Summarize, store_vars
<1>2. /\ RequestOK(q) /\ Types /\ req[q].sid \in LeaseIds
      /\ req[q] \in RequestType /\ req[q].pc \notin Holding
      /\ req[q].page \in SUBSET Rows
  BY <1>1, RequestKnown DEF RequestOK, HasSnapshot, Reading, Holding, RequestType
<1>3. CASE LeaseOf(q).binding.route # "TRACES"
  <2>. DEFINE r == [req[q] EXCEPT !.pc = "finish"]
  <2>1. Go(q, r) /\ UNCHANGED objects
    BY <1>3 DEF Summarize
  <2>2. /\ r \in RequestType
        /\ r.pc = "finish" /\ r.res = req[q].res /\ r.cursor = req[q].cursor
        /\ r.sid = req[q].sid /\ r.binding = req[q].binding
        /\ r.evict = req[q].evict /\ r.next = req[q].next
        /\ r.page = req[q].page /\ r.after = req[q].after
    BY <1>2 DEF RequestType, Waiting
  <2>3. req'[q] = r /\ LeaseIds' = LeaseIds
    BY <2>1, GoOnly DEF LeaseIds
  <2>. HIDE DEF r
  <2>4. PageShown(q) => PageShown(q)'
    BY <2>1, <2>2, <2>3 DEF PageShown, LeaseOf
  <2>5. Confirmed(q)' => PageShown(q)'
    <3>1. req[q].page # {} => 0 < Cardinality(req[q].page)
      BY <1>2, LeaseAssumption, FS_Subset, FS_CardinalityType, FS_EmptySet
    <3>2. Confirmed(q)' => req[q].page # {}
      BY <1>1, <1>2, <1>3, <2>1, <2>2, <2>3
         DEF Confirmed, LeaseOf, RequestOK, HasSnapshot
    <3>. QED
      BY <1>1, <1>2, <2>4, <3>1, <3>2 DEF RequestOK, PageSeen, Confirmed
  <2>6. RequestOK(q)'
    BY <1>1, <1>2, <2>1, <2>2, <2>3, <2>4, <2>5
       DEF RequestOK, HasSnapshot, Evicting, Inside, CursorKept, PageSeen,
           Guarding, Holding, Before, Reading
  <2>. QED
    BY <1>1, <2>1, <2>2, <2>6, PlainStep DEF Waiting
<1>4. CASE LeaseOf(q).binding.route = "TRACES" /\ req[q].sid \in leased
  <2>1. Enter(q, req[q], "summary_read", "summary_lock")
    BY <1>4 DEF Summarize
  <2>2. "summary_read" \in Holding
    BY DEF Holding
  <2>3. /\ Types' /\ Len(objects') = Len(objects) /\ Grows /\ OwnLocks(q)
        /\ \A p \in Requests \ {q} : req'[p] = req[p]
        /\ \E pc \in {"summary_read", "summary_lock"} :
             /\ req'[q] = [req[q] EXCEPT !.pc = pc]
             /\ req'[q] \in RequestType
             /\ \A s \in LeaseIds :
                  objects'[s].holder = q <=> pc \in Holding /\ s = req[q].sid
        /\ \A s \in LeaseIds : objects'[s].snap = objects[s].snap
    BY <1>1, <1>2, <2>1, <2>2, EnterTable
  <2>4. PICK pc \in {"summary_read", "summary_lock"} :
          /\ req'[q] = [req[q] EXCEPT !.pc = pc]
          /\ \A s \in LeaseIds :
               objects'[s].holder = q <=> pc \in Holding /\ s = req[q].sid
    BY <2>3
  <2>5. /\ req'[q].pc = pc /\ req'[q].sid = req[q].sid
        /\ req'[q].cursor = req[q].cursor /\ req'[q].binding = req[q].binding
        /\ req'[q].next = req[q].next /\ req'[q].evict = req[q].evict
        /\ req'[q].res = req[q].res /\ req'[q].page = req[q].page
        /\ req'[q].after = req[q].after
    BY <1>2, <2>4 DEF RequestType
  <2>6. LeaseIds' = LeaseIds
    BY <2>3 DEF LeaseIds
  <2>7. PageShown(q)'
    <3>1. PageShown(q)
      BY <1>1, <1>2, <1>4 DEF RequestOK, PageSeen
    <3>. QED
      BY <1>2, <2>3, <2>5, <3>1 DEF PageShown, LeaseOf, Grows
  <2>8. RequestOK(q)'
    BY <1>1, <1>2, <2>4, <2>5, <2>6, <2>7
       DEF RequestOK, HasSnapshot, Evicting, Inside, CursorKept, PageSeen,
           Guarding, Holding, Before, Reading
  <2>. QED
    BY <1>1, <2>3, <2>5, <2>8, QuietStep DEF Waiting
<1>5. CASE LeaseOf(q).binding.route = "TRACES" /\ req[q].sid \notin leased
  <2>1. Break(q) /\ UNCHANGED objects
    BY <1>5 DEF Summarize
  <2>. QED
    BY <1>1, <2>1, BreakStep
<1>. QED
  BY <1>3, <1>4, <1>5

\* The summary was read, or the lease is to be released.
LEMMA ReadSummaryStep ==
  ASSUME LeaseInductive, NEW q \in Requests, ReadSummary(q)
  PROVE  LeaseInductive'
<1>1. /\ req[q].pc = "summary_read"
      /\ objects' = [objects EXCEPT ![req[q].sid].holder = None]
      /\ UNCHANGED <<now, store, free, leased, cursors, bound, open, guard>>
  BY DEF ReadSummary, store_vars
<1>2. /\ RequestOK(q) /\ Types /\ req[q].sid \in LeaseIds
      /\ req[q] \in RequestType /\ objects[req[q].sid].holder = q
      /\ PageShown(q)
  BY <1>1, RequestKnown
     DEF RequestOK, HasSnapshot, Inside, Reading, Holding, PageSeen, Confirmed
<1>3. /\ objects' \in Seq(ObjectType) /\ Len(objects') = Len(objects)
      /\ Grows /\ OwnLocks(q)
      /\ \A s \in LeaseIds :
           /\ objects'[s].holder = (IF s = req[q].sid THEN None
                                                      ELSE objects[s].holder)
           /\ objects'[s].snap = objects[s].snap
  BY <1>1, <1>2, SetHolder
<1>. DEFINE after(pc, res) == [req[q] EXCEPT !.pc = pc, !.res = res]
<1>4. \/ Go(q, after("finish", req[q].res))
      \/ Go(q, after("drop", "QUERY_INTERNAL"))
  BY <1>2 DEF ReadSummary, Break, RequestType
<1>5. PICK pc \in {"finish", "drop"}, res \in {req[q].res, "QUERY_INTERNAL"} :
        Go(q, after(pc, res))
  BY <1>4
<1>6. /\ after(pc, res) \in RequestType
      /\ req'[q] = after(pc, res) /\ req' \in [Requests -> RequestType]
      /\ \A p \in Requests \ {q} : req'[p] = req[p]
  <2>1. after(pc, res) \in RequestType
    BY <1>2 DEF RequestType, Waiting, Results
  <2>. QED
    BY <1>5, <2>1, GoOnly
<1>7. /\ req'[q].pc = pc /\ req'[q].sid = req[q].sid
      /\ req'[q].cursor = req[q].cursor /\ req'[q].binding = req[q].binding
      /\ req'[q].next = req[q].next /\ req'[q].evict = req[q].evict
      /\ req'[q].res = res /\ req'[q].page = req[q].page
      /\ req'[q].after = req[q].after
  BY <1>2, <1>6 DEF RequestType
<1>8. Types' /\ LeaseIds' = LeaseIds
  BY <1>1, <1>2, <1>3, <1>6 DEF Types, LeaseIds, Cursors
<1>9. PageShown(q)'
  BY <1>2, <1>3, <1>7 DEF PageShown, LeaseOf, Grows
<1>10. RequestOK(q)'
  BY <1>1, <1>2, <1>3, <1>7, <1>8, <1>9, RequestKnown
     DEF RequestOK, HasSnapshot, Evicting, Inside, CursorKept, PageSeen,
         Guarding, Holding, Before, Reading
<1>. QED
  BY <1>1, <1>3, <1>6, <1>7, <1>8, <1>10, QuietStep DEF Waiting


-------------------------------------------------------------------------------
(* Reading a page *)

\* The page could not be read.
LEMMA ReadFailedStep ==
  ASSUME LeaseInductive, NEW q \in Requests,
         NEW res \in {"QUERY_BOUND_EXCEEDED", "QUERY_INTERNAL"},
         ReadFailed(q, res), req[q].pc \in {"bound", "read"},
         UNCHANGED <<now, store, free, leased, cursors, bound, open, guard>>
  PROVE  LeaseInductive'
<1>. DEFINE pc == IF req[q].cursor = None THEN "drop" ELSE "done"
            r == [req[q] EXCEPT !.pc = pc, !.res = res]
<1>1. /\ objects' = [objects EXCEPT ![req[q].sid].holder = None] /\ Go(q, r)
  BY DEF ReadFailed
<1>2. /\ RequestOK(q) /\ Types /\ req[q].sid \in LeaseIds
      /\ req[q] \in RequestType /\ objects[req[q].sid].holder = q
  BY RequestKnown DEF RequestOK, HasSnapshot, Inside, Reading, Holding
<1>3. /\ objects' \in Seq(ObjectType) /\ Len(objects') = Len(objects)
      /\ Grows /\ OwnLocks(q)
      /\ \A s \in LeaseIds :
           objects'[s].holder = (IF s = req[q].sid THEN None
                                                   ELSE objects[s].holder)
  BY <1>1, <1>2, SetHolder
<1>4. pc \in {"drop", "done"} /\ (pc = "done" => req[q].cursor # None)
  OBVIOUS
<1>. HIDE DEF pc
<1>5. /\ r \in RequestType /\ r.pc = pc /\ r.sid = req[q].sid
      /\ r.cursor = req[q].cursor /\ r.binding = req[q].binding
      /\ r.next = req[q].next /\ r.evict = req[q].evict /\ r.res = res
  BY <1>2, <1>4 DEF RequestType, Waiting, Results
<1>6. /\ req'[q] = r /\ req' \in [Requests -> RequestType]
      /\ \A p \in Requests \ {q} : req'[p] = req[p]
  BY <1>1, <1>5, GoOnly
<1>. HIDE DEF r
<1>7. Types' /\ LeaseIds' = LeaseIds
  BY <1>2, <1>3, <1>6 DEF Types, LeaseIds, Cursors
<1>8. RequestOK(q)'
  BY <1>2, <1>3, <1>4, <1>5, <1>6, <1>7, RequestKnown
     DEF RequestOK, HasSnapshot, Evicting, Inside, CursorKept, PageSeen,
         Confirmed, Guarding, Holding, Before, Reading
<1>9. req[q].sid \in leased =>
        \/ req'[q].pc \in Waiting /\ req'[q].sid = req[q].sid
        \/ \E k \in cursors : k[1] = req[q].sid
  BY <1>2, <1>4, <1>5, <1>6 DEF RequestOK, CursorKept, Reading, Waiting
<1>. QED
  BY <1>3, <1>4, <1>5, <1>6, <1>7, <1>8, <1>9, QuietStep

\* The count of a Delivery's spans takes the snapshot.
LEMMA CheckBoundStep ==
  ASSUME LeaseInductive, NEW q \in Requests, CheckBound(q)
  PROVE  LeaseInductive'
<1>1. /\ req[q].pc = "bound"
      /\ UNCHANGED <<now, store, free, leased, cursors, bound, open, guard>>
  BY DEF CheckBound, store_vars
<1>2. /\ RequestOK(q) /\ Types /\ req[q].sid \in LeaseIds
      /\ req[q] \in RequestType /\ objects[req[q].sid].holder = q
  BY <1>1, RequestKnown DEF RequestOK, HasSnapshot, Inside, Reading, Holding
<1>3. CASE \E res \in {"QUERY_BOUND_EXCEEDED", "QUERY_INTERNAL"} : ReadFailed(q, res)
  BY <1>1, <1>3, ReadFailedStep
<1>. DEFINE r == [req[q] EXCEPT !.pc = "read"]
<1>4. CASE Look(q, q) /\ Go(q, r)
  <2>1. /\ objects' \in Seq(ObjectType) /\ Len(objects') = Len(objects)
        /\ Grows /\ OwnLocks(q)
        /\ \A s \in LeaseIds :
             objects'[s].holder =
               (IF s = req[q].sid THEN q ELSE objects[s].holder)
    BY <1>2, <1>4, LookTable DEF LeaseOf
  <2>2. /\ r \in RequestType /\ r.pc = "read" /\ r.sid = req[q].sid
        /\ r.cursor = req[q].cursor /\ r.binding = req[q].binding
        /\ r.next = req[q].next /\ r.evict = req[q].evict /\ r.res = req[q].res
    BY <1>2 DEF RequestType, Waiting
  <2>3. /\ req'[q] = r /\ req' \in [Requests -> RequestType]
        /\ \A p \in Requests \ {q} : req'[p] = req[p]
    BY <1>4, <2>2, GoOnly
  <2>. HIDE DEF r
  <2>4. Types' /\ LeaseIds' = LeaseIds
    BY <1>1, <1>2, <2>1, <2>3 DEF Types, LeaseIds, Cursors
  <2>5. RequestOK(q)'
    BY <1>1, <1>2, <2>1, <2>2, <2>3, <2>4
       DEF RequestOK, HasSnapshot, Evicting, Inside, CursorKept, PageSeen,
           Confirmed, Guarding, Holding, Before, Reading
  <2>. QED
    BY <1>1, <2>1, <2>2, <2>3, <2>4, <2>5, QuietStep DEF Waiting
<1>. QED
  BY <1>3, <1>4 DEF CheckBound

\* What the page's statement returns is the lease's snapshot as long as the
\* lease is there.
LEMMA VisibleSnapshot ==
  ASSUME LeaseInductive, NEW q \in Requests, NEW h \in {q, None}, Look(q, h),
         req[q].sid \in leased, LeaseOf(q).holder = q
  PROVE  objects'[req[q].sid].snap = Visible(q) /\ Visible(q) # None
<1>1. /\ Types /\ req[q].sid \in LeaseIds /\ req[q].sid # None
      /\ open[LeaseOf(q).conn] = req[q].sid
  BY RequestKnown, ObjectsTable, LeaseAssumption
     DEF Types, LeaseInductive, TableOK, LeasesOpen, LeaseOf
<1>2. Visible(q) = Snapshot(req[q].sid)
  BY <1>1 DEF Visible
<1>. QED
  BY <1>1, <1>2, LookTable

\* The page is read, with its cursor and the cursor's binding.
LEMMA ReadPageStep ==
  ASSUME LeaseInductive, NEW q \in Requests, ReadPage(q)
  PROVE  LeaseInductive'
<1>. DEFINE b == LeaseOf(q).binding
            page == PageOf(Visible(q), b, req[q].after)
            more == HasMore(Visible(q), b, req[q].after)
            next == IF more THEN <<req[q].sid, GreatestOf(page)>> ELSE None
            given == IF more THEN {next} ELSE {}
            pc == IF b.route = "TASKS" THEN "finish" ELSE "expiry"
            r == [req[q] EXCEPT !.pc = pc, !.page = page, !.next = next,
                                !.left = Cardinality(page)]
<1>1. /\ req[q].pc = "read"
      /\ UNCHANGED <<now, store, free, leased, open, guard>>
  BY DEF ReadPage, store_vars
<1>2. /\ RequestOK(q) /\ Types /\ req[q].sid \in LeaseIds
      /\ req[q] \in RequestType /\ objects[req[q].sid].holder = q
      /\ LeaseIds \subseteq Nat
  BY <1>1, RequestKnown, ObjectsTable
     DEF RequestOK, HasSnapshot, Inside, Reading, Holding
<1>3. CASE ReadFailed(q, "QUERY_INTERNAL") /\ UNCHANGED <<cursors, bound>>
  BY <1>1, <1>3, ReadFailedStep
<1>4. CASE /\ Look(q, None) /\ Go(q, r) /\ cursors' = cursors \cup given
           /\ DOMAIN bound' = DOMAIN bound \cup given
  <2>1. /\ objects' \in Seq(ObjectType) /\ Len(objects') = Len(objects)
        /\ Grows /\ OwnLocks(q)
        /\ \A s \in LeaseIds :
             objects'[s].holder =
               (IF s = req[q].sid THEN None ELSE objects[s].holder)
        /\ Visible(q) \in SUBSET Rows
    BY <1>2, <1>4, LookTable DEF LeaseOf
  <2>2. b \in Bindings /\ req[q].after \in Nat /\ Rows \subseteq Nat
    BY <1>2, ObjectsTable, LeaseAssumption DEF LeaseOf, ObjectType, RequestType
  <2>3. /\ page \in SUBSET Rows /\ Cardinality(page) \in Nat
        /\ more => GreatestOf(page) \in Rows
    BY <2>1, <2>2, PageRows
  <2>4. /\ given \subseteq Cursors /\ next \in (Nat \X Nat) \cup {None}
        /\ next # None => next \in given /\ next[1] = req[q].sid
    <3>1. CASE more
      <4>1. next = <<req[q].sid, GreatestOf(page)>> /\ given = {next}
        BY <3>1
      <4>. HIDE DEF page, given, next
      <4>2. /\ next \in LeaseIds \X Rows /\ next \in Nat \X Nat
            /\ next[1] = req[q].sid
        BY <1>2, <2>2, <2>3, <3>1, <4>1
      <4>. QED
        BY <4>1, <4>2 DEF Cursors
    <3>2. CASE ~more
      BY <3>2
    <3>. QED
      BY <3>1, <3>2
  <2>5. pc \in {"finish", "expiry"} /\ (pc = "finish" => b.route = "TASKS")
    OBVIOUS
  <2>6. req[q].sid \in leased =>
          /\ objects'[req[q].sid].snap # None
          /\ page = PageOf(objects'[req[q].sid].snap, b, req[q].after)
    BY <1>2, <1>4, VisibleSnapshot DEF LeaseOf
  <2>7. b = objects[req[q].sid].binding
    BY DEF LeaseOf
  <2>. HIDE DEF b, page, more, next, given, pc
  <2>8. /\ r \in RequestType /\ r.pc = pc /\ r.sid = req[q].sid
        /\ r.cursor = req[q].cursor /\ r.binding = req[q].binding
        /\ r.next = next /\ r.evict = req[q].evict /\ r.res = req[q].res
        /\ r.page = page /\ r.left = Cardinality(page) /\ r.after = req[q].after
    BY <1>2, <2>3, <2>4, <2>5 DEF RequestType, Waiting
  <2>9. /\ req'[q] = r /\ req' \in [Requests -> RequestType]
        /\ \A p \in Requests \ {q} : req'[p] = req[p]
    BY <1>4, <2>8, GoOnly
  <2>. HIDE DEF r
  <2>10. Types' /\ LeaseIds' = LeaseIds
    BY <1>1, <1>2, <1>4, <2>1, <2>4, <2>9 DEF Types, LeaseIds, Cursors
  <2>11. PageSeen(q)'
    <3>1. ~Confirmed(q)'
      <4>1. LeaseOf(q)'.binding = b
        BY <1>2, <2>1, <2>7, <2>8, <2>9 DEF LeaseOf, Grows
      <4>2. req'[q].res # "page"
        BY <1>1, <1>2, <2>8, <2>9 DEF RequestOK, HasSnapshot
      <4>. QED
        BY <2>3, <2>5, <2>8, <2>9, <4>1, <4>2 DEF Confirmed
    <3>2. req[q].sid \in leased => PageShown(q)'
      BY <1>2, <2>1, <2>6, <2>7, <2>8, <2>9 DEF PageShown, LeaseOf, Grows
    <3>. QED
      BY <1>1, <2>8, <2>9, <3>1, <3>2 DEF PageSeen
  <2>12. RequestOK(q)'
    BY <1>1, <1>2, <1>4, <2>1, <2>4, <2>5, <2>8, <2>9, <2>10, <2>11, RequestKnown
       DEF RequestOK, HasSnapshot, Evicting, Inside, CursorKept,
           Guarding, Holding, Before, Reading
  <2>. QED
    BY <1>1, <1>4, <2>1, <2>5, <2>8, <2>9, <2>10, <2>12, QuietStep DEF Waiting
<1>. QED
  BY <1>3, <1>4 DEF ReadPage


-------------------------------------------------------------------------------
(* Leasing and returning connections *)

\* The holder of the guard takes a lease out of _leases: there is no other
\* request in the guard, and the connection is in no other lease.
LEMMA PopLeaseStep ==
  ASSUME LeaseInductive, NEW q \in Requests, NEW sid \in leased,
         NEW r \in RequestType, PopLease(q, sid, r),
         guard' = q, guard \in {q, None},
         UNCHANGED <<now, store, free, objects, bound, open>>,
         req[q].pc \in {"evict", "drop"}, req[q].pc = "drop" => req[q].sid = sid,
         Releasing(q)' = sid, RequestOK(q)'
  PROVE  LeaseInductive'
<1>. DEFINE x == [r EXCEPT !.pc = "rollback"]
<1>1. /\ leased' = leased \ {sid} /\ Go(q, x)
      /\ cursors' = {k \in cursors : k[1] # sid}
  BY DEF PopLease
<1>2. /\ Types /\ TableOK /\ LeaseInUse /\ \A p \in Requests : RequestOK(p)
      /\ leased \subseteq LeaseIds /\ None \notin Requests /\ LeaseIds' = LeaseIds
  BY RequestKnown DEF LeaseInductive, Types, LeaseIds
<1>3. x \in RequestType /\ x.pc = "rollback" /\ x.sid = r.sid
  BY DEF RequestType, Waiting
<1>4. /\ req'[q] = x /\ req' \in [Requests -> RequestType]
      /\ \A p \in Requests \ {q} : req'[p] = req[p]
  BY <1>1, <1>3, GoOnly
<1>. HIDE DEF x
<1>5. Types'
  BY <1>1, <1>2, <1>4 DEF Types, LeaseIds, Cursors
<1>6. \A p \in Requests \ {q} :
        guard # p /\ req[p].pc \notin Guarding /\ req'[p] = req[p]
  BY <1>2, <1>4 DEF RequestOK, Inside
<1>7. Spares(q)
  <2>1. Grows /\ OwnLocks(q)
    BY <1>2, ObjectsTable DEF Grows, OwnLocks, LeaseIds
  <2>. QED
    BY <1>1, <1>4, <1>6, <2>1 DEF Spares
<1>8. \A p \in Requests : RequestOK(p)'
  BY <1>2, <1>5, <1>7, OtherRequest
<1>9. \A p \in Requests : req'[p].pc = "rollback" => p = q
  BY <1>6 DEF Guarding
<1>10. objects[sid].conn \notin free /\ open[objects[sid].conn] = sid
  BY <1>2 DEF TableOK, LeasesOpen
<1>11. LeasesOpen'
  BY <1>1, <1>2 DEF TableOK, LeasesOpen
<1>12. ReturningApart'
  BY <1>1, <1>2, <1>9, <1>10 DEF TableOK, LeasesOpen, ReturningApart
<1>13. NoneLost'
  <2>1. ASSUME NEW p \in Requests PROVE req[p].pc # "rollback"
    BY <1>6 DEF Guarding
  <2>2. req'[q].pc = "rollback" /\ Releasing(q)' = sid
    BY <1>3, <1>4
  <2>3. ASSUME NEW c \in Pool \ free
        PROVE  c = objects[sid].conn \/ \E s \in leased' : objects'[s].conn = c
    BY <1>1, <1>2, <2>1 DEF TableOK, NoneLost
  <2>. QED
    BY <2>2, <2>3 DEF NoneLost
<1>14. WithinLimit'
  <2>1. Cardinality(leased') = Cardinality(leased) - 1
    BY <1>1, <1>2, ObjectsTable, FS_RemoveElement
  <2>2. /\ Cardinality(leased) \in Nat /\ LeaseLimit \in Nat
        /\ Cardinality(leased) <= LeaseLimit
    BY <1>2, ObjectsTable, LeaseAssumption DEF TableOK, WithinLimit
  <2>. QED
    BY <2>1, <2>2 DEF WithinLimit
<1>15. LeaseInUse'
  <2>. SUFFICES ASSUME NEW s \in leased, s # sid
                PROVE  \/ \E p \in Requests : req'[p].pc \in Waiting
                                                /\ req'[p].sid = s
                       \/ \E k \in cursors' : k[1] = s
    BY <1>1 DEF LeaseInUse
  <2>1. CASE \E k \in cursors : k[1] = s
    BY <1>1, <2>1
  <2>2. ASSUME NEW p \in Requests, req[p].pc \in Waiting, req[p].sid = s
        PROVE  p # q
    <3>1. req[q].pc = "evict" => req[q].sid \notin leased
      BY <1>2, ObjectsTable DEF RequestOK, HasSnapshot, LeaseIds
    <3>. QED
      BY <2>2, <3>1
  <2>. QED
    BY <1>2, <1>4, <2>1, <2>2 DEF LeaseInUse
<1>. QED
  BY <1>5, <1>8, <1>11, <1>12, <1>13, <1>14, <1>15 DEF LeaseInductive, TableOK


\* The next expired lease is taken out of _leases.
LEMMA EvictStep ==
  ASSUME LeaseInductive, NEW q \in Requests, Evict(q)
  PROVE  LeaseInductive'
<1>. DEFINE sid == LeastOf(req[q].evict)
            x == [req[q] EXCEPT !.pc = "rollback"]
<1>1. /\ req[q].pc = "evict" /\ req[q].evict # {} /\ PopLease(q, sid, req[q])
      /\ UNCHANGED <<now, store, free, objects, bound, open, guard>>
  BY DEF Evict, store_vars
<1>2. /\ RequestOK(q) /\ Types /\ req[q] \in RequestType /\ guard = q
      /\ req[q].evict \subseteq leased /\ leased \subseteq LeaseIds
      /\ LeaseIds' = LeaseIds /\ req[q].sid = 0 /\ req[q].res # "page"
      /\ req[q].binding \in Bindings /\ None \notin Requests
      /\ req[q].next = None
  BY <1>1, RequestKnown
     DEF RequestOK, Inside, Guarding, Evicting, Types, LeaseIds, HasSnapshot,
         Before
<1>3. sid \in req[q].evict
  BY <1>1, <1>2, LeastOfIn, ObjectsTable
<1>4. /\ x.pc = "rollback" /\ x.evict = req[q].evict /\ x.sid = 0
      /\ x.binding = req[q].binding /\ x.res = req[q].res /\ x.next = None
  BY <1>2 DEF RequestType
<1>5. req'[q] = x /\ leased' = leased \ {sid}
  BY <1>1, GoOnly DEF PopLease
<1>6. Releasing(q)' = sid
  BY <1>1, <1>4, <1>5 DEF Releasing
<1>. HIDE DEF sid, x
<1>7. RequestOK(q)'
  BY <1>1, <1>2, <1>3, <1>4, <1>5, <1>6
     DEF RequestOK, HasSnapshot, Evicting, Inside, CursorKept, PageSeen,
         Confirmed, Guarding, Holding, Before, Reading
<1>8. sid \in leased /\ guard' = q /\ guard \in {q, None}
  BY <1>1, <1>2, <1>3
<1>. QED
  BY <1>1, <1>2, <1>6, <1>7, <1>8, PopLeaseStep

\* release_snapshot takes the request's own lease out of _leases, unless it is
\* gone already.
LEMMA DropStep ==
  ASSUME LeaseInductive, NEW q \in Requests, Drop(q)
  PROVE  LeaseInductive'
<1>1. /\ req[q].pc = "drop" /\ guard = None
      /\ UNCHANGED <<now, store, free, objects, bound, open>>
  BY DEF Drop, store_vars
<1>2. /\ RequestOK(q) /\ Types /\ req[q] \in RequestType
      /\ req[q].evict = {} /\ leased \subseteq LeaseIds
      /\ LeaseIds' = LeaseIds /\ req[q].sid \in LeaseIds
      /\ req[q].binding \in Bindings /\ None \notin Requests
  BY <1>1, RequestKnown
     DEF RequestOK, Evicting, Types, LeaseIds, HasSnapshot, Reading
<1>3. CASE req[q].sid \in leased
  <2>. DEFINE x == [req[q] EXCEPT !.pc = "rollback"]
  <2>1. guard' = q /\ PopLease(q, req[q].sid, req[q])
    BY <1>3 DEF Drop
  <2>2. /\ x.pc = "rollback" /\ x.evict = {} /\ x.sid = req[q].sid
        /\ x.binding = req[q].binding /\ x.res = req[q].res
        /\ x.page = req[q].page /\ x.after = req[q].after
    BY <1>2 DEF RequestType
  <2>3. req'[q] = x /\ leased' = leased \ {req[q].sid}
    BY <2>1, GoOnly DEF PopLease
  <2>4. Releasing(q)' = req[q].sid
    BY <2>2, <2>3 DEF Releasing
  <2>. HIDE DEF x
  <2>5. Confirmed(q)' => PageShown(q)'
    <3>1. Confirmed(q)' => Confirmed(q)
      BY <1>1, <2>2, <2>3 DEF Confirmed, LeaseOf
    <3>2. PageShown(q) => PageShown(q)'
      BY <1>1, <2>2, <2>3 DEF PageShown, LeaseOf
    <3>. QED
      BY <1>2, <3>1, <3>2 DEF RequestOK, PageSeen
  <2>6. RequestOK(q)'
    BY <1>1, <1>2, <2>1, <2>2, <2>3, <2>4, <2>5
       DEF RequestOK, HasSnapshot, Evicting, Inside, CursorKept, PageSeen,
           Guarding, Holding, Before, Reading
  <2>. QED
    BY <1>1, <1>2, <1>3, <2>1, <2>4, <2>6, PopLeaseStep
<1>4. CASE req[q].sid \notin leased
  <2>. DEFINE r == [req[q] EXCEPT !.pc = "done"]
  <2>1. Go(q, r) /\ UNCHANGED <<guard, leased, cursors>>
    BY <1>4 DEF Drop
  <2>2. /\ r \in RequestType
        /\ r.pc = "done" /\ r.sid = req[q].sid
        /\ r.binding = req[q].binding /\ r.res = req[q].res
        /\ r.page = req[q].page /\ r.after = req[q].after
    BY <1>2 DEF RequestType
  <2>3. req'[q] = r
    BY <2>1, GoOnly
  <2>. HIDE DEF r
  <2>4. Confirmed(q)' => PageShown(q)'
    <3>1. Confirmed(q)' => Confirmed(q)
      BY <1>1, <2>2, <2>3 DEF Confirmed, LeaseOf
    <3>2. PageShown(q) => PageShown(q)'
      BY <1>1, <2>2, <2>3 DEF PageShown, LeaseOf
    <3>. QED
      BY <1>2, <3>1, <3>2 DEF RequestOK, PageSeen
  <2>5. RequestOK(q)'
    BY <1>1, <1>2, <2>1, <2>2, <2>3, <2>4
       DEF RequestOK, HasSnapshot, Evicting, Inside, CursorKept, PageSeen,
           Guarding, Holding, Before, Reading
  <2>. QED
    BY <1>1, <1>4, <2>1, <2>2, <2>5, PlainStep
<1>. QED
  BY <1>3, <1>4


\* ROLLBACK and putconn: the connection goes back whatever comes of it.
LEMMA RollbackStep ==
  ASSUME LeaseInductive, NEW q \in Requests, Rollback(q)
  PROVE  LeaseInductive'
<1>. DEFINE sid == Releasing(q)
            c == objects[sid].conn
            evicting == req[q].evict # {}
<1>1. /\ req[q].pc = "rollback"
      /\ open' = [open EXCEPT ![c] = None] /\ free' = free \cup {c}
      /\ UNCHANGED <<now, store, objects, leased, cursors, bound>>
  BY DEF Rollback, store_vars
<1>2. /\ Types /\ TableOK /\ LeaseInUse /\ \A p \in Requests : RequestOK(p)
      /\ leased \subseteq LeaseIds /\ None \notin Requests /\ LeaseIds' = LeaseIds
      /\ req[q] \in RequestType
  BY <1>1, RequestKnown DEF LeaseInductive, Types, LeaseIds
<1>3. /\ sid \in LeaseIds \ leased /\ guard = q
      /\ evicting => req[q].sid = 0 /\ req[q].next = None
      /\ evicting => req[q].evict \ {sid} \subseteq leased /\ req[q].res # "page"
      /\ ~evicting => req[q].sid = sid
      /\ req[q].binding \in Bindings
      /\ req[q].res = "page" => req[q].sid \in LeaseIds
  <2>0. RequestOK(q) /\ 0 \notin LeaseIds
    BY <1>2 DEF LeaseIds
  <2>. QED
    BY <1>1, <2>0
       DEF RequestOK, Evicting, Inside, Guarding, Releasing, HasSnapshot
<1>4. /\ c \in Pool /\ c \notin free
      /\ \A s \in leased : objects[s].conn # c
  BY <1>1, <1>2, <1>3, ObjectsTable DEF TableOK, ReturningApart, ObjectType
<1>5. \A p \in Requests \ {q} : guard # p /\ req[p].pc \notin Guarding
  BY <1>2, <1>3 DEF RequestOK, Inside
<1>. DEFINE again == [req[q] EXCEPT !.pc = "evict", !.evict = @ \ {sid}]
            done == [req[q] EXCEPT !.pc = "done"]
            error == [req[q] EXCEPT !.pc = "done", !.res = "QUERY_INTERNAL"]
<1>6. \/ evicting /\ Go(q, again) /\ guard' = q
      \/ ~evicting /\ Go(q, done) /\ guard' = None
      \/ Go(q, error) /\ guard' = None
  BY DEF Rollback
<1>7. /\ again \in RequestType /\ done \in RequestType /\ error \in RequestType
      /\ again.pc = "evict" /\ again.evict = req[q].evict \ {sid}
      /\ again.sid = req[q].sid /\ again.binding = req[q].binding
      /\ again.res = req[q].res /\ again.next = req[q].next
      /\ done.pc = "done" /\ done.sid = req[q].sid
      /\ done.binding = req[q].binding /\ done.res = req[q].res
      /\ done.page = req[q].page /\ done.after = req[q].after
      /\ error.pc = "done" /\ error.res = "QUERY_INTERNAL"
      /\ error.sid = req[q].sid /\ error.binding = req[q].binding
  BY <1>2 DEF RequestType, Waiting, Results
<1>. HIDE DEF sid, c, evicting, again, done, error
<1>8. RequestOK(q)'
  <2>0. RequestOK(q)
    BY <1>2
  <2>1. CASE evicting /\ Go(q, again) /\ guard' = q
    <3>1. req'[q] = again
      BY <2>1, GoOnly
    <3>. QED
      BY <1>1, <1>2, <1>3, <1>7, <2>0, <2>1, <3>1
         DEF RequestOK, HasSnapshot, Evicting, Inside, CursorKept, PageSeen,
             Confirmed, Guarding, Holding, Before, Reading
  <2>2. CASE ~evicting /\ Go(q, done) /\ guard' = None
    <3>1. req'[q] = done
      BY <2>2, GoOnly
    <3>2. Confirmed(q)' => Confirmed(q)
      BY <1>1, <1>7, <3>1 DEF Confirmed, LeaseOf
    <3>3. PageShown(q) => PageShown(q)'
      BY <1>1, <1>7, <3>1 DEF PageShown, LeaseOf
    <3>4. PageSeen(q)'
      BY <1>7, <2>0, <3>1, <3>2, <3>3 DEF RequestOK, PageSeen
    <3>. QED
      BY <1>1, <1>2, <1>3, <1>7, <2>0, <2>2, <3>1, <3>4
         DEF RequestOK, HasSnapshot, Evicting, Inside, CursorKept,
             Guarding, Holding, Before, Reading
  <2>3. CASE Go(q, error) /\ guard' = None
    <3>1. req'[q] = error
      BY <2>3, GoOnly
    <3>. QED
      BY <1>1, <1>2, <1>3, <1>7, <2>0, <2>3, <3>1
         DEF RequestOK, HasSnapshot, Evicting, Inside, CursorKept, PageSeen,
             Confirmed, Guarding, Holding, Before, Reading
  <2>. QED
    BY <1>6, <2>1, <2>2, <2>3
<1>9. /\ req'[q].pc \in {"evict", "done"}
      /\ req' \in [Requests -> RequestType]
      /\ \A p \in Requests \ {q} : req'[p] = req[p]
      /\ guard' \in {q, None}
  BY <1>6, <1>7, GoOnly
<1>10. Types'
  BY <1>1, <1>2, <1>4, <1>9 DEF Types, LeaseIds, Cursors
<1>11. \A p \in Requests : RequestOK(p)'
  <2>1. Grows /\ OwnLocks(q)
    BY <1>1, <1>2, ObjectsTable DEF Grows, OwnLocks, LeaseIds
  <2>2. Spares(q)
    BY <1>1, <1>2, <1>5, <1>9, <2>1 DEF Spares
  <2>. QED
    BY <1>2, <1>8, <1>10, <2>2, OtherRequest
<1>12. \A p \in Requests : req'[p].pc \notin {"rollback", "getconn"}
  BY <1>5, <1>9 DEF Guarding
<1>13. LeasesOpen'
  <2>1. \A s \in leased : objects[s].conn \in Pool
    BY <1>2, ObjectsTable DEF ObjectType
  <2>. QED
    BY <1>1, <1>2, <1>4, <2>1 DEF TableOK, LeasesOpen, Types
<1>14. ReturningApart' /\ WithinLimit'
  BY <1>1, <1>2, <1>12 DEF ReturningApart, WithinLimit, TableOK
<1>15. NoneLost'
  <2>. SUFFICES ASSUME NEW e \in Pool \ free, e # c
                PROVE  \E s \in leased : objects[s].conn = e
    BY <1>1 DEF NoneLost
  <2>1. \A p \in Requests : req[p].pc = "rollback" => p = q
    BY <1>5 DEF Guarding
  <2>. QED
    BY <1>2, <2>1 DEF TableOK, NoneLost, c, sid
<1>16. LeaseInUse'
  <2>1. req[q].sid \notin leased
    BY <1>2, <1>3, ObjectsTable DEF LeaseIds
  <2>. QED
    BY <1>1, <1>2, <1>9, <2>1 DEF LeaseInUse
<1>. QED
  BY <1>10, <1>11, <1>13, <1>14, <1>15, <1>16 DEF LeaseInductive, TableOK

\* A new lease object leaves the others alone.
LEMMA AppendLease ==
  ASSUME Types, NEW lease \in ObjectType, objects' = Append(objects, lease)
  PROVE  LET sid == Len(objects) + 1
         IN  /\ objects' \in Seq(ObjectType) /\ Grows
             /\ LeaseIds' = LeaseIds \cup {sid} /\ sid \in Nat \ LeaseIds
             /\ \A s \in LeaseIds : objects'[s] = objects[s]
             /\ objects'[sid] = lease
<1>1. objects \in Seq(ObjectType) /\ Len(objects) \in Nat
  BY ObjectsTable DEF Types
<1>2. /\ objects' \in Seq(ObjectType) /\ Len(objects') = Len(objects) + 1
      /\ \A s \in LeaseIds : objects'[s] = objects[s]
      /\ objects'[Len(objects) + 1] = lease
  BY <1>1 DEF LeaseIds
<1>3. /\ LeaseIds' = LeaseIds \cup {Len(objects) + 1}
      /\ Len(objects) + 1 \in Nat \ LeaseIds
  BY <1>1, <1>2 DEF LeaseIds
<1>4. Len(objects) <= Len(objects')
  BY <1>1, <1>2
<1>5. Grows
  BY <1>2, <1>4 DEF Grows
<1>. QED
  BY <1>2, <1>3, <1>5

\* A free connection is leased: it is in no other lease, and within the limit.
LEMMA LeaseConnStep ==
  ASSUME LeaseInductive, NEW q \in Requests, NEW c \in free,
         req[q].pc = "getconn", guard' = None,
         NEW sid \in Nat \ LeaseIds, LeaseIds' = LeaseIds \cup {sid},
         free' = free \ {c}, open' = [open EXCEPT ![c] = sid],
         objects' \in Seq(ObjectType), Grows,
         \A s \in LeaseIds : objects'[s] = objects[s],
         objects'[sid].conn = c, objects'[sid].holder = q,
         leased' = leased \cup {sid},
         NEW pc \in {"bound", "read"},
         Go(q, [req[q] EXCEPT !.pc = pc, !.sid = sid]),
         UNCHANGED <<now, store, cursors, bound>>
  PROVE  LeaseInductive'
<1>. DEFINE x == [req[q] EXCEPT !.pc = pc, !.sid = sid]
<1>1. /\ Types /\ TableOK /\ LeaseInUse /\ \A p \in Requests : RequestOK(p)
      /\ leased \subseteq LeaseIds /\ None \notin Requests
      /\ req[q] \in RequestType /\ c \in Pool
  BY RequestKnown, ObjectsTable, LeaseAssumption DEF LeaseInductive, Types
<1>2. /\ guard = q /\ req[q].sid = 0 /\ req[q].cursor = None
      /\ req[q].next = None /\ req[q].evict = {} /\ req[q].binding \in Bindings
      /\ req[q].res # "page" /\ \A s \in LeaseIds : objects[s].holder # q
  BY <1>1 DEF RequestOK, Inside, Guarding, Holding, Evicting, HasSnapshot, Before
<1>3. /\ x \in RequestType /\ x.pc = pc /\ x.sid = sid
      /\ x.binding = req[q].binding /\ x.cursor = None /\ x.next = None
      /\ x.evict = {} /\ x.res = req[q].res
  BY <1>1, <1>2 DEF RequestType, Waiting
<1>4. /\ req'[q] = x /\ req' \in [Requests -> RequestType]
      /\ \A p \in Requests \ {q} : req'[p] = req[p]
  BY <1>3, GoOnly
<1>. HIDE DEF x
<1>5. Types'
  BY <1>1, <1>4 DEF Types, Cursors
<1>6. RequestOK(q)'
  <2>1. None \notin Requests /\ 0 \notin LeaseIds
    BY <1>1 DEF LeaseIds
  <2>2. HasSnapshot(q)' /\ Evicting(q)' /\ CursorKept(q)' /\ PageSeen(q)'
    BY <1>2, <1>3, <1>4
       DEF HasSnapshot, Evicting, CursorKept, PageSeen, Confirmed, Before,
           Reading
  <2>3. guard' # q /\ req'[q].pc \notin Guarding /\ req'[q].pc \in Holding
    BY <1>3, <1>4, <2>1 DEF Guarding, Holding
  <2>4. \A s \in LeaseIds' : objects'[s].holder = q <=> sid = s
    BY <1>2
  <2>5. Inside(q)'
    BY <1>3, <1>4, <2>3, <2>4 DEF Inside
  <2>. QED
    BY <2>2, <2>5 DEF RequestOK
<1>7. \A p \in Requests \ {q} : guard # p /\ req[p].pc \notin Guarding
  BY <1>1, <1>2 DEF RequestOK, Inside
<1>8. \A p \in Requests : RequestOK(p)'
  <2>1. OwnLocks(q)
    BY DEF OwnLocks
  <2>2. Spares(q)
    BY <1>1, <1>4, <1>7, <2>1 DEF Spares
  <2>. QED
    BY <1>1, <1>5, <1>6, <2>2, OtherRequest
<1>9. \A p \in Requests : req'[p].pc \notin {"rollback", "getconn"}
  BY <1>3, <1>4, <1>7 DEF Guarding
<1>10. LeasesOpen'
  <2>1. \A s \in leased : /\ objects[s].conn \in Pool /\ objects[s].conn # c
                          /\ objects'[s].conn = objects[s].conn
                          /\ open[objects[s].conn] = s
                          /\ objects[s].conn \notin free
    BY <1>1, ObjectsTable DEF ObjectType, TableOK, LeasesOpen
  <2>2. open'[c] = sid /\ \A e \in Pool \ {c} : open'[e] = open[e]
    BY <1>1 DEF Types
  <2>. QED
    BY <2>1, <2>2 DEF LeasesOpen
<1>11. ReturningApart'
  BY <1>9 DEF ReturningApart
<1>12. WithinLimit'
  <2>1. Cardinality(leased') = Cardinality(leased) + 1
    BY <1>1, ObjectsTable, FS_AddElement
  <2>2. /\ Cardinality(leased) \in Nat /\ LeaseLimit \in Nat
        /\ Cardinality(leased) < LeaseLimit
    BY <1>1, ObjectsTable, LeaseAssumption DEF TableOK, WithinLimit
  <2>. QED
    BY <1>9, <2>1, <2>2 DEF WithinLimit
<1>13. NoneLost'
  <2>1. \A p \in Requests : req[p].pc # "rollback"
    BY <1>7 DEF Guarding
  <2>2. \A e \in Pool \ free : \E s \in leased : objects[s].conn = e
    BY <1>1, <2>1 DEF TableOK, NoneLost
  <2>3. \A e \in Pool \ free' : e = c \/ e \in Pool \ free
    OBVIOUS
  <2>. QED
    BY <1>1, <2>2, <2>3 DEF NoneLost
<1>14. LeaseInUse'
  <2>1. 0 \notin leased /\ req'[q].pc \in Waiting /\ req'[q].sid = sid
    BY <1>1, <1>3, <1>4 DEF LeaseIds, Waiting
  <2>. QED
    BY <1>1, <1>2, <1>4, <2>1 DEF LeaseInUse
<1>. QED
  BY <1>5, <1>8, <1>10, <1>11, <1>12, <1>13, <1>14 DEF LeaseInductive, TableOK


\* getconn and BEGIN lease a connection, or the query is refused.
LEMMA GetConnStep ==
  ASSUME LeaseInductive, NEW q \in Requests, GetConn(q)
  PROVE  LeaseInductive'
<1>. DEFINE lease(c) == [conn |-> c, binding |-> req[q].binding,
                         expires |-> req[q].at + LeaseTTL, holder |-> q,
                         snap |-> None]
            refused == [req[q] EXCEPT !.pc = "done", !.res = "QUERY_UNAVAILABLE"]
<1>1. /\ req[q].pc = "getconn" /\ guard' = None
      /\ UNCHANGED <<now, store, cursors, bound>>
  BY DEF GetConn, store_vars
<1>2. /\ RequestOK(q) /\ Types /\ req[q] \in RequestType
      /\ free \subseteq Pool /\ leased \subseteq LeaseIds
      /\ None \notin Requests /\ LeaseTTL \in Nat
  BY RequestKnown, LeaseAssumption DEF Types
<1>3. /\ guard = q /\ req[q].sid = 0 /\ req[q].binding \in Bindings
      /\ req[q].evict = {} /\ req[q].res # "page"
      /\ \A s \in LeaseIds : objects[s].holder # q
      /\ 0 \notin LeaseIds
  BY <1>1, <1>2
     DEF RequestOK, Inside, Guarding, Holding, HasSnapshot, Evicting, LeaseIds
<1>4. ASSUME NEW c \in free, NEW sid, sid = Len(objects) + 1,
             free' = free \ {c}, open' = [open EXCEPT ![c] = sid],
             objects' = Append(objects, lease(c)), leased' = leased \cup {sid},
             Go(q, [req[q] EXCEPT !.pc = ReadPC(req[q].binding), !.sid = sid])
      PROVE  LeaseInductive'
  <2>1. PICK l \in ObjectType :
          objects' = Append(objects, l) /\ l.conn = c /\ l.holder = q
    <3>1. lease(c) \in ObjectType
      BY <1>2, <1>3 DEF ObjectType, RequestType
    <3>. QED
      BY <1>4, <3>1
  <2>2. /\ objects' \in Seq(ObjectType) /\ Grows
        /\ LeaseIds' = LeaseIds \cup {sid} /\ sid \in Nat \ LeaseIds
        /\ \A s \in LeaseIds : objects'[s] = objects[s]
        /\ objects'[sid] = l
    BY <1>2, <1>4, <2>1, AppendLease
  <2>3. PICK pc \in {"bound", "read"} : pc = ReadPC(req[q].binding)
    BY DEF ReadPC
  <2>4. Go(q, [req[q] EXCEPT !.pc = pc, !.sid = sid])
    BY <1>4, <2>3
  <2>5. objects'[sid].conn = c /\ objects'[sid].holder = q
    BY <2>1, <2>2
  <2>. QED
    BY <1>1, <1>4, <2>2, <2>4, <2>5, LeaseConnStep
<1>5. ASSUME Go(q, refused), UNCHANGED <<free, open, objects, leased>>
      PROVE  LeaseInductive'
  <2>1. /\ refused \in RequestType
        /\ refused.pc = "done" /\ refused.res = "QUERY_UNAVAILABLE"
        /\ refused.sid = 0 /\ refused.binding = req[q].binding
    BY <1>2, <1>3 DEF RequestType, Results
  <2>2. req'[q] = refused /\ LeaseIds' = LeaseIds
    BY <1>5, GoOnly DEF LeaseIds
  <2>. HIDE DEF refused
  <2>3. RequestOK(q)'
    BY <1>1, <1>2, <1>3, <1>5, <2>1, <2>2
       DEF RequestOK, HasSnapshot, Evicting, Inside, CursorKept, PageSeen,
           Confirmed, Guarding, Holding, Before, Reading
  <2>4. \A p \in Requests \ {q} : guard' = p <=> guard = p
    BY <1>1, <1>2, <1>3
  <2>. QED
    BY <1>1, <1>2, <1>3, <1>5, <2>1, <2>3, <2>4, PlainStep
<1>6. CASE Go(q, refused) /\ UNCHANGED <<free, open, objects, leased>>
  BY <1>5, <1>6
<1>7. CASE \E c \in free :
             /\ free' = free \ {c} /\ open' = [open EXCEPT ![c] = Len(objects) + 1]
             /\ objects' = Append(objects, lease(c))
             /\ leased' = leased \cup {Len(objects) + 1}
             /\ Go(q, [req[q] EXCEPT !.pc = ReadPC(req[q].binding),
                                     !.sid = Len(objects) + 1])
  BY <1>4, <1>7
<1>. QED
  BY <1>6, <1>7 DEF GetConn, Reply

-------------------------------------------------------------------------------
(* The invariant *)

\* The clock and commits of admission and retention touch no lease.
LEMMA AroundStep ==
  ASSUME LeaseInductive, Tick \/ Change \/ UNCHANGED vars
  PROVE  LeaseInductive'
<1>1. UNCHANGED <<free, objects, leased, cursors, bound, open, guard, req>>
  BY DEF Tick, Change, vars, lease_vars
<1>2. now' \in 0..MaxTime /\ store' \subseteq Rows
  <2>1. now \in 0..MaxTime /\ MaxTime \in Nat /\ store \subseteq Rows
    BY LeaseAssumption DEF LeaseInductive, Types
  <2>2. CASE Tick
    BY <2>1, <2>2 DEF Tick
  <2>3. CASE Change
    <3>1. PICK x \in Rows :
            store' = IF x \in store THEN store \ {x} ELSE store \cup {x}
      BY <2>3 DEF Change
    <3>2. now' = now
      BY <2>3 DEF Change
    <3>. QED
      BY <2>1, <3>1, <3>2
  <2>4. CASE UNCHANGED vars
    BY <2>1, <2>4 DEF vars
  <2>. QED
    BY <2>2, <2>3, <2>4
<1>3. LeaseIds' = LeaseIds
  BY <1>1 DEF LeaseIds
<1>4. Types'
  BY <1>1, <1>2, <1>3 DEF LeaseInductive, Types, Cursors
<1>5. \A q \in Requests : RequestOK(q)'
  BY <1>1, <1>3
     DEF LeaseInductive, RequestOK, HasSnapshot, Evicting, Inside, CursorKept,
         PageSeen, PageShown, Confirmed, Releasing, LeaseOf
<1>6. TableOK' /\ LeaseInUse'
  BY <1>1
     DEF LeaseInductive, TableOK, LeasesOpen, ReturningApart, NoneLost,
         WithinLimit, LeaseInUse, Releasing
<1>. QED
  BY <1>4, <1>5, <1>6 DEF LeaseInductive

\* At the start nothing is leased and no query is being answered.
LEMMA LeaseInit ==
  ASSUME Init
  PROVE  LeaseInductive
<1>1. LeaseIds = {} /\ objects \in Seq(ObjectType)
  BY DEF Init, LeaseIds
<1>2. Quiet \in RequestType /\ Quiet.pc = "idle" /\ Quiet.res = "none"
      /\ Quiet.evict = {}
  BY DEF Quiet, RequestType, Results
<1>3. Types
  BY <1>1, <1>2, LeaseAssumption DEF Init, Types, Cursors
<1>4. ASSUME NEW q \in Requests
      PROVE  RequestOK(q)
  <2>1. req[q] = Quiet /\ guard # q
    BY LeaseAssumption DEF Init
  <2>. QED
    BY <1>1, <1>2, <2>1
       DEF RequestOK, HasSnapshot, Evicting, Inside, CursorKept, PageSeen,
           Confirmed, Guarding, Holding, Before, Reading
<1>5. TableOK /\ LeaseInUse
  <2>1. \A q \in Requests : req[q].pc = "idle"
    BY <1>2 DEF Init
  <2>2. leased = {} /\ Cardinality(leased) <= LeaseLimit
    <3>1. LeaseLimit \in Nat
      BY LeaseAssumption
    <3>. QED
      BY <3>1, FS_EmptySet DEF Init
  <2>. QED
    BY <2>1, <2>2
       DEF Init, TableOK, LeasesOpen, ReturningApart, NoneLost, WithinLimit,
           LeaseInUse
<1>. QED
  BY <1>3, <1>4, <1>5 DEF LeaseInductive


\* One case per step of a request.
LEMMA LeaseStep ==
  ASSUME LeaseInductive, [Next]_vars
  PROVE  LeaseInductive'
<1>1. ASSUME NEW q \in Requests, NEW b \in Bindings,
             NEW k \in DOMAIN bound \cup {None}, Ask(q, b, k)
      PROVE  LeaseInductive'
  BY <1>1, AskStep
<1>2. ASSUME NEW q \in Requests, RequestStep(q)
      PROVE  LeaseInductive'
  <2>1. CASE EnterGuard(q)
    BY <2>1, EnterGuardStep
  <2>2. CASE Evict(q)
    BY <2>2, EvictStep
  <2>3. CASE Rollback(q)
    BY <2>3, RollbackStep
  <2>4. CASE Continue(q)
    BY <2>4, ContinueStep
  <2>5. CASE CheckCapacity(q)
    BY <2>5, CheckCapacityStep
  <2>6. CASE GetConn(q)
    BY <2>6, GetConnStep
  <2>7. CASE Grant(q)
    BY <2>7, GrantStep
  <2>8. CASE CheckBound(q)
    BY <2>8, CheckBoundStep
  <2>9. CASE ReadPage(q)
    BY <2>9, ReadPageStep
  <2>10. CASE LookupExpiry(q)
    BY <2>10, LookupExpiryStep
  <2>11. CASE ReadExpiry(q)
    BY <2>11, ReadExpiryStep
  <2>12. CASE Summarize(q)
    BY <2>12, SummarizeStep
  <2>13. CASE ReadSummary(q)
    BY <2>13, ReadSummaryStep
  <2>14. CASE Finish(q)
    BY <2>14, FinishStep
  <2>15. CASE Drop(q)
    BY <2>15, DropStep
  <2>16. CASE Answer(q)
    BY <2>16, AnswerStep
  <2>. QED
    BY <1>2, <2>1, <2>2, <2>3, <2>4, <2>5, <2>6, <2>7, <2>8, <2>9, <2>10,
       <2>11, <2>12, <2>13, <2>14, <2>15, <2>16 DEF RequestStep
<1>3. CASE Next
  <2>1. CASE Tick \/ Change
    BY <2>1, AroundStep
  <2>2. CASE \E q \in Requests :
               \/ \E b \in Bindings, k \in DOMAIN bound \cup {None} : Ask(q, b, k)
               \/ RequestStep(q)
    BY <1>1, <1>2, <2>2
  <2>. QED
    BY <1>3, <2>1, <2>2 DEF Next
<1>4. CASE UNCHANGED vars
  BY <1>4, AroundStep
<1>. QED
  BY <1>3, <1>4

\* Whatever the requests interleave, the lease table, the pool, the guard and
\* every request agree as LeaseInductive says.
THEOREM LeaseInvariant == Spec => []LeaseInductive
<1>1. Init => LeaseInductive
  BY LeaseInit
<1>2. LeaseInductive /\ [Next]_vars => LeaseInductive'
  BY LeaseStep
<1>. QED
  BY <1>1, <1>2, PTL DEF Spec

AbortedType == aborted \subseteq LeaseIds

\* A statement fails in the transaction of some snapshot.
LEMMA AbortedIds ==
  ASSUME LeaseInductive, NEW q \in Requests, req[q].pc \in Reading,
         AbortedType, Runs(LeaseOf(q).conn) \/ StatementFails(LeaseOf(q).conn)
  PROVE  aborted' \subseteq LeaseIds
<1>1. Types /\ req[q].sid \in LeaseIds
  BY DEF LeaseInductive, RequestOK, HasSnapshot
<1>2. LeaseOf(q).conn \in Pool
  BY <1>1, ObjectsTable DEF LeaseOf, ObjectType
<1>3. open[LeaseOf(q).conn] \in LeaseIds \cup {None}
  BY <1>1, <1>2 DEF Types
<1>. QED
  BY <1>3 DEF AbortedType, Runs, StatementFails, fault_vars

\* No step forgets a snapshot.
LEMMA ObjectsKept ==
  ASSUME LeaseInductive, [Next]_vars
  PROVE  DOMAIN objects \subseteq DOMAIN objects'
<1>1. DOMAIN objects = 1..Len(objects) /\ objects \in Seq(ObjectType)
  BY DEF LeaseInductive, Types
<1>2. ASSUME NEW q \in Requests, NEW b \in Bindings,
             NEW k \in DOMAIN bound \cup {None}, Ask(q, b, k)
      PROVE  objects' = objects
  BY <1>2 DEF Ask, lease_vars
<1>3. ASSUME NEW q \in Requests, RequestStep(q), objects' # objects
      PROVE  DOMAIN objects \subseteq DOMAIN objects'
  <2>1. CASE GetConn(q)
    <3>1. PICK lease : objects' = Append(objects, lease)
      BY <1>3, <2>1 DEF GetConn
    <3>. QED
      BY <1>1, <3>1
  <2>2. CASE Continue(q)
    BY <1>3, <2>2 DEF Continue, Enter
  <2>3. CASE Grant(q)
    BY <1>3, <2>3 DEF Grant, Enter
  <2>4. CASE Summarize(q)
    BY <1>3, <2>4 DEF Summarize, Enter
  <2>5. CASE CheckBound(q)
    BY <2>5 DEF CheckBound, ReadFailed, Look
  <2>6. CASE ReadPage(q)
    BY <2>6 DEF ReadPage, ReadFailed, Look
  <2>7. CASE ReadSummary(q)
    BY <2>7 DEF ReadSummary
  <2>. QED
    BY <1>3, <2>1, <2>2, <2>3, <2>4, <2>5, <2>6, <2>7
    DEF RequestStep, EnterGuard, Evict, Rollback, CheckCapacity, LookupExpiry,
        ReadExpiry, Finish, Drop, Answer, lease_vars
<1>4. CASE Tick \/ Change \/ UNCHANGED vars
  BY <1>4 DEF Tick, Change, vars, lease_vars
<1>. QED
  BY <1>2, <1>3, <1>4 DEF Next

\* The transactions that have failed are those of snapshots.
LEMMA AbortedStep ==
  ASSUME LeaseInductive, LeaseInductive', AbortedType, [Next]_vars
  PROVE  AbortedType'
<1>1. LeaseIds \subseteq LeaseIds'
  <2>1. DOMAIN objects = LeaseIds /\ DOMAIN objects' = LeaseIds'
    BY DEF LeaseInductive, Types, LeaseIds
  <2>. QED
    BY <2>1, ObjectsKept
<1>2. ASSUME NEW q \in Requests, RequestStep(q)
      PROVE  aborted' \subseteq LeaseIds
  <2>1. CASE CheckBound(q)
    BY <2>1, AbortedIds DEF CheckBound, AbortedType, Reading
  <2>2. CASE ReadPage(q)
    BY <2>2, AbortedIds DEF ReadPage, Reading
  <2>3. CASE ReadExpiry(q)
    BY <2>3, AbortedIds DEF ReadExpiry, Reading
  <2>4. CASE ReadSummary(q)
    BY <2>4, AbortedIds DEF ReadSummary, Reading
  <2>5. CASE Rollback(q)
    BY <2>5 DEF Rollback, AbortedType
  <2>. QED
    BY <1>2, <2>1, <2>2, <2>3, <2>4, <2>5
    DEF RequestStep, EnterGuard, Evict, Continue, CheckCapacity, GetConn, Grant,
        LookupExpiry, Summarize, Finish, Drop, Answer, fault_vars, AbortedType
<1>3. ASSUME ~\E q \in Requests : RequestStep(q)
      PROVE  aborted' \subseteq LeaseIds
  BY <1>3 DEF Next, Ask, Tick, Change, vars, fault_vars, AbortedType
<1>. QED
  BY <1>1, <1>2, <1>3 DEF AbortedType

\* No other transaction counts as failed.
THEOREM AbortedSnapshots == Spec => []AbortedType
<1>1. Init => AbortedType
  BY DEF Init, AbortedType
<1>. QED
  BY <1>1, AbortedStep, LeaseInvariant, PTL DEF Spec

\* _lease_guard and lease.lock are held exactly by the requests inside them, and
\* ids, cursors and connections refer to what exists.
THEOREM LeaseTypes == Spec => []LeaseTypeOK
<1>1. ASSUME LeaseInductive, AbortedType
      PROVE  LeaseTypeOK
  <2>1. Types /\ \A q \in Requests : RequestOK(q)
    BY <1>1 DEF LeaseInductive
  <2>2. ASSUME NEW q \in Requests
        PROVE  /\ req[q].pc \in Waiting \cup {"idle", "done"}
               /\ req[q].pc \in {"evict", "rollback", "getconn"} <=> guard = q
               /\ req[q].pc \in {"bound", "read", "summary_read"} <=>
                    \E s \in 1..Len(objects) : objects[s].holder = q
    <3>1. req[q] \in RequestType /\ RequestOK(q)
      BY <2>1 DEF Types
    <3>2. req[q].pc \in Holding => req[q].sid \in LeaseIds
      BY <3>1 DEF RequestOK, HasSnapshot, Holding, Reading
    <3>3. req[q].pc \in Holding <=> \E s \in LeaseIds : objects[s].holder = q
      BY <3>1, <3>2 DEF RequestOK, Inside
    <3>4. req[q].pc \in Guarding <=> guard = q
      BY <3>1 DEF RequestOK, Inside
    <3>5. req[q].pc \in Waiting \cup {"idle", "done"}
      BY <3>1 DEF RequestType
    <3>. QED
      BY <3>3, <3>4, <3>5 DEF Holding, Guarding, LeaseIds
  <2>. QED
    BY <1>1, <2>1, <2>2 DEF LeaseTypeOK, Types, Cursors, LeaseIds, AbortedType
<1>. QED
  BY <1>1, LeaseInvariant, AbortedSnapshots, PTL

\* Every lease in _leases is one that a request is using or that a cursor in
\* _cursors leads to, whatever statements fail: none waits for its expiry
\* without either.  That a page can still be read is not said: after a
\* continuation that failed, the lease's transaction is an aborted one.
THEOREM LeasesUsed == Spec => []LeaseInUse
<1>1. LeaseInductive => LeaseInUse
  BY DEF LeaseInductive
<1>. QED
  BY <1>1, LeaseInvariant, PTL

\* A page of traces, or of facts with a row, that is answered is the page of its
\* lease's snapshot, even when the lease was released while it was being read:
\* read_expiry and trace_task_summaries look the lease up again.
THEOREM ConfirmedPages ==
  Spec => [](\A q \in Requests :
               /\ req[q].pc = "done" /\ req[q].res = "page"
               /\ \/ LeaseOf(q).binding.route = "TRACES"
                  \/ LeaseOf(q).binding.route = "FACTS" /\ req[q].page # {}
               => PageShown(q))
<1>1. ASSUME LeaseInductive, NEW q \in Requests, req[q].res = "page",
             \/ LeaseOf(q).binding.route = "TRACES"
             \/ LeaseOf(q).binding.route = "FACTS" /\ req[q].page # {}
      PROVE  PageShown(q)
  <2>1. RequestOK(q)
    BY <1>1 DEF LeaseInductive
  <2>2. Confirmed(q)
    BY <1>1 DEF Confirmed
  <2>. QED
    BY <2>1, <2>2 DEF RequestOK, PageSeen
<1>. DEFINE P == \A q \in Requests :
                   /\ req[q].pc = "done" /\ req[q].res = "page"
                   /\ \/ LeaseOf(q).binding.route = "TRACES"
                      \/ LeaseOf(q).binding.route = "FACTS" /\ req[q].page # {}
                   => PageShown(q)
<1>2. LeaseInductive => P
  BY <1>1
<1>. QED
  BY <1>2, LeaseInvariant, PTL

\* Where only traces are queried every answered page is the page of its lease's
\* snapshot.  Pages of tasks, and of facts without a row, are not looked up again.
THEOREM PagesFromSnapshot ==
  ASSUME \A b \in Bindings : b.route = "TRACES"
  PROVE  Spec => []PageFromSnapshot
<1>1. ASSUME LeaseInductive
      PROVE  PageFromSnapshot
  <2>. SUFFICES ASSUME NEW q \in Requests, req[q].res = "page"
                PROVE  PageShown(q)
    BY DEF PageFromSnapshot, PageShown
  <2>1. Types /\ RequestOK(q)
    BY <1>1 DEF LeaseInductive
  <2>2. req[q].sid \in LeaseIds
    BY <2>1 DEF RequestOK, HasSnapshot
  <2>3. LeaseOf(q).binding \in Bindings
    BY <2>1, <2>2, ObjectsTable DEF LeaseOf, ObjectType
  <2>4. Confirmed(q)
    BY <2>3 DEF Confirmed
  <2>. QED
    BY <2>1, <2>4 DEF RequestOK, PageSeen
<1>. QED
  BY <1>1, LeaseInvariant, PTL


-------------------------------------------------------------------------------
(* Connections *)

LeasedConns == {objects[s].conn : s \in leased}
Returning == {objects[Releasing(q)].conn :
                q \in {p \in Requests : req[p].pc = "rollback"}}

\* A function that tells the elements of a finite set apart keeps its size.
LEMMA SameSize ==
  ASSUME NEW S, IsFiniteSet(S), NEW T, NEW f \in [S -> T],
         \A t \in T : \E s \in S : f[s] = t,
         \A r, s \in S : f[r] = f[s] => r = s
  PROVE  IsFiniteSet(T) /\ Cardinality(T) = Cardinality(S)
<1>1. IsInjective(f)
  BY DEF IsInjective
<1>2. f \in Injection(S, T) /\ f \in Surjection(S, T)
  BY <1>1 DEF Injection, Surjection
<1>3. ExistsBijection(S, T)
  BY <1>2 DEF ExistsBijection, Bijection
<1>. QED
  BY <1>3, FS_Bijection

\* The sizes of disjoint sets add up.
LEMMA DisjointSize ==
  ASSUME NEW S, NEW T, IsFiniteSet(S), IsFiniteSet(T), S \cap T = {}
  PROVE  /\ IsFiniteSet(S \cup T)
         /\ Cardinality(S \cup T) = Cardinality(S) + Cardinality(T)
<1>1. Cardinality(S) \in Nat /\ Cardinality(T) \in Nat /\ Cardinality(S \cap T) = 0
  BY FS_CardinalityType, FS_EmptySet
<1>2. /\ IsFiniteSet(S \cup T)
      /\ Cardinality(S \cup T)
           = Cardinality(S) + Cardinality(T) - Cardinality(S \cap T)
  BY FS_Union
<1>. QED
  BY <1>1, <1>2

\* A connection is leased at most once, returned by the holder of the guard only,
\* and in one place.
LEMMA ConnectionsApart ==
  ASSUME LeaseInductive
  PROVE  /\ Pool = free \cup LeasedConns \cup Returning
         /\ free \cap (LeasedConns \cup Returning) = {}
         /\ LeasedConns \cap Returning = {}
         /\ IsFiniteSet(LeasedConns) /\ Cardinality(LeasedConns) = Cardinality(leased)
         /\ IsFiniteSet(Returning) /\ Cardinality(Returning) \in {0, 1}
         /\ Cardinality(leased) + Cardinality(Returning) <= LeaseLimit
<1>1. /\ Types /\ TableOK /\ leased \subseteq LeaseIds /\ free \subseteq Pool
      /\ \A q \in Requests : RequestOK(q)
      /\ \A s \in LeaseIds : objects[s].conn \in Pool
      /\ IsFiniteSet(leased) /\ Cardinality(leased) \in Nat /\ LeaseLimit \in Nat
  BY ObjectsTable, LeaseAssumption DEF LeaseInductive, Types, ObjectType
<1>2. ASSUME NEW q \in Requests, req[q].pc = "rollback"
      PROVE  Releasing(q) \in LeaseIds /\ guard = q
  BY <1>1, <1>2 DEF RequestOK, Evicting, Inside, Guarding
<1>3. LeasedConns \subseteq Pool /\ Returning \subseteq Pool
  BY <1>1, <1>2 DEF LeasedConns, Returning
<1>4. Pool \subseteq free \cup LeasedConns \cup Returning
  BY <1>1 DEF TableOK, NoneLost, LeasedConns, Returning
<1>5. /\ free \cap (LeasedConns \cup Returning) = {}
      /\ LeasedConns \cap Returning = {}
  BY <1>1 DEF TableOK, LeasesOpen, ReturningApart, LeasedConns, Returning
<1>6. IsFiniteSet(LeasedConns) /\ Cardinality(LeasedConns) = Cardinality(leased)
  <2>. DEFINE f == [s \in leased |-> objects[s].conn]
  <2>1. f \in [leased -> LeasedConns]
    BY DEF LeasedConns
  <2>2. \A c \in LeasedConns : \E s \in leased : f[s] = c
    BY DEF LeasedConns
  <2>3. \A r, s \in leased : f[r] = f[s] => r = s
    BY <1>1 DEF TableOK, LeasesOpen
  <2>. HIDE DEF f
  <2>. QED
    BY <1>1, <2>1, <2>2, <2>3, SameSize
<1>7. /\ IsFiniteSet(Returning) /\ Cardinality(Returning) \in {0, 1}
      /\ Cardinality(leased) + Cardinality(Returning) <= LeaseLimit
  <2>1. CASE Returning = {}
    <3>1. IsFiniteSet(Returning) /\ Cardinality(Returning) = 0
      BY <2>1, FS_EmptySet
    <3>2. Cardinality(leased) <= LeaseLimit
      BY <1>1 DEF TableOK, WithinLimit
    <3>. QED
      BY <1>1, <3>1, <3>2
  <2>2. CASE Returning # {}
    <3>1. PICK q \in Requests : req[q].pc = "rollback"
      BY <2>2 DEF Returning
    <3>2. \A p \in Requests : req[p].pc = "rollback" => p = q
      BY <1>2, <3>1
    <3>3. Returning = {objects[Releasing(q)].conn}
      BY <3>1, <3>2 DEF Returning
    <3>4. IsFiniteSet(Returning) /\ Cardinality(Returning) = 1
      BY <3>3, FS_Singleton
    <3>5. Cardinality(leased) < LeaseLimit
      BY <1>1, <3>1 DEF TableOK, WithinLimit
    <3>. QED
      BY <1>1, <3>4, <3>5
  <2>. QED
    BY <2>1, <2>2
<1>. QED
  BY <1>1, <1>3, <1>4, <1>5, <1>6, <1>7

\* putconn: no connection is lost or returned twice, whatever statement fails and
\* whichever requests interleave.
THEOREM ConnectionsKept == Spec => []ConnectionsAccounted
<1>1. ASSUME LeaseInductive
      PROVE  ConnectionsAccounted
  <2>. DEFINE out == LeasedConns \cup Returning
  <2>1. IsFiniteSet(out) /\ Cardinality(out) = Cardinality(leased) + Cardinality(Returning)
    BY <1>1, ConnectionsApart, DisjointSize
  <2>2. Pool = free \cup out /\ free \cap out = {}
    BY <1>1, ConnectionsApart
  <2>3. IsFiniteSet(free)
    BY <2>2, LeaseAssumption, FS_Subset
  <2>4. Cardinality(free \cup out) = Cardinality(free) + Cardinality(out)
    BY <2>1, <2>2, <2>3, DisjointSize
  <2>5. /\ Cardinality(free) \in Nat /\ Cardinality(leased) \in Nat
        /\ Cardinality(Returning) \in Nat
    BY <1>1, <2>3, ConnectionsApart, ObjectsTable, FS_CardinalityType
       DEF LeaseInductive
  <2>6. Cardinality(Pool) = Cardinality(free) + Cardinality(leased)
                              + Cardinality(Returning)
    BY <2>1, <2>2, <2>4, <2>5
  <2>. QED
    BY <2>2, <2>6 DEF ConnectionsAccounted, LeasedConns, Returning
<1>. QED
  BY <1>1, LeaseInvariant, PTL

\* lease_limit: queries never keep more connections out of the pool, the one that
\* is going back included, and so leave the others to admission and retention.
THEOREM LeasesLimited == Spec => []LeasesBounded
<1>1. ASSUME LeaseInductive
      PROVE  LeasesBounded
  <2>1. Pool \ free = LeasedConns \cup Returning
    BY <1>1, ConnectionsApart
  <2>2. Cardinality(LeasedConns \cup Returning)
          = Cardinality(leased) + Cardinality(Returning)
    BY <1>1, ConnectionsApart, DisjointSize
  <2>. QED
    BY <1>1, <2>1, <2>2, ConnectionsApart DEF LeasesBounded
<1>. QED
  BY <1>1, LeaseInvariant, PTL
===============================================================================
