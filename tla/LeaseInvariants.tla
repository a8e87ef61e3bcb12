---------------------------- MODULE LeaseInvariants ----------------------------
(***************************************************************************)
(* Why the lease table is right: what _lease_guard and lease.lock give     *)
(* each request at each await, as one inductive conjunction.               *)
(***************************************************************************)
EXTENDS SnapshotLeases

-------------------------------------------------------------------------------
(* Types *)

LeaseIds == 1..Len(objects)
Cursors == LeaseIds \X Rows

ObjectType ==
  [conn : Pool, binding : Bindings, expires : Nat, holder : Requests \cup {None},
   snap : (SUBSET Rows) \cup {None}]

Results == {"none", "page", "CURSOR_MISMATCH", "CURSOR_EXPIRED",
            "QUERY_UNAVAILABLE", "QUERY_BOUND_EXCEEDED", "QUERY_INTERNAL"}

RequestType ==
  [pc : Waiting \cup {"idle", "done"}, binding : Bindings \cup {None},
   cursor : (Nat \X Nat) \cup {None}, at : Nat, sid : Nat, after : Nat,
   page : SUBSET Rows, next : (Nat \X Nat) \cup {None}, left : Nat,
   evict : SUBSET Nat, res : Results]

Types ==
  /\ now \in 0..MaxTime /\ store \subseteq Rows
  /\ free \subseteq Pool
  /\ objects \in Seq(ObjectType)
  /\ leased \subseteq LeaseIds
  /\ cursors \subseteq Cursors /\ DOMAIN bound \subseteq Cursors
  /\ open \in [Pool -> {None} \cup LeaseIds]
  /\ req \in [Requests -> RequestType]

-------------------------------------------------------------------------------
(* What a request knows *)

Guarding == {"evict", "rollback", "getconn"}
Holding == {"bound", "read", "summary_read"}
\* The page is still to be read.
Before == {"guard", "evict", "getconn", "lock", "bound", "read"}
\* A snapshot has been found or made and the answer is not complete.
Reading == {"lock", "bound", "read", "expiry", "expiry_read", "summary_lock",
            "summary_read", "finish", "drop"}

\* A request has a snapshot from continue_snapshot or acquire_snapshot on, and
\* a row while it reads an expiry.
HasSnapshot(q) ==
  LET r == req[q] IN
  /\ r.pc # "idle" => r.binding \in Bindings
  /\ r.pc \in {"guard", "evict", "getconn"} => r.sid = 0
  /\ r.pc = "getconn" => r.cursor = None
  /\ r.pc \in Reading \/ r.res = "page" => r.sid \in LeaseIds
  /\ r.res = "page" => r.pc \in {"drop", "rollback", "done"}
  /\ r.pc \in Before => r.next = None
  /\ r.pc = "expiry_read" => r.left > 0

\* What _evict_expired has still to release is in _leases, and what it is
\* releasing is not; a request that releases its own lease evicts none.
Evicting(q) ==
  LET r == req[q] IN
  /\ r.pc = "evict" => r.evict \subseteq leased
  /\ r.pc = "rollback" =>
       /\ Releasing(q) \in LeaseIds \ leased
       /\ r.evict # {} =>
            /\ r.sid = 0 /\ r.next = None
            /\ r.evict \ {Releasing(q)} \subseteq leased
  /\ r.pc \notin {"evict", "rollback", "done"} => r.evict = {}

\* The guard and lease.lock are held exactly by those inside them.
Inside(q) ==
  /\ guard = q <=> req[q].pc \in Guarding
  /\ \A s \in LeaseIds :
       objects[s].holder = q <=> req[q].pc \in Holding /\ req[q].sid = s

\* While a lease is there, a request that got it with a cursor, or gives one
\* out, leaves a cursor for it.
CursorKept(q) ==
  LET r == req[q] IN
  r.pc \in Reading /\ r.sid \in leased /\ (r.cursor # None \/ r.next # None) =>
    \E k \in cursors : k[1] = r.sid

\* The page is what the lease's transaction showed.
PageShown(q) ==
  /\ LeaseOf(q).snap # None
  /\ req[q].page = PageOf(LeaseOf(q).snap, LeaseOf(q).binding, req[q].after)

\* The request looked its lease up again after it had read the page.
Confirmed(q) ==
  LET r == req[q] IN
  \/ r.pc \in {"expiry_read", "summary_lock", "summary_read"}
  \/ r.pc = "expiry" /\ r.left < Cardinality(r.page)
  \/ /\ r.pc = "finish" \/ r.res = "page"
     /\ \/ LeaseOf(q).binding.route = "TRACES"
        \/ LeaseOf(q).binding.route = "FACTS" /\ r.page # {}

\* The page of a lease that is still there is the snapshot's, and so is one
\* whose lease was seen there afterwards.
PageSeen(q) ==
  /\ Confirmed(q) => PageShown(q)
  /\ req[q].sid \in leased
       /\ req[q].pc \in {"expiry", "expiry_read", "summary_lock",
                         "summary_read", "finish"} => PageShown(q)

RequestOK(q) ==
  HasSnapshot(q) /\ Evicting(q) /\ Inside(q) /\ CursorKept(q) /\ PageSeen(q)

-------------------------------------------------------------------------------
(* The lease table and the pool *)

\* A leased connection is out of the pool, in the transaction of its lease.
LeasesOpen ==
  \A s \in leased : /\ objects[s].conn \notin free
                    /\ open[objects[s].conn] = s

\* The connection that goes back is out of the pool and in no other lease.
ReturningApart ==
  \A q \in Requests : req[q].pc = "rollback" =>
    LET c == objects[Releasing(q)].conn
    IN  c \notin free /\ \A s \in leased : objects[s].conn # c

\* A connection out of the pool is leased or going back.
NoneLost ==
  \A c \in Pool \ free :
    \/ \E s \in leased : objects[s].conn = c
    \/ \E q \in Requests : req[q].pc = "rollback" /\ objects[Releasing(q)].conn = c

\* There is room for the connection that goes back or is about to be leased.
WithinLimit ==
  /\ Cardinality(leased) <= LeaseLimit
  /\ \A q \in Requests : req[q].pc \in {"rollback", "getconn"} =>
       Cardinality(leased) < LeaseLimit

TableOK == LeasesOpen /\ ReturningApart /\ NoneLost /\ WithinLimit

\* The conjunction that every step preserves.
LeaseInductive ==
  /\ Types
  /\ \A q \in Requests : RequestOK(q)
  /\ TableOK
  /\ LeaseInUse
===============================================================================
