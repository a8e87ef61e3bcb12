---------------------------- MODULE SnapshotLeases ----------------------------
(***************************************************************************)
(* Queries over leased snapshots: QueryService.facts/traces/tasks over     *)
(* PostgresQueryReadModel.  The first page of a query leases a pooled      *)
(* connection with an open REPEATABLE READ transaction; its cursors read   *)
(* on in that transaction until the lease is released or has expired and   *)
(* another query evicts it.                                                *)
(*                                                                         *)
(* All requests run on one event loop.  An action is what a request does   *)
(* between two awaits that can suspend it; a statement is queued on the    *)
(* connection's own lock (psycopg) and runs when it is at the head.        *)
(*                                                                         *)
(* pc: idle -> guard -> (evict -> rollback)* -> [getconn] -> [lock] ->     *)
(*     [bound ->] read -> (expiry -> expiry_read)* ->                      *)
(*     [summary -> [summary_lock] -> summary_read] -> finish ->            *)
(*     [drop -> rollback] -> done -> idle                                  *)
(***************************************************************************)
EXTENDS Naturals, Sequences, FiniteSets

CONSTANTS
  Requests,    \* slots for concurrent requests
  Pool,        \* the connections of the runtime's pool
  Bindings,    \* (query, filters, limit): the route, the rows that the
               \* filters match, and whether delivery_id is one of the filters
  Rows,        \* the effect rows, each by its rank in the sort order
  LeaseLimit,  \* lease_limit
  LeaseTTL,    \* lease_ttl
  MaxTime,     \* bound: clock ticks
  MaxQueries,  \* bound: queries asked
  MaxChanges,  \* bound: commits of admission and retention
  MaxFaults,   \* bound: failing statements
  None

ASSUME LeaseAssumption ==
  /\ IsFiniteSet(Pool) /\ IsFiniteSet(Rows)
  /\ LeaseLimit \in 1..Cardinality(Pool)
  /\ LeaseTTL \in Nat \ {0}
  /\ Rows \subseteq Nat \ {0}
  /\ MaxTime \in Nat /\ MaxQueries \in Nat
  /\ MaxChanges \in Nat /\ MaxFaults \in Nat
  /\ \A b \in Bindings : /\ b.route \in {"FACTS", "TRACES", "TASKS"}
                         /\ b.match \subseteq Rows
                         /\ b.delivery \in BOOLEAN
                         /\ b.limit \in Nat \ {0}
  /\ None \notin Requests /\ None \notin Nat
  /\ \A S \in SUBSET Rows : S # None

VARIABLES
  now,       \* the clock
  store,     \* the committed rows, which admission and retention change
  free,      \* the connections not in use by a query
  objects,   \* the _SnapshotLease objects ever made, by snapshot id
  leased,    \* the keys of _leases
  cursors,   \* the values of _cursors: a snapshot id and a position
  bound,     \* _cursor_bindings
  open,      \* the snapshot each connection has a transaction for, or None
  queue,     \* the requests with a statement on each connection
  guard,     \* the holder of _lease_guard, or None
  req,       \* the requests
  asked,     \* queries asked so far
  changes,   \* commits so far
  failed,    \* statements that failed so far
  aborted    \* the snapshots whose transaction has failed

store_vars == <<now, store, asked, changes>>
fault_vars == <<failed, aborted>>
lease_vars == <<free, objects, leased, cursors, open, queue>>
vars == <<now, store, free, objects, leased, cursors, bound, open, queue,
          guard, req, asked, changes, failed, aborted>>

\* A request.  at is the clock it read; sid, after and page are the snapshot,
\* the position and the rows of its page; next is the page's cursor; left are
\* the rows whose expiry is still to be read; evict are the leases to release.
Quiet ==
  [pc |-> "idle", binding |-> None, cursor |-> None, at |-> 0, sid |-> 0,
   after |-> 0, page |-> {}, next |-> None, left |-> 0, evict |-> {},
   res |-> "none"]

Init ==
  /\ now = 0
  /\ store = Rows
  /\ free = Pool
  /\ objects = << >>
  /\ leased = {}
  /\ cursors = {}
  /\ bound = [k \in {} |-> None]
  /\ open = [c \in Pool |-> None]
  /\ queue = [c \in Pool |-> << >>]
  /\ guard = None
  /\ req = [q \in Requests |-> Quiet]
  /\ asked = 0
  /\ changes = 0
  /\ failed = 0
  /\ aborted = {}

-------------------------------------------------------------------------------
(* Pages *)

LeastOf(S) == CHOOSE x \in S : \A y \in S : x <= y
GreatestOf(S) == CHOOSE x \in S : \A y \in S : y <= x

\* WHERE ... AND sort > after ORDER BY sort LIMIT limit + 1, over the rows in S:
\* the rows that match, the first limit of them, and whether there are more.
Matching(S, b, after) == {x \in S \cap b.match : x > after}
PageOf(S, b, after) ==
  {x \in Matching(S, b, after) :
     Cardinality({y \in Matching(S, b, after) : y < x}) < b.limit}
HasMore(S, b, after) == Matching(S, b, after) # PageOf(S, b, after)

-------------------------------------------------------------------------------
(* Steps of a request *)

Go(q, r) == req' = [req EXCEPT ![q] = r]
Reply(q, res) == Go(q, [req[q] EXCEPT !.pc = "done", !.res = res])

LeaseOf(q) == objects[req[q].sid]
Issue(q, c) == queue' = [queue EXCEPT ![c] = Append(@, q)]
Turn(q, c) == queue[c] # << >> /\ Head(queue[c]) = q
Retract(c) == [queue EXCEPT ![c] = Tail(@)]

\* async with lease.lock: the request issues its statement under the lock when
\* the lock is free, and otherwise waits for it.
Enter(q, r, locked, waiting) ==
  LET sid == r.sid IN
  IF objects[sid].holder = None
  THEN /\ objects' = [objects EXCEPT ![sid].holder = q]
       /\ Issue(q, objects[sid].conn)
       /\ Go(q, [r EXCEPT !.pc = locked])
  ELSE /\ UNCHANGED <<objects, queue>>
       /\ Go(q, [r EXCEPT !.pc = waiting])

\* The spans of a whole Delivery are counted before the page is read.
ReadPC(b) == IF b.route = "TRACES" /\ b.delivery THEN "bound" ELSE "read"

\* A statement may fail: the connection breaks or PostgreSQL cancels it.
Fails == failed < MaxFaults /\ failed' = failed + 1

\* A failed statement aborts the transaction it is in, and every later one in
\* that transaction but ROLLBACK fails too.
Runs(c) == open[c] \notin aborted /\ UNCHANGED fault_vars
StatementFails(c) ==
  \/ open[c] \in aborted /\ UNCHANGED fault_vars
  \/ /\ open[c] \notin aborted
     /\ Fails
     /\ aborted' = aborted \cup ({open[c]} \ {None})

\* A query arrives: _normalize, then _page up to the guard.
Ask(q, b, k) ==
  /\ req[q].pc = "idle"
  /\ asked < MaxQueries
  /\ asked' = asked + 1
  /\ Go(q, [Quiet EXCEPT
              !.binding = b, !.cursor = k, !.at = now,
              !.pc = IF k # None /\ bound[k] # b THEN "done" ELSE "guard",
              !.res = IF k # None /\ bound[k] # b THEN "CURSOR_MISMATCH"
                                                  ELSE "none"])
  /\ UNCHANGED <<now, store, changes, lease_vars, bound, guard, fault_vars>>

\* async with self._lease_guard, and the list that _evict_expired makes.
EnterGuard(q) ==
  /\ req[q].pc = "guard"
  /\ guard = None
  /\ guard' = q
  /\ Go(q, [req[q] EXCEPT
              !.pc = "evict",
              !.evict = {s \in leased : req[q].at >= objects[s].expires}])
  /\ UNCHANGED <<store_vars, lease_vars, bound, fault_vars>>

\* Mutant: the lease stays in _leases.
GetLease(q, sid, r) ==
  /\ UNCHANGED leased
  /\ cursors' = {k \in cursors : k[1] # sid}
  /\ Issue(q, objects[sid].conn)
  /\ Go(q, [r EXCEPT !.pc = "rollback"])

\* _release_lease up to its first await: the lease leaves _leases, its cursors
\* go, and ROLLBACK is queued on its connection.
PopLease(q, sid, r) ==
  /\ leased' = leased \ {sid}
  /\ cursors' = {k \in cursors : k[1] # sid}
  /\ Issue(q, objects[sid].conn)
  /\ Go(q, [r EXCEPT !.pc = "rollback"])

Evict(q) ==
  /\ req[q].pc = "evict"
  /\ req[q].evict # {}
  /\ PopLease(q, LeastOf(req[q].evict), req[q])
  /\ UNCHANGED <<store_vars, free, objects, bound, open, guard, fault_vars>>

\* The rest of _release_lease: ROLLBACK, which may fail too when a statement
\* before it did, and putconn whatever comes of it.  A request that is evicting
\* goes on with the next lease; one that is releasing its own lease leaves the
\* guard and answers.
Releasing(q) == IF req[q].evict # {} THEN LeastOf(req[q].evict) ELSE req[q].sid

Rollback(q) ==
  LET c == objects[Releasing(q)].conn
      evicting == req[q].evict # {}
  IN
  /\ req[q].pc = "rollback"
  /\ Turn(q, c)
  /\ queue' = Retract(c)
  /\ open' = [open EXCEPT ![c] = None]
  /\ free' = free \cup {c}
  /\ aborted' = aborted \ {Releasing(q)}
  /\ \/ /\ UNCHANGED failed
        /\ Go(q, IF evicting
                 THEN [req[q] EXCEPT !.pc = "evict",
                                     !.evict = @ \ {Releasing(q)}]
                 ELSE [req[q] EXCEPT !.pc = "done"])
        /\ guard' = IF evicting THEN q ELSE None
     \/ /\ Fails \/ (Releasing(q) \in aborted /\ UNCHANGED failed)
        /\ Go(q, [req[q] EXCEPT !.pc = "done", !.res = "QUERY_INTERNAL"])
        /\ guard' = None
  /\ UNCHANGED <<store_vars, objects, leased, cursors, bound>>

\* Mutant: the guard is not left when the cursor is gone.
ContinueGuarded(q) ==
  LET k == req[q].cursor IN
  /\ req[q].pc = "evict"
  /\ req[q].evict = {}
  /\ k # None
  /\ IF k \in cursors /\ k[1] \in leased
     THEN LET r == [req[q] EXCEPT !.sid = k[1], !.after = k[2]]
          IN  guard' = None /\ Enter(q, r, ReadPC(objects[k[1]].binding), "lock")
     ELSE Reply(q, "CURSOR_EXPIRED") /\ UNCHANGED <<guard, objects, queue>>
  /\ UNCHANGED <<store_vars, free, leased, cursors, bound, open, fault_vars>>

\* continue_snapshot after eviction: the cursor and its lease are looked up, the
\* guard is left and the page is read.
Continue(q) ==
  LET k == req[q].cursor IN
  /\ req[q].pc = "evict"
  /\ req[q].evict = {}
  /\ k # None
  /\ guard' = None
  /\ IF k \in cursors /\ k[1] \in leased
     THEN LET r == [req[q] EXCEPT !.sid = k[1], !.after = k[2]]
          IN  Enter(q, r, ReadPC(objects[k[1]].binding), "lock")
     ELSE Reply(q, "CURSOR_EXPIRED") /\ UNCHANGED <<objects, queue>>
  /\ UNCHANGED <<store_vars, free, leased, cursors, bound, open, fault_vars>>

\* Mutant: one lease too many.
CheckCapacityAndOne(q) ==
  /\ req[q].pc = "evict"
  /\ req[q].evict = {}
  /\ req[q].cursor = None
  /\ IF Cardinality(leased) > LeaseLimit
     THEN Reply(q, "QUERY_UNAVAILABLE") /\ guard' = None
     ELSE Go(q, [req[q] EXCEPT !.pc = "getconn"]) /\ UNCHANGED guard
  /\ UNCHANGED <<store_vars, lease_vars, bound, fault_vars>>

\* acquire_snapshot after eviction: the capacity check.
CheckCapacity(q) ==
  /\ req[q].pc = "evict"
  /\ req[q].evict = {}
  /\ req[q].cursor = None
  /\ IF Cardinality(leased) >= LeaseLimit
     THEN Reply(q, "QUERY_UNAVAILABLE") /\ guard' = None
     ELSE Go(q, [req[q] EXCEPT !.pc = "getconn"]) /\ UNCHANGED guard
  /\ UNCHANGED <<store_vars, lease_vars, bound, fault_vars>>

\* getconn and BEGIN, still under the guard.  BEGIN takes no snapshot yet.  The
\* pool may time out, admission and retention using its connections too, or
\* BEGIN may fail and the connection go back.
GetConn(q) ==
  LET sid == Len(objects) + 1 IN
  /\ req[q].pc = "getconn"
  /\ guard' = None
  /\ \/ \E c \in free :
          /\ queue[c] = << >>
          /\ free' = free \ {c}
          /\ open' = [open EXCEPT ![c] = sid]
          /\ objects' = Append(objects,
                          [conn |-> c, binding |-> req[q].binding,
                           expires |-> req[q].at + LeaseTTL,
                           holder |-> q, snap |-> None])
          /\ leased' = leased \cup {sid}
          /\ Issue(q, c)
          /\ Go(q, [req[q] EXCEPT !.pc = ReadPC(req[q].binding), !.sid = sid])
          /\ UNCHANGED failed
     \/ /\ Fails
        /\ Reply(q, "QUERY_UNAVAILABLE")
        /\ UNCHANGED <<free, open, objects, leased, queue>>
  /\ UNCHANGED <<store_vars, cursors, bound, aborted>>

\* lease.lock is granted to a waiting reader, which issues its statement.
Grant(q) ==
  /\ req[q].pc \in {"lock", "summary_lock"}
  /\ LeaseOf(q).holder = None
  /\ Enter(q, req[q], IF req[q].pc = "lock" THEN ReadPC(LeaseOf(q).binding)
                                            ELSE "summary_read", "lock")
  /\ UNCHANGED <<store_vars, free, leased, cursors, bound, open, guard, fault_vars>>

\* What a statement on q's connection sees: the snapshot of the transaction that
\* is open there, which its first statement takes, or the committed rows when
\* there is none.  The transaction is the lease's own until the lease's
\* connection is given back.
Snapshot(sid) == IF objects[sid].snap = None THEN store ELSE objects[sid].snap
Visible(q) ==
  LET sid == open[LeaseOf(q).conn]
  IN  IF sid = None THEN store ELSE Snapshot(sid)
Look(q, holder) ==
  objects' = [s \in DOMAIN objects |->
    [objects[s] EXCEPT !.holder = IF s = req[q].sid THEN holder ELSE @,
                       !.snap = IF s = open[LeaseOf(q).conn] THEN Snapshot(s)
                                                             ELSE @]]

\* The page could not be read: a first page's lease is released, that of a
\* continuation stays, in whatever state its transaction is.
ReadFailed(q, res) ==
  /\ objects' = [objects EXCEPT ![req[q].sid].holder = None]
  /\ queue' = Retract(LeaseOf(q).conn)
  /\ Go(q, [req[q] EXCEPT !.pc = IF req[q].cursor = None THEN "drop" ELSE "done",
                          !.res = res])

\* _enforce_trace_delivery_bound, a statement of its own before the page's.
CheckBound(q) ==
  LET c == LeaseOf(q).conn IN
  /\ req[q].pc = "bound"
  /\ Turn(q, c)
  /\ \/ /\ Look(q, q)
        /\ queue' = [queue EXCEPT ![c] = Append(Tail(@), q)]
        /\ Go(q, [req[q] EXCEPT !.pc = "read"])
        /\ Runs(c)
     \/ /\ ReadFailed(q, "QUERY_BOUND_EXCEEDED")
        /\ open[c] \notin aborted /\ Fails /\ UNCHANGED aborted
     \/ ReadFailed(q, "QUERY_INTERNAL") /\ StatementFails(c)
  /\ UNCHANGED <<store_vars, free, leased, cursors, bound, open, guard>>

\* _read_snapshot_page: the rows, the cursor after them, and its binding.  The
\* lease may have left _leases meanwhile.
ReadPage(q) ==
  LET b == LeaseOf(q).binding
      page == PageOf(Visible(q), b, req[q].after)
      more == HasMore(Visible(q), b, req[q].after)
      next == IF more THEN <<req[q].sid, GreatestOf(page)>> ELSE None
      given == IF more THEN {next} ELSE {}
  IN
  /\ req[q].pc = "read"
  /\ Turn(q, LeaseOf(q).conn)
  /\ \/ /\ Look(q, None)
        /\ queue' = Retract(LeaseOf(q).conn)
        /\ cursors' = cursors \cup given
        /\ bound' = [k \in DOMAIN bound \cup given |->
                       IF k \in given THEN req[q].binding ELSE bound[k]]
        /\ Go(q, [req[q] EXCEPT
                    !.pc = IF b.route = "TASKS" THEN "finish" ELSE "expiry",
                    !.page = page, !.next = next, !.left = Cardinality(page)])
        /\ Runs(LeaseOf(q).conn)
     \/ /\ ReadFailed(q, "QUERY_INTERNAL")
        /\ StatementFails(LeaseOf(q).conn)
        /\ UNCHANGED <<cursors, bound>>
  /\ UNCHANGED <<store_vars, free, leased, open, guard>>

\* An exception after the page was read: the lease is released if it is there.
Break(q) == Go(q, [req[q] EXCEPT !.pc = "drop", !.res = "QUERY_INTERNAL"])

\* read_expiry for the next row: the lease is looked up again.
LookupExpiry(q) ==
  /\ req[q].pc = "expiry"
  /\ req[q].left > 0
  /\ IF req[q].sid \in leased
     THEN /\ Issue(q, LeaseOf(q).conn)
          /\ Go(q, [req[q] EXCEPT !.pc = "expiry_read"])
     ELSE Break(q) /\ UNCHANGED queue
  /\ UNCHANGED <<store_vars, free, objects, leased, cursors, bound, open, guard,
                 fault_vars>>

ReadExpiry(q) ==
  /\ req[q].pc = "expiry_read"
  /\ Turn(q, LeaseOf(q).conn)
  /\ queue' = Retract(LeaseOf(q).conn)
  /\ \/ /\ Go(q, [req[q] EXCEPT !.pc = "expiry", !.left = @ - 1])
        /\ Runs(LeaseOf(q).conn)
     \/ Break(q) /\ StatementFails(LeaseOf(q).conn)
  /\ UNCHANGED <<store_vars, free, objects, leased, cursors, bound, open, guard>>

\* Mutant: the lease is not looked up again.
SummarizeBlindly(q) ==
  /\ req[q].pc = "expiry"
  /\ req[q].left = 0
  /\ Enter(q, req[q], "summary_read", "summary_lock")
  /\ UNCHANGED <<store_vars, free, leased, cursors, bound, open, guard, fault_vars>>

\* Every row is done: a trace page is summarized, under lease.lock.
Summarize(q) ==
  /\ req[q].pc = "expiry"
  /\ req[q].left = 0
  /\ CASE LeaseOf(q).binding.route # "TRACES" ->
            Go(q, [req[q] EXCEPT !.pc = "finish"]) /\ UNCHANGED <<objects, queue>>
       [] LeaseOf(q).binding.route = "TRACES" /\ req[q].sid \in leased ->
            Enter(q, req[q], "summary_read", "summary_lock")
       [] OTHER -> Break(q) /\ UNCHANGED <<objects, queue>>
  /\ UNCHANGED <<store_vars, free, leased, cursors, bound, open, guard, fault_vars>>

ReadSummary(q) ==
  /\ req[q].pc = "summary_read"
  /\ Turn(q, LeaseOf(q).conn)
  /\ queue' = Retract(LeaseOf(q).conn)
  /\ objects' = [objects EXCEPT ![req[q].sid].holder = None]
  /\ \/ Go(q, [req[q] EXCEPT !.pc = "finish"]) /\ Runs(LeaseOf(q).conn)
     \/ Break(q) /\ StatementFails(LeaseOf(q).conn)
  /\ UNCHANGED <<store_vars, free, leased, cursors, bound, open, guard>>

\* Mutant: the lease of a query with a single page is kept.
FinishKeeping(q) ==
  /\ req[q].pc = "finish"
  /\ Reply(q, "page")
  /\ UNCHANGED <<store_vars, lease_vars, bound, guard, fault_vars>>

\* The response is complete.  A query with a single page gives its lease back.
Finish(q) ==
  /\ req[q].pc = "finish"
  /\ Go(q, [req[q] EXCEPT
              !.res = "page",
              !.pc = IF req[q].cursor = None /\ req[q].next = None
                     THEN "drop" ELSE "done"])
  /\ UNCHANGED <<store_vars, lease_vars, bound, guard, fault_vars>>

\* release_snapshot: nothing to do if the lease is gone already.
Drop(q) ==
  /\ req[q].pc = "drop"
  /\ guard = None
  /\ IF req[q].sid \in leased
     THEN guard' = q /\ PopLease(q, req[q].sid, req[q])
     ELSE /\ Go(q, [req[q] EXCEPT !.pc = "done"])
          /\ UNCHANGED <<guard, leased, cursors, queue>>
  /\ UNCHANGED <<store_vars, free, objects, bound, open, fault_vars>>

Answer(q) ==
  /\ req[q].pc = "done"
  /\ Go(q, Quiet)
  /\ UNCHANGED <<store_vars, lease_vars, bound, guard, fault_vars>>

-------------------------------------------------------------------------------
(* Around the requests *)

Tick ==
  /\ now < MaxTime
  /\ now' = now + 1
  /\ UNCHANGED <<store, asked, changes, lease_vars, bound, guard, req, fault_vars>>

\* Admission or retention commits: a row comes or goes.
Change ==
  /\ changes < MaxChanges
  /\ changes' = changes + 1
  /\ \E x \in Rows : store' = IF x \in store THEN store \ {x} ELSE store \cup {x}
  /\ UNCHANGED <<now, asked, lease_vars, bound, guard, req, fault_vars>>

RequestStep(q) ==
  \/ EnterGuard(q) \/ Evict(q) \/ Rollback(q) \/ Continue(q) \/ CheckCapacity(q)
  \/ GetConn(q) \/ Grant(q) \/ CheckBound(q) \/ ReadPage(q) \/ LookupExpiry(q)
  \/ ReadExpiry(q) \/ Summarize(q) \/ ReadSummary(q) \/ Finish(q) \/ Drop(q)
  \/ Answer(q)

Next ==
  \/ \E q \in Requests :
       \/ \E b \in Bindings, k \in DOMAIN bound \cup {None} : Ask(q, b, k)
       \/ RequestStep(q)
  \/ Tick
  \/ Change

Spec == Init /\ [][Next]_vars

-------------------------------------------------------------------------------
(* Properties *)

Waiting == {"guard", "evict", "rollback", "getconn", "lock", "bound", "read",
            "expiry", "expiry_read", "summary_lock", "summary_read", "finish",
            "drop"}

\* Every variable has its type; the guard and lease.lock are held exactly by the
\* requests that are inside them.
LeaseTypeOK ==
  /\ now \in 0..MaxTime /\ store \subseteq Rows
  /\ free \subseteq Pool
  /\ leased \subseteq 1..Len(objects)
  /\ \A k \in cursors \cup DOMAIN bound : k \in (1..Len(objects)) \X Rows
  /\ \A c \in Pool : open[c] \in {None} \cup 1..Len(objects)
  /\ aborted \subseteq 1..Len(objects)
  /\ \A q \in Requests :
       /\ req[q].pc \in Waiting \cup {"idle", "done"}
       /\ req[q].pc \in {"evict", "rollback", "getconn"} <=> guard = q
       /\ req[q].pc \in {"bound", "read", "summary_read"} <=>
            \E s \in 1..Len(objects) : objects[s].holder = q

\* No connection is lost or returned twice: each one is in the pool, leased,
\* or being returned by the holder of the guard.
ConnectionsAccounted ==
  LET leasedConns == {objects[s].conn : s \in leased}
      returning == {objects[Releasing(q)].conn :
                      q \in {p \in Requests : req[p].pc = "rollback"}}
  IN  /\ Pool = free \cup leasedConns \cup returning
      /\ Cardinality(Pool) = Cardinality(free) + Cardinality(leased)
                               + Cardinality(returning)

\* Queries leave connections for admission and retention: never more than the
\* lease limit are out of the pool on their behalf.
LeasesBounded ==
  Cardinality(Pool \ free) <= LeaseLimit

\* A page that is answered shows the lease's snapshot: later commits do not
\* appear and a replayed cursor gives the same page.
PageFromSnapshot ==
  \A q \in Requests :
    req[q].pc = "done" /\ req[q].res = "page" =>
      req[q].page = PageOf(LeaseOf(q).snap, LeaseOf(q).binding, req[q].after)

\* No lease is without a use: a request is using it, or _cursors has a cursor
\* that leads to it.  After a continuation that failed that cursor only gets
\* errors until the lease expires: continue_snapshot does not release it.
LeaseInUse ==
  \A s \in leased :
    \/ \E q \in Requests : req[q].pc \in Waiting /\ req[q].sid = s
    \/ \E k \in cursors : k[1] = s

\* A statement that waits for a lock is queued behind those before it; the event
\* loop runs every task that can run.
FairSpec == Spec /\ \A q \in Requests : SF_vars(RequestStep(q))

\* Every query is answered.
QueriesAnswered ==
  \A q \in Requests : req[q].pc \in Waiting ~> req[q].pc = "done"
===============================================================================
