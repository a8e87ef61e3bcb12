------------------------------- MODULE MCService -------------------------------
(***************************************************************************)
(* Workloads for the service.  A workload is a set of requests, sent one   *)
(* by one or by two exporters at a time, in every order.                   *)
(***************************************************************************)
EXTENDS ServiceRowInvariants, SampleRecords, TLC

ExporterSymmetry == Permutations(Exporters)

StableEventId(d) == 10 + d

\* A binding with another Manifest text.
Texted(text) ==
  [Binding(1, "T", "m") EXCEPT !.attrs = Extend(@,
     [delivery_manifest_projection |-> text,
      delivery_manifest_projection_digest |-> text])]

\* The OTLP item of a record, and of one with attributes of a wrong type, that
\* are not finite, with malformed parts, or with what a carrier may not have.
Item(r, bad, nan, defects, carrier) ==
  Extend(r, [kind |-> IF Get(r.attrs, "gen_ai_operation_name") = "chat"
                      THEN "CLIENT" ELSE "INTERNAL",
             bad |-> bad, nan |-> nan, defects |-> defects, carrier |-> carrier])
Good(r) == Item(r, {}, {}, {}, {})

Batch(items) == [content |-> TRUE, wire |-> TRUE, records |-> items]
Request(rs) == Batch([i \in DOMAIN rs |-> Good(rs[i])])
One(r) == Request(<<r>>)

-------------------------------------------------------------------------------
(* Each kind of record, after those it needs, less or more one attribute *)

Prefixed ==
  LET opening == Opening(31, 1, "F")
      root == RootSpan(41, 1, "rt")
  IN  { << << >>, Binding(1, "T", "m")>>, << << >>, Summary(21, 1)>>,
        << << >>, Lineage1(32, "r", "l")>>, << << >>, Lineage(32, 1, "r", "l")>>,
        << << >>, TestSummary(33, 1)>>,
        << << >>, ImplementationSummary(33, 1)>>, << << >>, DesignSummary(33, 1)>>,
        << << >>, ReviewSummary(33, 1)>>, << << >>, Usage(33, "UNAVAILABLE")>>,
        << << >>, Sampling(33)>>, << << >>, opening>>,
        << <<opening>>, Fix(32, 1, "F")>>,
        << <<opening, Fix(32, 1, "F")>>, Recheck(33, 1, "F")>>,
        << << >>, root>>, << <<root>>, ModelSpan(42, 1, "rt", << >>)>>,
        << << >>, ToolSpan(43, 1)>> }

Less(r, name) ==
  [r EXCEPT !.attrs = [n \in DOMAIN @ \ {name} |-> @[n]]]
More(r, name) ==
  [r EXCEPT !.attrs = Extend(@, Row(name, IF name = "fix_finding_id"
                                          THEN "F" ELSE "x"))]

Added == {"fix_id", "fix_finding_id", "recheck_id", "iteration_id", "model_id",
          "finding_target_artifact_id", "task_display_name", "error_type"}

Variants(r) ==
  {Good(r), Item(r, {}, {}, {}, {"dropped_attributes"}),
   Item(r, {}, {}, {}, {"structured_value"}), Item(r, {}, {}, {"resource"}, {})}
    \cup {Good(Less(r, name)) : name \in DOMAIN r.attrs \ {"delivery_id"}}
    \cup {Good(More(r, name)) : name \in Added \ DOMAIN r.attrs}
    \cup {Item(r, {name}, {}, {}, {}) : name \in DOMAIN r.attrs \cap {"role_id"}}

Perturbed ==
  UNION {{ {Batch([i \in DOMAIN p[1] |-> Good(p[1][i])] \o <<item>>)} :
             item \in Variants(p[2])} : p \in Prefixed}

-------------------------------------------------------------------------------
(* Requests that meet *)

Wrong == { {Extend(One(Intervention(31, 1)), [content |-> FALSE])},
           {Extend(One(Intervention(31, 1)), [wire |-> FALSE])},
           {Request(<< >>)}, {One(Texted(Manifest(1, "T", "other")))},
           {Request(<<Intervention(31, 1), Intervention1(32)>>)},
           {Request([i \in 1..4 |-> Intervention(30 + i, 1)])},
           {Request([i \in 1..3 |-> [TestSummary(30 + i, 1) EXCEPT
                                       !.attrs.test_passed = i]])},
           {Batch(<<Good(Opening(31, 1, "F")),
                    Item(TestSummary(32, 1), {}, {"test_passed"}, {}, {})>>)},
           {Batch(<<Item(TestSummary(31, 1), {}, {"test_passed"}, {}, {}),
                    Item(Intervention(32, 1), {"role_id"}, {}, {}, {})>>)} }

\* Manifest texts that make validation raise, or would if an earlier check did
\* not refuse them.
Texts ==
  LET text == Manifest(1, "T", "m") IN
  {[text EXCEPT !.raises = {"parse"}, !.canonical = FALSE],
   [text EXCEPT !.raises = {"document_state"}],
   [text EXCEPT !.raises = {"document_state"}, !.defects = {"workflow"}],
   [text EXCEPT !.unhashed = {2}],
   [text EXCEPT !.unhashed = {2}, !.malformed = {1}],
   [text EXCEPT !.unhashed = {1}, !.malformed = {2}],
   [text EXCEPT !.unhashed = {1}, !.roles = <<2, 1>>]}

\* The binding follows a record that is in the store by then.
Raising ==
  { {Request(<<Summary(21, 1), Texted(text), Intervention(31, 1)>>)} :
      text \in Texts }

Met ==
  { \* contradicting and repeated records of one Finding
    {Request(<<Opening(31, 1, "F"), Fix(32, 1, "F")>>),
     Request(<<Contradiction(33, 1, "F"), Opening(31, 1, "F")>>)},
    {Request(<<Opening(31, 1, "F")>>), Request(<<Fix(32, 1, "F")>>),
     Request(<<Recheck(33, 1, "F")>>)},
    \* two summaries of a Delivery and a late record
    {One(Summary(21, 1)), Request(<<Summary(22, 1), Intervention(31, 1)>>)},
    \* two Deliveries of a Task, the first of which is retired
    {Request(<<NamedBinding(1, "T", "m1", "n"), Summary(21, 1)>>),
     One(Binding(2, "T", "m2"))},
    \* a trace and the facts located in it
    {Request(<<RootSpan(41, 1, "rt"),
               ModelSpan(42, 1, "rt", <<LinkToRoot(1), LinkToRoot(1)>>),
               ToolSpan(43, 1)>>),
     Request(<<Located(Opening(31, 1, "F")), Summary(21, 1)>>)},
    {Request(<<ModelSpan(42, 1, "rt", <<LinkToRoot(1)>>), RootSpan(41, 1, "rt")>>),
     Request(<<Located(Usage(31, "UNAVAILABLE")),
               Located(Lineage1(32, "r", "l"))>>)},
    {Request(<<Located(ReviewSummary(31, 1)), TestSummary(32, 1),
               ImplementationSummary(33, 1)>>)} }

ServiceWorkloads == Perturbed \cup Wrong \cup Raising \cup Met

\* The hypothesis under which KeptInductive is proved.
ASSUME SeparateDeliveries == SharesOnlyTasks
===============================================================================
