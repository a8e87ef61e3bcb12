----------------------------- MODULE MCProjections -----------------------------
(***************************************************************************)
(* Records that depend on each other or contradict each other, sent in any *)
(* order and concurrently: the reports of one review Finding (opened in    *)
(* two Deliveries, contradicted, fixed, rechecked), and a trace whose      *)
(* model call may arrive before its root, name another runtime or repeat   *)
(* its links, and two rival lineages of one role.                          *)
(***************************************************************************)
EXTENDS EvidenceProperties, SampleRecords, TLC

FindingRecords ==
  {Opening(31, 1, "F"), Contradiction(32, 1, "F"), Opening(35, 2, "F"),
   Fix(33, 2, "F"), Recheck(34, 1, "F")}

SpanRecords ==
  {RootSpan(41, 1, "rt"),
   ModelSpan(42, 1, "rt", <<LinkToRoot(0), LinkToRoot(0)>>),
   ModelSpan(42, 1, "rt", <<LinkToRoot(0), LinkToRoot(1)>>),
   ModelSpan(42, 1, "other", << >>),
   Lineage(51, 1, "r", "l1"), Lineage(52, 1, "r", "l2")}

ProjectionRecords == FindingRecords \cup SpanRecords

ConnSymmetry == Permutations(Conns)
===============================================================================
