-------------------------------- MODULE MCTasks --------------------------------
(***************************************************************************)
(* Two Deliveries of one Task; the binding of the first names the Task.    *)
(***************************************************************************)
EXTENDS EvidenceRowInvariants, SampleRecords, TLC

TaskRecords ==
  {NamedBinding(1, "T", "m1", "name"), Binding(2, "T", "m2"),
   Summary(21, 1), Summary(22, 2)}

ConnSymmetry == Permutations(Conns)
WorkerSymmetry == Permutations(Workers)
===============================================================================
