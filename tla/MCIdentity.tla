------------------------------ MODULE MCIdentity ------------------------------
(***************************************************************************)
(* One identity claimed by records of a Delivery, of another Delivery and  *)
(* of none, and a Delivery with two rival terminal summaries.              *)
(***************************************************************************)
EXTENDS EvidenceProperties, SampleRecords, TLC

IdentityRecords ==
  {Intervention(31, 1), Intervention(31, 2), Intervention1(31),
   Summary(21, 1), Summary(22, 1)}

ConnSymmetry == Permutations(Conns)
===============================================================================
