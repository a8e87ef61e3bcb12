-------------------------------- MODULE MCShared --------------------------------
(***************************************************************************)
(* One Finding reported in the same words by two events: twice in one      *)
(* Delivery, or in two Deliveries of which the first is then retired.      *)
(***************************************************************************)
EXTENDS EvidenceProperties, SampleRecords

RepeatedRecords == {Opening(31, 1, "F"), Opening(32, 1, "F")}
SharedRecords == {Opening(31, 1, "F"), Opening(32, 2, "F"), Summary(21, 1)}
===============================================================================
