-------------------------------- MODULE MCAging --------------------------------
(***************************************************************************)
(* One Delivery with a record, its terminal summary, and a Profile 1       *)
(* record, ageing past the two retention periods.                          *)
(***************************************************************************)
EXTENDS EvidenceProperties, SampleRecords

AgingRecords == {Intervention(31, 1), Summary(21, 1), Intervention1(32)}
===============================================================================
