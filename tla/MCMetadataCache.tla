-------------------------- MODULE MCMetadataCache --------------------------
(* The instance of MetadataCache for TLC: a budget and row sizes for which *)
(* two small rows fit, two middling ones force the older one out, and a    *)
(* large one exceeds the whole budget.                                     *)
EXTENDS MetadataCache

Budget == 5
RowSizes == {2, 3, 6}

=============================================================================
