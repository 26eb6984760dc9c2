------------------------------- MODULE MCPaging -------------------------------
(* Constants for the runs of Paging. *)
EXTENDS Paging

MCFilters == {Ids, Ids \ {2}}
=============================================================================
