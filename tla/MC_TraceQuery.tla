----------------------------- MODULE MC_TraceQuery -----------------------------
(* One identifier seen standard and extended, and one filter per axis. *)
EXTENDS TraceQuery

MCKinds == {"standard", "extended"}
MCIdOf == [k \in MCKinds |-> 1]

Everything ==
  [from |-> None, to |-> None, since |-> None, until |-> None, kinds |-> MCKinds]
MCFilters ==
  {Everything, [Everything EXCEPT !.since = 2, !.until = 2],
   [Everything EXCEPT !.from = 2, !.to = 3, !.kinds = {"standard"}]}
================================================================================
