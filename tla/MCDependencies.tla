--------------------------- MODULE MCDependencies ---------------------------
(***************************************************************************)
(* An instance of Dependencies for TLC: lists of at most two entries in    *)
(* the order of the configuration, repeated names and self-references      *)
(* included: enough for diamonds and cycles of any length.                 *)
(***************************************************************************)
EXTENDS Dependencies

ShortLists ==
  {<<>>} \cup {<<p>> : p \in Proc} \cup {l \in Proc \X Proc : l[1] <= l[2]}

SmallGraphs == [Proc -> ShortLists]
=============================================================================
