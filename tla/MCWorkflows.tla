----------------------------- MODULE MCWorkflows -----------------------------
(* Workflows for TLC *)
EXTENDS Workflows

CONSTANTS f1, f2, v1, v2

Item(f, v) == [flow |-> f, version |-> v]

MCKnown == {<<f1, v1>>, <<f1, v2>>, <<f2, v1>>}

\* Two lists that differ in a version, the empty one, one with a version that the
\* application does not have, and one with two versions of a workflow.
MCLists ==
  {<<Item(f1, v1), Item(f2, v1)>>, <<Item(f1, v2), Item(f2, v1)>>, <<>>,
   <<Item(f1, v1), Item(f2, v2)>>, <<Item(f1, v1), Item(f1, v2)>>}
=============================================================================
