-------------------------- MODULE MCApprovalResume ---------------------------
(* ApprovalResume on small instances: histories of one or two answered calls *)
(* that share, repeat and reorder the capabilities.                          *)
EXTENDS ApprovalResume

CONSTANTS r1, r2, c1, c2

Yes(c) == [cap |-> c, approved |-> TRUE]
No(c) == [cap |-> c, approved |-> FALSE]

MCHistories ==
    {<<Yes(c1)>>, <<Yes(c1), Yes(c2)>>, <<Yes(c2), Yes(c1)>>, <<Yes(c1), Yes(c1)>>,
     <<No(c1), Yes(c2)>>, <<No(c1)>>}
=============================================================================
