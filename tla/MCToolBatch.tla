----------------------------- MODULE MCToolBatch -----------------------------
(* ToolBatch on a small instance; the bounds are in the .cfg file. *)
EXTENDS ToolBatch

(* Every pair of kinds, before an invalid third call, which no worker runs; *)
(* and three calls that all need one of the worker slots.                   *)
MCInit ==
    /\ Init
    /\ \/ kind[3] = "invalid"
       \/ kind \in {<<"gated", "gated", "plain">>, <<"plain", "gated", "gated">>}

MCSpec ==
    /\ MCInit /\ [][Next]_vars
    /\ WF_vars(Driver) /\ \A i \in Calls : WF_vars(Work(i))
=============================================================================
