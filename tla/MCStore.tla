------------------------------- MODULE MCStore -------------------------------
(* Small instances of the replicated state machine with the real placement. *)
EXTENDS StoreAudit, Placement

MCPlace(eligible, receivers, current) == AssignVips(eligible, receivers, current)

\* One boot per node: the cold roster.
OneGenesis == {[epoch |-> 1, voters |-> Nodes \X {1}]}

TwoGeneses ==
    {[epoch |-> 1, voters |-> Nodes \X {1}], [epoch |-> 2, voters |-> Nodes \X {1}]}
=============================================================================
