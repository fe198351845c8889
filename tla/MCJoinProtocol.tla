--------------------------- MODULE MCJoinProtocol ---------------------------
(* Members 1 and 2 run; a new boot of member 3 joins in place of the old. *)
EXTENDS JoinProtocol

MCCohort == {11, 21, 31}
MCRunning == {11, 21}
MCJoiners == {32}
MCPrepared == [consumer |-> 32, nonce |-> 1, previous |-> MCCohort]

=============================================================================
