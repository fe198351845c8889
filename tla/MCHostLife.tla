----------------------------- MODULE MCHostLife -----------------------------
(***************************************************************************)
(* Three scenarios that share the host's mechanisms without multiplying    *)
(* them.  One VIP with hooks whose entry may be edited: another prefix, an *)
(* interface before or after the first one, another address, a VLAN, a     *)
(* file that does not load.  Two VIPs with an edit, crashes and faults.    *)
(* One VIP under a guard whose peers run the same file, the same policy in *)
(* another spelling, or either of two other policies.                      *)
(***************************************************************************)
EXTENDS HostLife, TLC

Vip(address, interface, vlan, prefix) ==
    [address |-> address, interface |-> interface, vlan |-> vlan, prefix |-> prefix,
     mapped |-> FALSE, unicast |-> TRUE]
Endpoint(h, port) == [family |-> "v4", host |-> h, port |-> port]
Peer(id) == [id |-> id, raft |-> Endpoint(id, 1), submit |-> Endpoint(id, 2)]

Secret(bytes, br) ==
    [readable |-> TRUE, plain |-> TRUE, placeholder |-> FALSE, bytes |-> bytes, line_break |-> br]

File(vips) ==
    [node_id |-> 1, raft_listen |-> Endpoint(1, 1), submit_listen |-> Endpoint(1, 2),
     peers |-> <<Peer(1), Peer(2), Peer(3)>>, vips |-> vips,
     secrets |-> {Secret(40, 0)},
     health |-> [command |-> TRUE, interval_ms |-> 500, timeout_ms |-> 400, stale_secs |-> None],
     raft |-> [election_min |-> 400, election_max |-> 800, heartbeat |-> 250],
     max_frame_bytes |-> 65536, submit_timeout_ms |-> 2000, address_protocol |-> 246,
     failover_delay_secs |-> 0, failback |-> FALSE, failback_delay_secs |-> 10]

Tagged == File(<<Vip(1, 20000, 100, 1)>>)

MCFiles ==
    [one |-> File(<<Vip(1, 20000, None, 1)>>),
     two |-> File(<<Vip(2, 20000, None, 1), Vip(1, 20000, None, 1)>>),
     prefix |-> File(<<Vip(1, 20000, None, 3)>>),
     earlier |-> File(<<Vip(1, 10000, None, 1)>>),
     moved |-> File(<<Vip(2, 20000, None, 1)>>),
     conflicting |-> File(<<Vip(1, 20000, None, 1), Vip(1, 20000, None, 3)>>),
     tagged |-> Tagged,
     respelled |-> [File(<<Vip(1, 20100, None, 1)>>) EXCEPT
                       !.failback_delay_secs = 20, !.secrets = {Secret(257, 1)}],
     unsecured |-> [Tagged EXCEPT !.secrets = {Secret(32, 1)}],
     ambiguous |-> [Tagged EXCEPT !.secrets = @ \cup {Secret(41, 1)}],
     preempting |-> [Tagged EXCEPT !.failback = TRUE],
     patient |-> [Tagged EXCEPT !.failover_delay_secs = 1]]

MCYamls == {"one", "prefix", "earlier", "tagged", "moved", "conflicting"}
MCPeerFiles == {"tagged", "respelled", "preempting", "patient"}

Scenario(y, hooked, e, c, f, r) ==
    [yaml |-> y, notify |-> hooked,
     budget |-> [edits |-> e, crashes |-> c, faults |-> f, rounds |-> r]]
MCScenarios == {Scenario("one", TRUE, 1, 2, 1, 0), Scenario("two", FALSE, 0, 1, 1, 0),
                Scenario("tagged", FALSE, 0, 0, 0, 4)}

ASSUME {c \in DOMAIN MCFiles : ~Loads(MCFiles[c])} = {"conflicting", "unsecured", "ambiguous"}
=============================================================================
