--------------------------- MODULE ClusterConfig ----------------------------
(***************************************************************************)
(* The configuration file: what Config::load_path accepts, the VIP table   *)
(* and the round counts it derives, and the identity by which members      *)
(* recognise that they run the same cluster-wide policy (config.rs,        *)
(* config/validation.rs, vip_validation.rs, secret.rs and fingerprint.rs). *)
(*                                                                         *)
(* A file is a record.  VIPs are IPv4 numbers of AddressBits bits; an      *)
(* endpoint is a family ("v4", "v6" or the mapped form of a v4 address), a *)
(* host (0 is the unspecified one) and a port; interface names are         *)
(* multiples of SubInterface, and interface + vlan names a sub-interface,  *)
(* which keeps the order of the names.  Optional numbers are None if       *)
(* absent.  Values stay far below 2^64, where the code saturates.          *)
(***************************************************************************)
EXTENDS Integers, FiniteSets, FiniteSetsExt, SequencesExt

CONSTANT AddressBits       \* the width of an address: 32 for IPv4

None == -1
SubInterface == 10000
Second == 1000

CeilDiv(a, b) == (a + b - 1) \div b
AtLeast(n, low) == IF n < low THEN low ELSE n

-----------------------------------------------------------------------------
(* VIPs.                                                                   *)

Mapped == 96               \* the prefix of the mapped IPv4 range
Prefix(v) == IF v.mapped THEN v.prefix - Mapped ELSE v.prefix

EffectiveInterface(v) == IF v.vlan = None THEN v.interface ELSE v.interface + v.vlan

ValidInterface(v) ==
    /\ v.interface > 0
    /\ v.vlan # None => v.vlan \in 1..4094 /\ v.interface % SubInterface = 0

\* normalize_vips: a unicast host address, neither the network nor the
\* broadcast address of its subnet.
ValidVip(v) ==
    LET hosts == 2^(AddressBits - Prefix(v))
    IN /\ v.unicast
       /\ Prefix(v) \in 1..AddressBits
       /\ v.address # 2^AddressBits - 1
       /\ Prefix(v) < AddressBits - 1 => v.address % hosts \notin {0, hosts - 1}
       /\ ValidInterface(v)

\* sorted_vips: the table the store and the kernel layer use.
Binding(v) == [ip |-> v.address, dev |-> EffectiveInterface(v), prefix |-> Prefix(v)]
Table(c) == {Binding(v) : v \in Range(c.vips)}

ValidVips(c) ==
    /\ c.vips # <<>>
    /\ \A v \in Range(c.vips) : ValidVip(v)
    /\ \A b, d \in Table(c) : b.ip = d.ip => b = d

-----------------------------------------------------------------------------
(* Health and Raft timing.                                                 *)

EffectiveStaleSecs(h) ==
    IF h.stale_secs # None THEN h.stale_secs
    ELSE AtLeast(3 * AtLeast(CeilDiv(h.interval_ms, Second), 1), 3)

EffectiveStaleMissedProbes(h) ==
    AtLeast((EffectiveStaleSecs(h) * Second) \div AtLeast(h.interval_ms, 1), 1)

ValidHealth(h) ==
    /\ h.command /\ h.interval_ms > 0 /\ h.timeout_ms > 0
    /\ h.timeout_ms <= 10 * h.interval_ms
    /\ EffectiveStaleSecs(h) >= AtLeast(CeilDiv(h.interval_ms, Second), 1)
    /\ h.timeout_ms < h.interval_ms * EffectiveStaleMissedProbes(h)

ValidRaft(r) ==
    0 < r.heartbeat /\ r.heartbeat < r.election_min /\ r.election_min < r.election_max

\* duration_to_probe_rounds_ceil.
ProbeRounds(secs, c) == CeilDiv(secs * Second, AtLeast(c.health.interval_ms, 1))

-----------------------------------------------------------------------------
(* The roster.                                                             *)

CanonicalSocketAddr(e) == IF e.family = "mapped" THEN [e EXCEPT !.family = "v4"] ELSE e

Roster(c) == {[p EXCEPT !.raft = CanonicalSocketAddr(@), !.submit = CanonicalSocketAddr(@)] :
                 p \in Range(c.peers)}
Endpoints(c) == {p.raft : p \in Roster(c)} \cup {p.submit : p \in Roster(c)}
OneFamily(endpoints) == Cardinality({e.family : e \in endpoints}) = 1

ValidRoster(c) ==
    /\ c.peers # <<>>
    /\ Cardinality({p.id : p \in Roster(c)}) = Len(c.peers)
    /\ Cardinality(Endpoints(c)) = 2 * Len(c.peers)
    /\ OneFamily({p.raft : p \in Roster(c)}) /\ OneFamily({p.submit : p \in Roster(c)})
    /\ \A e \in Endpoints(c) : e.host # 0
    /\ \E p \in Roster(c) :
          /\ p.id = c.node_id
          /\ p.raft = CanonicalSocketAddr(c.raft_listen)
          /\ p.submit = CanonicalSocketAddr(c.submit_listen)

-----------------------------------------------------------------------------
\* resolve_secret, read_secret and validate_secret: one source, inline or a
\* readable regular file of UTF-8 text whose final line break is dropped, and
\* neither a placeholder nor text with blanks or control characters.
UsableSecret(c) ==
    /\ Cardinality(c.secrets) = 1
    /\ \A s \in c.secrets :
          /\ s.readable /\ s.plain /\ ~s.placeholder
          /\ s.bytes - s.line_break \in 32..256

\* Config::load_path succeeds.
Loads(c) ==
    /\ UsableSecret(c)
    /\ ValidHealth(c.health) /\ ValidRaft(c.raft) /\ ValidRoster(c) /\ ValidVips(c)
    /\ c.max_frame_bytes \in 64 * 1024 .. 16 * 1024 * 1024
    /\ c.submit_timeout_ms > 0 /\ c.address_protocol > 0

\* A plausible slip: the identity takes interface and VLAN as they are written.
FingerprintAsWritten(c) ==
    [peers |-> Roster(c), vips |-> Range(c.vips),
     interval |-> c.health.interval_ms, stale |-> EffectiveStaleMissedProbes(c.health),
     raft |-> c.raft, frame |-> c.max_frame_bytes,
     failover |-> ProbeRounds(c.failover_delay_secs, c), failback |-> c.failback,
     delay |-> IF c.failback THEN ProbeRounds(c.failback_delay_secs, c) ELSE 0]

\* cluster_config_fingerprint, taken as injective: the effective table, and
\* no recovery delay where failback is off and ignores it.
Fingerprint(c) ==
    [peers |-> Roster(c), vips |-> Table(c),
     interval |-> c.health.interval_ms, stale |-> EffectiveStaleMissedProbes(c.health),
     raft |-> c.raft, frame |-> c.max_frame_bytes,
     failover |-> ProbeRounds(c.failover_delay_secs, c), failback |-> c.failback,
     delay |-> IF c.failback THEN ProbeRounds(c.failback_delay_secs, c) ELSE 0]
=============================================================================
