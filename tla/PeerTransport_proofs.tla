------------------------- MODULE PeerTransport_proofs -------------------------
(***************************************************************************)
(* For any number of boots, connections and permits: a request is          *)
(* dispatched by the boot it is addressed to and by no other, and an RPC   *)
(* takes the answer to itself and no other.                                *)
(***************************************************************************)
EXTENDS PeerTransport, TLAPS

Slot == Conns \cup {None}

Request == [id : Nat, target : Nat]
Answer == [id : Nat, boot : Nat]

Conn ==
    [boot : Nat, member : {"closed", "opening", "ready"},
     server : {"closed", "lost", "handshake", "serving", "busy"}, semantics : {"V1", "V2"},
     requests : Seq(Request), answers : Seq(Answer)]

Exchange ==
    [stage : {"idle", "locked", "connecting", "sent", "closing"}, id : Nat, target : Nat,
     retries : Nat, conn : Slot]

\* A connection carries requests to its own boot, and answers of that boot.
Addressed(k) ==
    /\ k \in Conn
    /\ \A i \in DOMAIN k.requests : k.requests[i].target = k.boot
    /\ \A i \in DOMAIN k.answers : k.answers[i].boot = k.boot
    /\ k.server = "busy" => k.requests # << >>

Quiet(k) == k.requests = << >> /\ k.answers = << >>

\* Nothing is on the connection but request `id`, or the answer to it.
Carries(k, id) ==
    \/ Quiet(k)
    \/ k.requests = <<[id |-> id, target |-> k.boot]>> /\ k.answers = << >>
    \/ k.requests = << >> /\ k.answers = <<[id |-> id, boot |-> k.boot]>>

TypeOK ==
    /\ boot \in Nat /\ semantics \in {"V1", "V2"} /\ up \in BOOLEAN
    /\ conns \in [Conns -> Conn]
    /\ link \in [slot : Slot, remote : Nat, semantics : {"V1", "V2"}]
    /\ task \in Slot
    /\ rpc \in Exchange /\ solo \in Exchange

\* The cached stream is open, to the boot of the link, and quiet unless an RPC is on it.
LinkInv ==
    /\ link.slot # None =>
          /\ Open(conns[link.slot]) /\ conns[link.slot].boot = link.remote
          /\ rpc.stage # "sent" => Quiet(conns[link.slot])
    /\ rpc.stage = "sent" =>
          /\ link.slot # None /\ link.remote = rpc.target
          /\ Carries(conns[link.slot], rpc.id)

\* A stream being opened is open, quiet, and the only one of the link.
OpeningInv ==
    /\ task # None =>
          /\ Open(conns[task]) /\ Quiet(conns[task])
          /\ link.slot = None /\ rpc.stage = "idle"
    /\ rpc.stage = "connecting" =>
          /\ rpc.conn # None /\ link.slot = None
          /\ Open(conns[rpc.conn]) /\ Quiet(conns[rpc.conn])
    /\ rpc.stage # "connecting" => rpc.conn = None

\* An exchange has its stream to itself, until it has dropped it.
SoloInv ==
    /\ solo.stage \in {"connecting", "sent"} =>
          /\ solo.conn \notin {None, link.slot, task, rpc.conn}
          /\ Open(conns[solo.conn])
    /\ solo.stage = "sent" => conns[solo.conn].boot = solo.target
    /\ solo.stage = "closing" => solo.conn # None /\ ~Open(conns[solo.conn])

IInv ==
    /\ TypeOK
    /\ \A c \in Conns : Addressed(conns[c])
    /\ LinkInv /\ OpeningInv /\ SoloInv

-----------------------------------------------------------------------------
(* What the two ends do to a connection.                                   *)

\* What an owner of an open connection may rely on while the peer acts.
Evolves(k, n) ==
    /\ Open(n) /\ n.boot = k.boot
    /\ Quiet(k) => Quiet(n)
    /\ \A id \in Nat : Carries(k, id) => Carries(n, id)

LEMMA EmptyStream ==
  DOMAIN << >> = {} /\ << >> \in Seq(Request) /\ << >> \in Seq(Answer)
  OBVIOUS

LEMMA WithRequests ==
  ASSUME NEW k \in Conn, NEW r \in Seq(Request)
  PROVE  LET n == [k EXCEPT !.requests = r]
         IN  /\ n \in Conn /\ n.boot = k.boot /\ n.member = k.member /\ n.server = k.server
             /\ n.requests = r /\ n.answers = k.answers
  BY Zenon DEF Conn

LEMMA WithAnswers ==
  ASSUME NEW k \in Conn, NEW a \in Seq(Answer)
  PROVE  LET n == [k EXCEPT !.answers = a]
         IN  /\ n \in Conn /\ n.boot = k.boot /\ n.member = k.member /\ n.server = k.server
             /\ n.requests = k.requests /\ n.answers = a
  BY Zenon DEF Conn

LEMMA WithMember ==
  ASSUME NEW k \in Conn, NEW m \in {"closed", "opening", "ready"}
  PROVE  LET n == [k EXCEPT !.member = m]
         IN  /\ n \in Conn /\ n.boot = k.boot /\ n.member = m /\ n.server = k.server
             /\ n.requests = k.requests /\ n.answers = k.answers
  BY Zenon DEF Conn

LEMMA UnusedIsAddressed ==
  Addressed(Unused) /\ ~Open(Unused) /\ Quiet(Unused) /\ Unused \in Conn
  BY DEF Open, Addressed, Unused, Quiet, Conn, None

LEMMA DialledIsAddressed ==
  ASSUME TypeOK
  PROVE  Dialled \in Conn /\ Addressed(Dialled) /\ Open(Dialled) /\ Quiet(Dialled)
  <1>1. /\ Dialled \in Conn /\ Dialled.member = "opening" /\ Dialled.server = "handshake"
        /\ Dialled.requests = Unused.requests /\ Dialled.answers = Unused.answers
    BY UnusedIsAddressed, Zenon DEF TypeOK, Dialled, Conn
  <1> QED
    BY <1>1, UnusedIsAddressed, EmptyStream, Zenon DEF Addressed, Open, Quiet

LEMMA SettleKeeps ==
  ASSUME NEW k, Addressed(k)
  PROVE  /\ Addressed(Settle(k))
         /\ Open(k) => Evolves(k, Settle(k))
         /\ ~Open(k) => ~Open(Settle(k))
  <1> USE DEF Addressed
  <1>1. CASE ~Open(k) /\ Dead(k)
    BY <1>1, UnusedIsAddressed, Zenon DEF Settle
  <1>2. CASE ~Open(k) /\ ~Dead(k)
    <2> DEFINE n == [k EXCEPT !.answers = << >>]
    <2>1. Settle(k) = n
      BY <1>2, Zenon DEF Settle
    <2>2. /\ n \in Conn /\ n.boot = k.boot /\ n.member = k.member /\ n.server = k.server
          /\ n.requests = k.requests /\ n.answers = << >>
      BY WithAnswers, EmptyStream, Zenon
    <2> HIDE DEF n
    <2>3. Addressed(n) /\ ~Open(n)
      BY <1>2, <2>2, EmptyStream, Zenon DEF Open
    <2> QED
      BY <1>2, <2>1, <2>3, Zenon
  <1>3. CASE Open(k) /\ k.server = "closed"
    <2> DEFINE n == [k EXCEPT !.requests = << >>]
    <2>1. Settle(k) = n
      BY <1>3, Zenon DEF Settle
    <2>2. /\ n \in Conn /\ n.boot = k.boot /\ n.member = k.member /\ n.server = k.server
          /\ n.requests = << >> /\ n.answers = k.answers
      BY WithRequests, EmptyStream, Zenon
    <2> HIDE DEF n
    <2>3. Addressed(n)
      BY <1>3, <2>2, EmptyStream, Zenon
    <2>4. Evolves(k, n)
      BY <1>3, <2>2, Zenon DEF Open, Evolves, Quiet, Carries
    <2> QED
      BY <1>3, <2>1, <2>3, <2>4, Zenon
  <1>4. CASE Open(k) /\ k.server # "closed"
    BY <1>4, Zenon DEF Settle, Evolves
  <1> QED
    BY <1>1, <1>2, <1>3, <1>4, Zenon

LEMMA DropKeeps ==
  ASSUME NEW cs \in [Conns -> Conn], \A c \in Conns : Addressed(cs[c]), NEW c \in Slot
  PROVE  /\ Drop(cs, c) \in [Conns -> Conn]
         /\ \A d \in Conns : Addressed(Drop(cs, c)[d])
         /\ \A d \in Conns : d # c => Drop(cs, c)[d] = cs[d]
         /\ c # None => ~Open(Drop(cs, c)[c])
  <1>1. CASE c = None
    BY <1>1, Zenon DEF Drop
  <1>2. CASE c # None
    <2> DEFINE k == [cs[c] EXCEPT !.member = "closed"]
    <2>1. c \in Conns /\ Drop(cs, c) = [cs EXCEPT ![c] = Settle(k)]
      BY <1>2, Zenon DEF Drop, Slot
    <2>2. /\ k \in Conn /\ k.boot = cs[c].boot /\ k.member = "closed"
          /\ k.server = cs[c].server
          /\ k.requests = cs[c].requests /\ k.answers = cs[c].answers
      BY <2>1, WithMember, Zenon
    <2> HIDE DEF k
    <2>3. Addressed(k) /\ ~Open(k)
      BY <2>1, <2>2 DEF Addressed, Open
    <2>4. Addressed(Settle(k)) /\ ~Open(Settle(k))
      BY <2>3, SettleKeeps, Zenon
    <2> QED
      BY <2>1, <2>4 DEF Addressed
  <1> QED
    BY <1>1, <1>2, Zenon

\* The end of the peer's side: "closed", or "lost" with the power of its host.
LEMMA EndKeeps ==
  ASSUME NEW k, Addressed(k), NEW s \in {"closed", "lost"},
         NEW n, n = Settle([k EXCEPT !.server = s])
  PROVE  /\ Addressed(n)
         /\ Open(k) => Evolves(k, n)
         /\ ~Open(k) => ~Open(n)
  <1> DEFINE e == [k EXCEPT !.server = s]
  <1>1. /\ e \in Conn /\ e.boot = k.boot /\ e.member = k.member /\ e.server = s
        /\ e.requests = k.requests /\ e.answers = k.answers
    BY Zenon DEF Addressed, Conn
  <1>0. n = Settle(e)
    BY Zenon
  <1> HIDE DEF e
  <1>2. Addressed(e) /\ (Open(e) <=> Open(k))
    BY <1>1, Zenon DEF Addressed, Open
  <1>3. /\ Addressed(Settle(e))
        /\ Open(e) => Evolves(e, Settle(e))
        /\ ~Open(e) => ~Open(Settle(e))
    BY <1>2, SettleKeeps, Zenon
  <1>4. Open(k) => Evolves(k, Settle(e))
    BY <1>1, <1>2, <1>3, Zenon DEF Evolves, Quiet, Carries
  <1> QED
    BY <1>0, <1>2, <1>3, <1>4, Zenon

-----------------------------------------------------------------------------
(* The steps of the peer: they take no connection from its owner.          *)

LEMMA PeerKeeps ==
  ASSUME IInv, UNCHANGED <<link, task, rpc, solo>>,
         boot' \in Nat, semantics' \in {"V1", "V2"}, up' \in BOOLEAN,
         conns' \in [Conns -> Conn],
         \A c \in Conns : Addressed(conns'[c]),
         \A c \in Conns : Open(conns[c]) => Evolves(conns[c], conns'[c]),
         \A c \in Conns : ~Open(conns[c]) => ~Open(conns'[c])
  PROVE  IInv'
  <1> USE DEF IInv
  <1>1. TypeOK'
    BY Zenon DEF TypeOK
  <1>2. LinkInv'
    BY Zenon DEF TypeOK, LinkInv, Evolves, Slot, Exchange
  <1>3. OpeningInv'
    BY Zenon DEF TypeOK, OpeningInv, Evolves, Slot, Exchange
  <1>4. SoloInv'
    BY Zenon DEF TypeOK, SoloInv, Evolves, Slot, Exchange
  <1> QED
    BY <1>1, <1>2, <1>3, <1>4, Zenon

LEMMA OneStep ==
  ASSUME IInv, UNCHANGED listener, NEW c \in Conns, NEW n,
         conns' = [conns EXCEPT ![c] = n],
         Addressed(n),
         Open(conns[c]) => Evolves(conns[c], n),
         ~Open(conns[c]) => ~Open(n)
  PROVE  IInv'
  <1>1. ASSUME NEW d \in Conns, d # c PROVE conns'[d] = conns[d]
    BY <1>1, Zenon DEF IInv, TypeOK
  <1>2. conns'[c] = n /\ conns' \in [Conns -> Conn]
    BY Zenon DEF IInv, TypeOK, Addressed
  <1>3. ASSUME NEW d \in Conns, Open(conns[d]) PROVE Evolves(conns[d], conns[d])
    BY <1>3, Zenon DEF Evolves
  <1> QED
    BY <1>1, <1>2, <1>3, PeerKeeps, Zenon DEF IInv, TypeOK, listener, peer

LEMMA EndStep ==
  ASSUME IInv, UNCHANGED listener, NEW c \in Conns, conns' = End(conns, c)
  PROVE  IInv'
  <1> DEFINE n == Settle([conns[c] EXCEPT !.server = "closed"])
  <1>1. conns' = [conns EXCEPT ![c] = n]
    BY Zenon DEF End
  <1>2. Addressed(conns[c])
    BY Zenon DEF IInv
  <1>3. /\ Addressed(n)
        /\ Open(conns[c]) => Evolves(conns[c], n)
        /\ ~Open(conns[c]) => ~Open(n)
    BY <1>2, EndKeeps, Zenon
  <1> HIDE DEF n
  <1> QED
    BY <1>1, <1>3, OneStep, Zenon

LEMMA AuthenticateKeeps == ASSUME IInv, NEW c \in Conns, Authenticate(c) PROVE IInv'
  <1>1. CASE conns' = End(conns, c)
    BY <1>1, EndStep, Zenon DEF Authenticate
  <1>2. CASE conns' # End(conns, c)
    <2> DEFINE n == [conns[c] EXCEPT !.server = "serving", !.member = "ready"]
    <2>1. conns' = [conns EXCEPT ![c] = n] /\ Open(conns[c]) /\ UNCHANGED listener
      BY <1>2, Zenon DEF Authenticate, IInv, TypeOK, Conn
    <2>2. /\ n \in Conn /\ n.boot = conns[c].boot
          /\ n.member = "ready" /\ n.server = "serving"
          /\ n.requests = conns[c].requests /\ n.answers = conns[c].answers
      BY Zenon DEF IInv, TypeOK, Conn
    <2> HIDE DEF n
    <2>3. Addressed(n) /\ Evolves(conns[c], n)
      BY <2>2 DEF IInv, Addressed, Evolves, Open, Quiet, Carries
    <2> QED
      BY <2>1, <2>3, OneStep, Zenon
  <1> QED
    BY <1>1, <1>2, Zenon

LEMMA DispatchKeeps == ASSUME IInv, NEW c \in Conns, Dispatch(c) PROVE IInv'
  <1>1. CASE conns' = End(conns, c)
    BY <1>1, EndStep, Zenon DEF Dispatch
  <1>2. CASE conns' # End(conns, c)
    <2> DEFINE n == [conns[c] EXCEPT !.server = "busy"]
    <2>1. conns' = [conns EXCEPT ![c] = n] /\ conns[c].requests # << >> /\ UNCHANGED listener
      BY <1>2, Zenon DEF Dispatch, IInv, TypeOK, Conn
    <2>2. /\ n \in Conn /\ n.boot = conns[c].boot
          /\ n.member = conns[c].member /\ n.server = "busy"
          /\ n.requests = conns[c].requests /\ n.answers = conns[c].answers
      BY Zenon DEF IInv, TypeOK, Conn
    <2> HIDE DEF n
    <2>3. /\ Addressed(n)
          /\ Open(conns[c]) => Evolves(conns[c], n)
          /\ ~Open(conns[c]) => ~Open(n)
      BY <2>1, <2>2, Zenon DEF IInv, Addressed, Evolves, Open, Quiet, Carries
    <2> QED
      BY <2>1, <2>3, OneStep, Zenon
  <1> QED
    BY <1>1, <1>2, Zenon

\* The answer goes to the end of the answers as the request leaves the requests.
LEMMA ReplyKeepsStreams ==
  ASSUME NEW k, Addressed(k), k.requests # << >>, NEW a, NEW r, NEW q,
         q = [id |-> Head(k.requests).id, boot |-> k.boot],
         r = Tail(k.requests), a = Append(k.answers, q)
  PROVE  /\ r \in Seq(Request) /\ a \in Seq(Answer)
         /\ \A i \in DOMAIN r : r[i].target = k.boot
         /\ \A i \in DOMAIN a : a[i].boot = k.boot
         /\ ~Quiet(k)
         /\ \A id \in Nat : Carries(k, id) => r = << >> /\ a = <<[id |-> id, boot |-> k.boot]>>
  <1>1. k.requests \in Seq(Request) /\ k.answers \in Seq(Answer) /\ k.boot \in Nat
    BY Zenon DEF Addressed, Conn
  <1>2. /\ r \in Seq(Request)
        /\ \A i \in DOMAIN r : i + 1 \in DOMAIN k.requests /\ r[i] = k.requests[i + 1]
    BY <1>1
  <1>3. q \in Answer /\ q.boot = k.boot
    <2>1. Head(k.requests) \in Request
      BY <1>1
    <2> QED
      BY <1>1, <2>1, Zenon DEF Request, Answer
  <1>4. /\ a \in Seq(Answer)
        /\ \A i \in DOMAIN a : a[i] = q \/ (i \in DOMAIN k.answers /\ a[i] = k.answers[i])
    <2>1. a \in Seq(Answer) /\ Len(a) = Len(k.answers) + 1
      BY <1>1, <1>3
    <2>2. \A i \in 1 .. Len(a) : a[i] = IF i = Len(a) THEN q ELSE k.answers[i]
      BY <1>1, <1>3, <2>1
    <2>3. /\ DOMAIN a = 1 .. Len(a) /\ DOMAIN k.answers = 1 .. Len(k.answers)
          /\ Len(k.answers) \in Nat
      BY <1>1, <2>1
    <2>4. ASSUME NEW i \in DOMAIN a, i # Len(a)
          PROVE  i \in DOMAIN k.answers /\ a[i] = k.answers[i]
      BY <2>1, <2>2, <2>3, <2>4
    <2>5. a[Len(a)] = q
      BY <2>1, <2>2, <2>3
    <2> QED
      BY <2>1, <2>4, <2>5, Zenon
  <1>5. ASSUME NEW id \in Nat, Carries(k, id)
        PROVE  r = << >> /\ a = <<[id |-> id, boot |-> k.boot]>>
    <2>1. k.requests = <<[id |-> id, target |-> k.boot]>> /\ k.answers = << >>
      BY <1>5, Zenon DEF Carries, Quiet
    <2>2. q = [id |-> id, boot |-> k.boot] /\ r = << >>
      BY <2>1
    <2>3. a = <<q>>
      BY <2>1
    <2> QED
      BY <2>2, <2>3, Zenon
  <1> QED
    BY <1>2, <1>3, <1>4, <1>5 DEF Addressed, Quiet

LEMMA ReplyKeeps == ASSUME IInv, NEW c \in Conns, Reply(c) PROVE IInv'
  <1>1. CASE ~Open(conns[c])
    BY <1>1, EndStep, Zenon DEF Reply
  <1>2. CASE Open(conns[c])
    <2> DEFINE r == Tail(conns[c].requests)
               a == Append(conns[c].answers, [id |-> Head(conns[c].requests).id,
                                              boot |-> conns[c].boot])
               n == [conns[c] EXCEPT !.server = "serving", !.requests = r, !.answers = a]
    <2>1. conns[c].server = "busy" /\ UNCHANGED listener
      BY Zenon DEF Reply
    <2>2. conns' = [conns EXCEPT ![c] = n]
      BY <1>2, Zenon DEF Reply, IInv, TypeOK, Conn
    <2>3. Addressed(conns[c]) /\ conns[c].requests # << >>
      BY <2>1, Zenon DEF IInv, Addressed
    <2>4. /\ r \in Seq(Request) /\ a \in Seq(Answer)
          /\ \A i \in DOMAIN r : r[i].target = conns[c].boot
          /\ \A i \in DOMAIN a : a[i].boot = conns[c].boot
          /\ ~Quiet(conns[c])
          /\ \A id \in Nat : Carries(conns[c], id)
                => r = << >> /\ a = <<[id |-> id, boot |-> conns[c].boot]>>
      BY <2>3, ReplyKeepsStreams, Zenon
    <2> HIDE DEF r, a
    <2>0. conns[c] \in Conn /\ r \in Seq(Request) /\ a \in Seq(Answer)
      BY <2>3, <2>4, Zenon DEF Addressed
    <2>5. /\ n \in Conn /\ n.boot = conns[c].boot
          /\ n.member = conns[c].member /\ n.server = "serving"
          /\ n.requests = r /\ n.answers = a
      BY <2>0, Zenon DEF Conn
    <2> HIDE DEF n
    <2>6. Addressed(n) /\ Evolves(conns[c], n)
      BY <1>2, <2>4, <2>5, Zenon DEF Addressed, Evolves, Open, Quiet, Carries
    <2> QED
      BY <1>2, <2>1, <2>2, <2>6, OneStep, Zenon
  <1> QED
    BY <1>1, <1>2, Zenon

LEMMA StopKeeps == ASSUME IInv, NEW how \in {"closed", "lost"}, Stop(how) PROVE IInv'
  <1>1. ASSUME NEW c \in Conns
        PROVE  /\ Addressed(conns'[c])
               /\ Open(conns[c]) => Evolves(conns[c], conns'[c])
               /\ ~Open(conns[c]) => ~Open(conns'[c])
    <2>1. Addressed(conns[c])
      BY Zenon DEF IInv
    <2>2. CASE Dead(conns[c])
      <3>1. conns'[c] = conns[c]
        BY <2>2, Zenon DEF Stop
      <3> QED
        BY <2>1, <3>1, Zenon DEF Evolves
    <2>3. CASE ~Dead(conns[c])
      <3>1. conns'[c] = Settle([conns[c] EXCEPT !.server = how])
        BY <2>3, Zenon DEF Stop
      <3> QED
        BY <2>1, <3>1, EndKeeps, Zenon
    <2> QED
      BY <2>2, <2>3, Zenon
  <1>2. conns' \in [Conns -> Conn]
    <2>1. conns' = [c \in Conns |-> conns'[c]]
      BY Zenon DEF Stop
    <2> QED
      BY <1>1, <2>1, Zenon DEF Addressed
  <1> QED
    BY <1>1, <1>2, PeerKeeps, Zenon DEF Stop, IInv, TypeOK

LEMMA QuietKeeps ==
  ASSUME IInv, UNCHANGED <<conns, link, task, rpc, solo>>,
         boot' \in Nat, semantics' \in {"V1", "V2"}, up' \in BOOLEAN
  PROVE  IInv'
  <1>1. ASSUME NEW c \in Conns, Open(conns[c]) PROVE Evolves(conns[c], conns[c])
    BY <1>1, Zenon DEF Evolves
  <1> QED
    BY <1>1, PeerKeeps, Zenon DEF IInv, TypeOK

LEMMA PeerStep == ASSUME IInv, Peer \/ Activate \/ UNCHANGED vars PROVE IInv'
  <1>1. ASSUME NEW c \in Conns, Authenticate(c) \/ Dispatch(c) \/ Reply(c) PROVE IInv'
    BY <1>1, AuthenticateKeeps, DispatchKeeps, ReplyKeeps, Zenon
  <1>2. ASSUME NEW c \in Conns, Reap(c) \/ GiveUp(c) PROVE IInv'
    BY <1>2, EndStep, Zenon DEF Reap, GiveUp
  <1>3. ASSUME NEW how \in {"closed", "lost"}, Stop(how) PROVE IInv'
    BY <1>3, StopKeeps, Zenon
  <1>4. CASE Restart
    BY <1>4, QuietKeeps DEF Restart, IInv, TypeOK
  <1>5. CASE Activate
    BY <1>5, QuietKeeps, Zenon DEF Activate, IInv, TypeOK
  <1>6. CASE UNCHANGED vars
    BY <1>6, QuietKeeps, Zenon DEF vars, peer, IInv, TypeOK
  <1> QED
    BY <1>1, <1>2, <1>3, <1>4, <1>5, <1>6, Zenon DEF Peer

-----------------------------------------------------------------------------
(* The steps of the member.                                                *)

LEMMA DropAnyKeeps ==
  ASSUME IInv, NEW x \in Slot, NEW cs, cs = Drop(conns, x)
  PROVE  /\ cs \in [Conns -> Conn]
         /\ \A d \in Conns : Addressed(cs[d])
         /\ \A d \in Conns : d # x => cs[d] = conns[d]
         /\ x # None => ~Open(cs[x])
  BY DropKeeps DEF IInv, TypeOK

LEMMA IdleIsExchange == Idle \in Exchange /\ Idle.stage = "idle" /\ Idle.conn = None
  BY Zenon DEF Idle, Exchange, Slot, None

\* Stream x is dropped and stream c opened.
Dial(x, c) == [Drop(conns, x) EXCEPT ![c] = Dialled]

LEMMA DialKeeps ==
  ASSUME IInv, NEW x \in Slot, NEW c \in Conns, FreeConn(c), NEW cs, cs = Dial(x, c)
  PROVE  /\ cs \in [Conns -> Conn]
         /\ \A d \in Conns : Addressed(cs[d])
         /\ \A d \in Conns : d \notin {x, c} => cs[d] = conns[d]
         /\ x \notin {None, c} => ~Open(cs[x])
         /\ Open(cs[c]) /\ Quiet(cs[c])
         /\ c # None /\ ~Open(conns[c]) /\ solo.conn # c
  <1> DEFINE ds == Drop(conns, x)
  <1>1. /\ ds \in [Conns -> Conn]
        /\ \A d \in Conns : Addressed(ds[d])
        /\ \A d \in Conns : d # x => ds[d] = conns[d]
        /\ x # None => ~Open(ds[x])
    BY DropAnyKeeps, Zenon
  <1>2. cs = [ds EXCEPT ![c] = Dialled]
    BY Zenon DEF Dial
  <1> HIDE DEF ds
  <1>3. Dialled \in Conn /\ Addressed(Dialled) /\ Open(Dialled) /\ Quiet(Dialled)
    BY DialledIsAddressed, Zenon DEF IInv
  <1>4. c # None /\ ~Open(conns[c]) /\ solo.conn # c
    BY UnusedIsAddressed, TransportAssumption, Zenon DEF FreeConn, None
  <1> QED
    BY <1>1, <1>2, <1>3, <1>4, Zenon DEF Slot

LEMMA ReconnectKeeps == ASSUME IInv, NEW c \in Conns, Reconnect(c) PROVE IInv'
  <1>0. task = None /\ rpc.stage = "idle"
    BY Zenon DEF Reconnect, LinkFree
  <1>1. link.slot \in Slot /\ FreeConn(c) /\ conns' = Dial(link.slot, c)
    BY Zenon DEF IInv, TypeOK, Reconnect, Dial
  <1>2. /\ conns' \in [Conns -> Conn]
        /\ \A d \in Conns : Addressed(conns'[d])
        /\ \A d \in Conns : d \notin {link.slot, c} => conns'[d] = conns[d]
        /\ link.slot \notin {None, c} => ~Open(conns'[link.slot])
        /\ Open(conns'[c]) /\ Quiet(conns'[c])
        /\ c # None /\ ~Open(conns[c]) /\ solo.conn # c
    BY <1>1, DialKeeps
  <1> USE DEF IInv, TypeOK, Slot
  <1>3. /\ link' = [link EXCEPT !.slot = None] /\ task' = c
        /\ UNCHANGED <<boot, up, semantics, rpc, solo>>
    BY Zenon DEF Reconnect, peer
  <1>4. link' \in [slot : Slot, remote : Nat, semantics : {"V1", "V2"}] /\ link'.slot = None
    BY <1>3, Zenon
  <1>5. TypeOK'
    BY <1>2, <1>3, <1>4, Zenon
  <1>6. LinkInv'
    BY <1>0, <1>3, <1>4, Zenon DEF LinkInv
  <1>7. OpeningInv'
    BY <1>0, <1>2, <1>3, <1>4, Zenon DEF OpeningInv
  <1>8. SoloInv'
    BY <1>2, <1>3, <1>4 DEF SoloInv, LinkInv, Exchange
  <1> QED
    BY <1>2, <1>5, <1>6, <1>7, <1>8, Zenon

LEMMA ReconnectRefusedKeeps == ASSUME IInv, ReconnectRefused PROVE IInv'
  <1>1. link.slot \in Slot /\ task = None /\ rpc.stage = "idle"
    BY Zenon DEF IInv, TypeOK, ReconnectRefused, LinkFree
  <1>2. /\ conns' \in [Conns -> Conn]
        /\ \A d \in Conns : Addressed(conns'[d])
        /\ \A d \in Conns : d # link.slot => conns'[d] = conns[d]
        /\ link.slot # None => ~Open(conns'[link.slot])
    BY <1>1, DropAnyKeeps, Zenon DEF ReconnectRefused
  <1> USE DEF IInv, TypeOK, Slot
  <1>3. /\ link' = [link EXCEPT !.slot = None]
        /\ UNCHANGED <<boot, up, semantics, task, rpc, solo>>
    BY Zenon DEF ReconnectRefused, peer
  <1>4. link' \in [slot : Slot, remote : Nat, semantics : {"V1", "V2"}] /\ link'.slot = None
    BY <1>3, Zenon
  <1>5. TypeOK'
    BY <1>2, <1>3, <1>4, Zenon
  <1>6. LinkInv'
    BY <1>1, <1>3, <1>4, Zenon DEF LinkInv
  <1>7. OpeningInv'
    BY <1>1, <1>3, <1>4, Zenon DEF OpeningInv
  <1>8. SoloInv'
    BY <1>2, <1>3, <1>4, Zenon DEF SoloInv, Exchange
  <1> QED
    BY <1>2, <1>5, <1>6, <1>7, <1>8, Zenon

LEMMA TaskEndsKeeps ==
  ASSUME IInv, task # None, conns' = Drop(conns, task), task' = None,
         UNCHANGED <<boot, up, semantics, link, rpc, solo>>
  PROVE  IInv'
  <1>1. /\ conns' \in [Conns -> Conn]
        /\ \A d \in Conns : Addressed(conns'[d])
        /\ \A d \in Conns : d # task => conns'[d] = conns[d]
        /\ ~Open(conns'[task])
    BY DropAnyKeeps DEF IInv, TypeOK
  <1> USE DEF IInv, TypeOK, Slot
  <1>2. TypeOK' /\ LinkInv' /\ OpeningInv'
    BY <1>1, Zenon DEF LinkInv, OpeningInv
  <1>3. SoloInv'
    BY <1>1, Zenon DEF SoloInv, Exchange
  <1> QED
    BY <1>1, <1>2, <1>3, Zenon

LEMMA TaskConnectedKeeps == ASSUME IInv, TaskConnected PROVE IInv'
  <1>1. CASE RequiresUpgrade(conns[task].semantics)
    BY <1>1, TaskEndsKeeps, Zenon DEF TaskConnected, peer
  <1>2. CASE ~RequiresUpgrade(conns[task].semantics)
    <2> USE DEF IInv, TypeOK, Slot
    <2>1. /\ task \in Conns /\ task # None /\ task' = None
          /\ link' = [slot |-> task, remote |-> conns[task].boot,
                      semantics |-> conns[task].semantics]
          /\ UNCHANGED <<boot, up, semantics, conns, rpc, solo>>
      BY <1>2, Zenon DEF TaskConnected, Connected, peer
    <2>2. /\ link' \in [slot : Slot, remote : Nat, semantics : {"V1", "V2"}]
          /\ link'.slot = task /\ link'.remote = conns[task].boot
      BY <2>1, Zenon DEF Conn
    <2>3. TypeOK'
      BY <2>1, <2>2, Zenon
    <2>4. LinkInv'
      BY <2>1, <2>2, Zenon DEF LinkInv, OpeningInv
    <2>5. OpeningInv'
      BY <2>1, <2>2, Zenon DEF OpeningInv
    <2>6. SoloInv'
      BY <2>1, <2>2, Zenon DEF SoloInv
    <2> QED
      BY <2>1, <2>3, <2>4, <2>5, <2>6, Zenon
  <1> QED
    BY <1>1, <1>2, Zenon

LEMMA StartRpcKeeps == ASSUME IInv, NEW target \in 1 .. boot, StartRpc(target) PROVE IInv'
  <1> DEFINE slot == IF RequiresUpgrade(link.semantics) THEN None ELSE link.slot
             started == [Idle EXCEPT !.stage = "locked", !.id = FreshId(slot), !.target = target]
  <1>1. /\ task = None /\ rpc.stage = "idle"
        /\ conns' = IF slot = link.slot THEN conns ELSE Drop(conns, link.slot)
        /\ link' = [link EXCEPT !.slot = slot]
        /\ rpc' = rpc \/ rpc' = started
        /\ UNCHANGED <<boot, up, semantics, task, solo>>
    BY Zenon DEF StartRpc, LinkFree, peer
  <1>2. slot \in {None, link.slot} /\ slot \in Slot /\ link.slot \in Slot
    BY Zenon DEF IInv, TypeOK, Slot
  <1>3. FreshId(slot) \in Nat
    BY Zenon DEF FreshId
  <1>4. started \in Exchange /\ started.stage = "locked" /\ started.conn = None
    <2>1. target \in Nat
      BY DEF IInv, TypeOK
    <2> QED
      BY <1>3, <2>1, IdleIsExchange, Zenon DEF Exchange
  <1> HIDE DEF slot, started
  <1>5. /\ conns' \in [Conns -> Conn]
        /\ \A d \in Conns : Addressed(conns'[d])
        /\ \A d \in Conns : d # link.slot \/ d = slot => conns'[d] = conns[d]
        /\ slot # link.slot => ~Open(conns'[link.slot])
    <2>1. CASE slot = link.slot
      BY <1>1, <2>1, Zenon DEF IInv, TypeOK
    <2>2. CASE slot # link.slot
      BY <1>1, <1>2, <2>2, DropAnyKeeps
    <2> QED
      BY <2>1, <2>2, Zenon
  <1> USE DEF IInv, TypeOK, Slot
  <1>6. link' \in [slot : Slot, remote : Nat, semantics : {"V1", "V2"}]
        /\ link'.slot = slot /\ link'.remote = link.remote
    BY <1>1, <1>2, Zenon
  <1>7. rpc' \in Exchange /\ rpc'.stage \in {"idle", "locked"} /\ rpc'.conn = None
    BY <1>1, <1>4, Zenon DEF OpeningInv
  <1>8. TypeOK'
    BY <1>1, <1>5, <1>6, <1>7, Zenon
  <1>9. LinkInv'
    BY <1>1, <1>2, <1>5, <1>6, <1>7, Zenon DEF LinkInv
  <1>10. OpeningInv'
    BY <1>1, <1>7, Zenon DEF OpeningInv
  <1>11. SoloInv'
    BY <1>1, <1>2, <1>5, <1>6, <1>7 DEF SoloInv, LinkInv, Exchange
  <1> QED
    BY <1>5, <1>8, <1>9, <1>10, <1>11, Zenon

\* A request to the boot of a quiet stream is all that the stream carries.
LEMMA AppendKeeps ==
  ASSUME NEW k, Addressed(k), NEW id \in Nat, NEW m, m = [id |-> id, target |-> k.boot],
         NEW r, r = Append(k.requests, m)
  PROVE  /\ r \in Seq(Request) /\ r # << >>
         /\ \A i \in DOMAIN r : r[i].target = k.boot
         /\ k.requests = << >> => r = <<m>>
  <1>1. /\ k.requests \in Seq(Request) /\ m \in Request /\ m.target = k.boot
    BY Zenon DEF Addressed, Conn, Request
  <1>2. /\ r \in Seq(Request) /\ r # << >> /\ Len(k.requests) \in Nat
        /\ Len(r) = Len(k.requests) + 1
        /\ DOMAIN r = 1 .. Len(r) /\ DOMAIN k.requests = 1 .. Len(k.requests)
    BY <1>1
  <1>3. /\ r[Len(r)] = m
        /\ \A i \in DOMAIN k.requests : r[i] = k.requests[i]
    BY <1>1, <1>2
  <1>4. ASSUME NEW i \in DOMAIN r PROVE r[i].target = k.boot
    <2>1. i = Len(r) \/ i \in DOMAIN k.requests
      BY <1>2
    <2> QED
      BY <1>1, <1>3, <2>1, Zenon DEF Addressed
  <1>5. k.requests = << >> => r = <<m>>
    OBVIOUS
  <1> QED
    BY <1>2, <1>4, <1>5, Zenon

LEMMA WriteKeeps ==
  ASSUME NEW k, Addressed(k), NEW id \in Nat, NEW n,
         n = [k EXCEPT !.requests = Append(k.requests, [id |-> id, target |-> k.boot])]
  PROVE  /\ Addressed(n) /\ n.boot = k.boot /\ n.member = k.member
         /\ Quiet(k) => Carries(n, id)
  <1> DEFINE m == [id |-> id, target |-> k.boot]
             r == Append(k.requests, m)
  <1>1. /\ r \in Seq(Request) /\ r # << >>
        /\ \A i \in DOMAIN r : r[i].target = k.boot
        /\ k.requests = << >> => r = <<m>>
    BY AppendKeeps, Zenon
  <1>2. n = [k EXCEPT !.requests = r]
    BY Zenon
  <1> HIDE DEF r
  <1>3. /\ n \in Conn /\ n.boot = k.boot /\ n.member = k.member /\ n.server = k.server
        /\ n.requests = r /\ n.answers = k.answers
    BY <1>1, <1>2, Zenon DEF Addressed, Conn
  <1> QED
    BY <1>1, <1>3, Zenon DEF Addressed, Quiet, Carries

LEMMA WriteRpcKeeps == ASSUME IInv, WriteRpc PROVE IInv'
  <1> DEFINE k == conns[link.slot]
             n == [k EXCEPT !.requests = Append(k.requests, [id |-> rpc.id, target |-> k.boot])]
  <1>1. /\ link.slot \in Conns /\ link.slot # None
        /\ rpc.stage = "locked" /\ link.remote = rpc.target
        /\ Addressed(k) /\ Quiet(k) /\ Open(k) /\ k.boot = link.remote /\ rpc.id \in Nat
    BY Zenon DEF WriteRpc, IInv, TypeOK, Slot, LinkInv, Exchange
  <1>2. /\ conns' = [conns EXCEPT ![link.slot] = n]
        /\ rpc' = [rpc EXCEPT !.stage = "sent"]
        /\ UNCHANGED <<boot, up, semantics, link, task, solo>>
    BY <1>1, Zenon DEF WriteRpc, IInv, TypeOK, Conn, peer
  <1>3. /\ Addressed(n) /\ n.boot = k.boot /\ n.member = k.member /\ Carries(n, rpc.id)
    BY <1>1, WriteKeeps
  <1> HIDE DEF n
  <1> USE DEF IInv, TypeOK, Slot
  <1>4. /\ conns' \in [Conns -> Conn] /\ conns'[link.slot] = n
        /\ \A d \in Conns : d # link.slot => conns'[d] = conns[d]
    BY <1>1, <1>2, <1>3, Zenon DEF Addressed
  <1>5. /\ rpc' \in Exchange /\ rpc'.stage = "sent" /\ rpc'.conn = rpc.conn
        /\ rpc'.id = rpc.id /\ rpc'.target = rpc.target
    BY <1>2, Zenon DEF Exchange
  <1>6. TypeOK'
    BY <1>2, <1>4, <1>5, Zenon
  <1>7. LinkInv'
    BY <1>1, <1>2, <1>3, <1>4, <1>5, Zenon DEF LinkInv, Open
  <1>8. OpeningInv'
    BY <1>1, <1>2, <1>4, <1>5, Zenon DEF OpeningInv
  <1>9. SoloInv'
    BY <1>1, <1>2, <1>4, <1>5 DEF SoloInv, Exchange
  <1> QED
    BY <1>3, <1>4, <1>6, <1>7, <1>8, <1>9, Zenon

LEMMA FinishRpcKeeps == ASSUME IInv, FinishRpc PROVE IInv'
  <1> DEFINE k == conns[link.slot]
             n == [k EXCEPT !.answers = << >>]
  <1>1. /\ link.slot \in Conns /\ link.slot # None /\ rpc.stage = "sent"
        /\ Addressed(k) /\ Open(k) /\ k.boot = link.remote
        /\ Carries(k, rpc.id) /\ k.answers # << >>
    BY Zenon DEF FinishRpc, IInv, TypeOK, Slot, LinkInv
  <1>2. k.requests = << >> /\ Tail(k.answers) = << >>
    <2>1. k.requests = << >> /\ k.answers = <<[id |-> rpc.id, boot |-> k.boot]>>
      BY <1>1, Zenon DEF Carries, Quiet
    <2> QED
      BY <2>1
  <1>3. /\ conns' = [conns EXCEPT ![link.slot] = n]
        /\ rpc' = Idle
        /\ UNCHANGED <<boot, up, semantics, link, task, solo>>
    BY <1>1, <1>2, Zenon DEF FinishRpc, IInv, TypeOK, Conn, peer
  <1>4. /\ n \in Conn /\ n.boot = k.boot /\ n.member = k.member /\ n.server = k.server
        /\ n.requests = << >> /\ n.answers = << >>
    BY <1>1, <1>2, WithAnswers, EmptyStream, Zenon DEF Addressed
  <1> HIDE DEF n
  <1>5. Addressed(n) /\ Quiet(n) /\ Open(n)
    BY <1>1, <1>2, <1>4, EmptyStream, Zenon DEF Addressed, Quiet, Open
  <1> USE DEF IInv, TypeOK, Slot
  <1>6. /\ conns' \in [Conns -> Conn] /\ conns'[link.slot] = n
        /\ \A d \in Conns : d # link.slot => conns'[d] = conns[d]
    BY <1>1, <1>3, <1>4, Zenon
  <1>7. TypeOK'
    BY <1>3, <1>6, IdleIsExchange, Zenon
  <1>8. LinkInv'
    BY <1>1, <1>3, <1>4, <1>5, <1>6, IdleIsExchange, Zenon DEF LinkInv
  <1>9. OpeningInv'
    BY <1>1, <1>3, <1>6, IdleIsExchange, Zenon DEF OpeningInv
  <1>10. SoloInv'
    BY <1>1, <1>3, <1>6, IdleIsExchange, Zenon DEF SoloInv, Exchange
  <1> QED
    BY <1>5, <1>6, <1>7, <1>8, <1>9, <1>10, Zenon

LEMMA FailRpcKeeps == ASSUME IInv, FailRpc PROVE IInv'
  <1> DEFINE x == IF rpc.stage = "connecting" THEN rpc.conn ELSE link.slot
  <1>1. /\ x \in Slot /\ conns' = Drop(conns, x)
        /\ link.slot \in {None, x} /\ rpc.conn \in {None, x} /\ task = None
        /\ solo.stage \in {"connecting", "sent"} => solo.conn # x
    BY Zenon DEF FailRpc, IInv, TypeOK, LinkInv, OpeningInv, SoloInv, Drop, Exchange
  <1> HIDE DEF x
  <1>2. /\ conns' \in [Conns -> Conn]
        /\ \A d \in Conns : Addressed(conns'[d])
        /\ \A d \in Conns : d # x => conns'[d] = conns[d]
        /\ x # None => ~Open(conns'[x])
    BY <1>1, DropAnyKeeps, Zenon
  <1> USE DEF IInv, TypeOK, Slot
  <1>3. /\ link' = [link EXCEPT !.slot = None] /\ rpc' = Idle
        /\ UNCHANGED <<boot, up, semantics, task, solo>>
    BY Zenon DEF FailRpc, peer
  <1>4. link' \in [slot : Slot, remote : Nat, semantics : {"V1", "V2"}] /\ link'.slot = None
    BY <1>3, Zenon
  <1>5. TypeOK'
    BY <1>2, <1>3, <1>4, IdleIsExchange, Zenon
  <1>6. LinkInv' /\ OpeningInv'
    BY <1>1, <1>3, <1>4, IdleIsExchange, Zenon DEF LinkInv, OpeningInv
  <1>7. SoloInv'
    BY <1>1, <1>2, <1>3, <1>4, IdleIsExchange DEF SoloInv, Exchange
  <1> QED
    BY <1>2, <1>5, <1>6, <1>7, Zenon

LEMMA RetryRpcKeeps == ASSUME IInv, NEW c \in Conns, RetryRpc(c) PROVE IInv'
  <1>0. rpc.stage = "sent" /\ task = None
    BY Zenon DEF IInv, OpeningInv, RetryRpc
  <1>1. link.slot \in Slot /\ FreeConn(c) /\ conns' = Dial(link.slot, c)
    BY Zenon DEF IInv, TypeOK, RetryRpc, Dial
  <1>2. /\ conns' \in [Conns -> Conn]
        /\ \A d \in Conns : Addressed(conns'[d])
        /\ \A d \in Conns : d \notin {link.slot, c} => conns'[d] = conns[d]
        /\ link.slot \notin {None, c} => ~Open(conns'[link.slot])
        /\ Open(conns'[c]) /\ Quiet(conns'[c])
        /\ c # None /\ ~Open(conns[c]) /\ solo.conn # c
    BY <1>1, DialKeeps
  <1> USE DEF IInv, TypeOK, Slot
  <1>3. /\ link' = [link EXCEPT !.slot = None]
        /\ rpc' = [rpc EXCEPT !.stage = "connecting", !.retries = 1, !.conn = c]
        /\ UNCHANGED <<boot, up, semantics, task, solo>>
    BY Zenon DEF RetryRpc, peer
  <1>4. link' \in [slot : Slot, remote : Nat, semantics : {"V1", "V2"}] /\ link'.slot = None
    BY <1>3, Zenon
  <1>5. rpc' \in Exchange /\ rpc'.stage = "connecting" /\ rpc'.conn = c
    BY <1>3, Zenon DEF Exchange
  <1>6. TypeOK'
    BY <1>2, <1>3, <1>4, <1>5, Zenon
  <1>7. LinkInv' /\ OpeningInv'
    BY <1>0, <1>2, <1>3, <1>4, <1>5, Zenon DEF LinkInv, OpeningInv
  <1>8. SoloInv'
    BY <1>2, <1>3, <1>4, <1>5 DEF SoloInv, LinkInv, Exchange
  <1> QED
    BY <1>2, <1>6, <1>7, <1>8, Zenon

LEMMA RetryConnectedKeeps == ASSUME IInv, RetryConnected PROVE IInv'
  <1> USE DEF IInv, TypeOK, Slot
  <1>1. /\ rpc.stage = "connecting" /\ rpc.conn \in Conns /\ rpc.conn # None
        /\ link' = [slot |-> rpc.conn, remote |-> conns[rpc.conn].boot,
                    semantics |-> conns[rpc.conn].semantics]
        /\ rpc' = [rpc EXCEPT !.stage = "locked", !.conn = None]
        /\ UNCHANGED <<boot, up, semantics, conns, task, solo>>
    BY Zenon DEF RetryConnected, Connected, peer, OpeningInv, Exchange
  <1>2. /\ link' \in [slot : Slot, remote : Nat, semantics : {"V1", "V2"}]
        /\ link'.slot = rpc.conn /\ link'.remote = conns[rpc.conn].boot
    BY <1>1, Zenon DEF Conn
  <1>3. rpc' \in Exchange /\ rpc'.stage = "locked" /\ rpc'.conn = None
    BY <1>1, Zenon DEF Exchange
  <1>4. TypeOK'
    BY <1>1, <1>2, <1>3, Zenon
  <1>5. LinkInv' /\ OpeningInv'
    BY <1>1, <1>2, <1>3, Zenon DEF LinkInv, OpeningInv
  <1>6. SoloInv'
    BY <1>1, <1>2, <1>3, Zenon DEF SoloInv
  <1> QED
    BY <1>1, <1>4, <1>5, <1>6, Zenon

LEMMA StartSoloKeeps ==
  ASSUME IInv, NEW c \in Conns, NEW target \in 1 .. boot, StartSolo(c, target)
  PROVE  IInv'
  <1>1. FreeConn(c) /\ conns' = Dial(None, c) /\ None \in Slot
    BY Zenon DEF StartSolo, Dial, Drop, Slot
  <1>2. /\ conns' \in [Conns -> Conn]
        /\ \A d \in Conns : Addressed(conns'[d])
        /\ \A d \in Conns : d \notin {None, c} => conns'[d] = conns[d]
        /\ Open(conns'[c]) /\ c # None /\ ~Open(conns[c])
    BY <1>1, DialKeeps
  <1>3. \A d \in Conns : d # c => conns'[d] = conns[d]
    BY <1>2, TransportAssumption, Zenon DEF None
  <1> USE DEF IInv, TypeOK, Slot
  <1>4. /\ solo' = [Idle EXCEPT !.stage = "connecting", !.conn = c, !.target = target]
        /\ UNCHANGED <<boot, up, semantics, link, task, rpc>>
    BY Zenon DEF StartSolo, peer
  <1>5. solo' \in Exchange /\ solo'.stage = "connecting" /\ solo'.conn = c
    <2>1. target \in Nat
      OBVIOUS
    <2> QED
      BY <1>4, <2>1, IdleIsExchange, Zenon DEF Exchange
  <1>6. TypeOK'
    BY <1>2, <1>4, <1>5, Zenon
  <1>7. LinkInv'
    BY <1>2, <1>3, <1>4, Zenon DEF LinkInv
  <1>8. OpeningInv'
    BY <1>2, <1>3, <1>4, Zenon DEF OpeningInv, Exchange
  <1>9. SoloInv'
    BY <1>2, <1>4, <1>5 DEF SoloInv, LinkInv, OpeningInv
  <1> QED
    BY <1>2, <1>6, <1>7, <1>8, <1>9, Zenon

LEMMA WriteSoloKeeps == ASSUME IInv, WriteSolo PROVE IInv'
  <1> DEFINE k == conns[solo.conn]
             n == [k EXCEPT !.requests = Append(k.requests, [id |-> solo.id, target |-> k.boot])]
  <1>1. /\ solo.conn \in Conns /\ solo.stage = "connecting" /\ k.boot = solo.target
        /\ solo.conn \notin {None, link.slot, task, rpc.conn}
        /\ Addressed(k) /\ Open(k) /\ solo.id \in Nat
    BY Zenon DEF WriteSolo, IInv, TypeOK, Slot, SoloInv, Exchange
  <1>2. /\ conns' = [conns EXCEPT ![solo.conn] = n]
        /\ solo' = [solo EXCEPT !.stage = "sent"]
        /\ UNCHANGED <<boot, up, semantics, link, task, rpc>>
    BY <1>1, Zenon DEF WriteSolo, IInv, TypeOK, Conn, peer
  <1>3. /\ Addressed(n) /\ n.boot = k.boot /\ n.member = k.member
    BY <1>1, WriteKeeps
  <1> HIDE DEF n
  <1> USE DEF IInv, TypeOK, Slot
  <1>4. /\ conns' \in [Conns -> Conn] /\ conns'[solo.conn] = n
        /\ \A d \in Conns : d # solo.conn => conns'[d] = conns[d]
    BY <1>1, <1>2, <1>3, Zenon DEF Addressed
  <1>5. /\ solo' \in Exchange /\ solo'.stage = "sent" /\ solo'.conn = solo.conn
        /\ solo'.target = solo.target
    BY <1>2, Zenon DEF Exchange
  <1>6. TypeOK'
    BY <1>2, <1>4, <1>5, Zenon
  <1>7. LinkInv'
    BY <1>1, <1>2, <1>4, Zenon DEF LinkInv
  <1>8. OpeningInv'
    BY <1>1, <1>2, <1>4, Zenon DEF OpeningInv, Exchange
  <1>9. SoloInv'
    BY <1>1, <1>2, <1>3, <1>4, <1>5, Zenon DEF SoloInv, Open
  <1> QED
    BY <1>3, <1>4, <1>6, <1>7, <1>8, <1>9, Zenon

LEMMA EndSoloKeeps == ASSUME IInv, EndSolo PROVE IInv'
  <1>1. /\ solo.conn \in Slot /\ solo.conn \notin {None, link.slot, task, rpc.conn}
        /\ conns' = Drop(conns, solo.conn)
    BY Zenon DEF EndSolo, IInv, TypeOK, SoloInv, Exchange
  <1>2. /\ conns' \in [Conns -> Conn]
        /\ \A d \in Conns : Addressed(conns'[d])
        /\ \A d \in Conns : d # solo.conn => conns'[d] = conns[d]
        /\ ~Open(conns'[solo.conn])
    BY <1>1, DropAnyKeeps, Zenon
  <1> USE DEF IInv, TypeOK, Slot
  <1>3. /\ solo' = [Idle EXCEPT !.stage = "closing", !.conn = solo.conn]
        /\ UNCHANGED <<boot, up, semantics, link, task, rpc>>
    BY Zenon DEF EndSolo, peer
  <1>4. solo' \in Exchange /\ solo'.stage = "closing" /\ solo'.conn = solo.conn
    BY <1>1, <1>3, IdleIsExchange, Zenon DEF Exchange
  <1>5. TypeOK'
    BY <1>2, <1>3, <1>4, Zenon
  <1>6. LinkInv'
    BY <1>1, <1>2, <1>3, Zenon DEF LinkInv
  <1>7. OpeningInv'
    BY <1>1, <1>2, <1>3, Zenon DEF OpeningInv, Exchange
  <1>8. SoloInv'
    BY <1>1, <1>2, <1>4, Zenon DEF SoloInv
  <1> QED
    BY <1>2, <1>5, <1>6, <1>7, <1>8, Zenon

LEMMA RestSoloKeeps == ASSUME IInv, RestSolo PROVE IInv'
  BY IdleIsExchange, Zenon
  DEF RestSolo, peer, IInv, TypeOK, LinkInv, OpeningInv, SoloInv

-----------------------------------------------------------------------------
LEMMA InitIInv == Init => IInv
  <1> SUFFICES ASSUME Init PROVE IInv
    BY Zenon
  <1>1. conns \in [Conns -> Conn] /\ \A c \in Conns : Addressed(conns[c])
    BY UnusedIsAddressed, Zenon DEF Init
  <1>2. /\ link \in [slot : Slot, remote : Nat, semantics : {"V1", "V2"}]
        /\ link.slot = None
    BY Zenon DEF Init, Slot, None
  <1>3. TypeOK
    BY <1>1, <1>2, IdleIsExchange, Zenon DEF Init, TypeOK, Slot
  <1> QED
    BY <1>1, <1>2, <1>3, IdleIsExchange, Zenon DEF Init, IInv, LinkInv, OpeningInv, SoloInv

LEMMA NextIInv == IInv /\ [Next]_vars => IInv'
  <1> SUFFICES ASSUME IInv, [Next]_vars PROVE IInv'
    BY Zenon
  <1>1. CASE Peer \/ Activate \/ UNCHANGED vars
    BY <1>1, PeerStep, Zenon
  <1>2. ASSUME NEW c \in Conns, Reconnect(c) \/ RetryRpc(c) PROVE IInv'
    BY <1>2, ReconnectKeeps, RetryRpcKeeps, Zenon
  <1>3. CASE ReconnectRefused \/ TaskConnected
    BY <1>3, ReconnectRefusedKeeps, TaskConnectedKeeps, Zenon
  <1>4. CASE TaskFails
    BY <1>4, TaskEndsKeeps, Zenon DEF TaskFails, peer
  <1>5. ASSUME NEW target \in 1 .. boot, StartRpc(target) PROVE IInv'
    BY <1>5, StartRpcKeeps, Zenon
  <1>6. CASE WriteRpc \/ FinishRpc \/ FailRpc \/ RetryConnected
    BY <1>6, WriteRpcKeeps, FinishRpcKeeps, FailRpcKeeps, RetryConnectedKeeps, Zenon
  <1>7. ASSUME NEW c \in Conns, NEW target \in 1 .. boot, StartSolo(c, target) PROVE IInv'
    BY <1>7, StartSoloKeeps, Zenon
  <1>8. CASE WriteSolo \/ EndSolo \/ RestSolo
    BY <1>8, WriteSoloKeeps, EndSoloKeeps, RestSoloKeeps, Zenon
  <1> QED
    BY <1>1, <1>2, <1>3, <1>4, <1>5, <1>6, <1>7, <1>8, Zenon DEF Next, Member

\* Whatever restarts, retries and reconnects come between the authorization of a request
\* and its arrival, the boot that dispatches it is the boot it is addressed to.
THEOREM RequestsReachTheirTarget == Spec => []OnlyTheTargetDispatches
  <1>1. IInv => OnlyTheTargetDispatches
    <2> SUFFICES ASSUME IInv, NEW c \in Conns, conns[c].server = "busy"
                 PROVE  Head(conns[c].requests).target = conns[c].boot
      BY Zenon DEF OnlyTheTargetDispatches
    <2>1. /\ conns[c].requests \in Seq(Request) /\ conns[c].requests # << >>
          /\ \A i \in DOMAIN conns[c].requests : conns[c].requests[i].target = conns[c].boot
      BY Zenon DEF IInv, Addressed, Conn
    <2>2. 1 \in DOMAIN conns[c].requests /\ Head(conns[c].requests) = conns[c].requests[1]
      BY <2>1
    <2> QED
      BY <2>1, <2>2, Zenon
  <1> QED
    BY InitIInv, NextIInv, <1>1, PTL DEF Spec

\* An RPC takes the answer to itself, given by the boot it was addressed to, and an
\* exchange on its own stream reads no answer of another boot.
THEOREM AnswersReachTheirRequest == Spec => AnswersMatch
  <1>1. IInv => TakesOwnAnswer
    <2> SUFFICES ASSUME IInv PROVE TakesOwnAnswer
      BY Zenon
    <2>1. ASSUME FinishRpc
          PROVE  Head(conns[link.slot].answers) = [id |-> rpc.id, boot |-> rpc.target]
      <3>1. conns[link.slot].answers = <<[id |-> rpc.id, boot |-> rpc.target]>>
        BY <2>1, Zenon DEF FinishRpc, IInv, LinkInv, Carries, Quiet
      <3> QED
        BY <3>1
    <2>2. ASSUME solo.stage = "sent", conns[solo.conn].answers # << >>
          PROVE  Head(conns[solo.conn].answers).boot = solo.target
      <3> DEFINE k == conns[solo.conn]
      <3>1. solo.conn \in Conns /\ k.boot = solo.target
        BY <2>2, Zenon DEF IInv, TypeOK, SoloInv, Exchange, Slot
      <3>2. k.answers \in Seq(Answer) /\ \A i \in DOMAIN k.answers : k.answers[i].boot = k.boot
        BY <3>1, Zenon DEF IInv, Addressed, Conn
      <3>3. 1 \in DOMAIN k.answers /\ Head(k.answers) = k.answers[1]
        BY <2>2, <3>2
      <3> QED
        BY <3>1, <3>2, <3>3, Zenon
    <2> QED
      BY <2>1, <2>2, Zenon DEF TakesOwnAnswer
  <1> QED
    BY InitIInv, NextIInv, <1>1, PTL DEF Spec, AnswersMatch

=============================================================================
