----------------------------- MODULE DhcpClient -----------------------------
(***************************************************************************)
(* One interface on DHCP: configureDHCP in cmd/k0smos/init_linux.go, the   *)
(* client of internal/dhcp (Acquire, once, await, Renew, renewOnce,        *)
(* rebind), knet.Configure, and the servers and the network it talks to.   *)
(*                                                                         *)
(* Packets are lost, delayed, duplicated and reordered: a packet once sent *)
(* may be received any number of times, at any time later. Servers are     *)
(* external: a server offers a free address of its pool, binds it when it  *)
(* is requested, extends the binding on renewal, and lets it lapse when    *)
(* the lease has run out. A send that fails, or a renewal for which the    *)
(* lease names no server, is a packet lost. Exchange ids, taken from the   *)
(* clock by the code, do not repeat.                                       *)
(***************************************************************************)
EXTENDS Naturals, FiniteSets

CONSTANTS
    Servers,      \* DHCP servers on the link
    Addrs,        \* the addresses they lease
    ServerOf,     \* ServerOf[a]: the server with a in its pool
    Routers,      \* the servers whose leases name a gateway
    MaxAttempts,  \* Client.MaxAttempts
    MaxXids,      \* bound: exchanges
    Foreign       \* whether packets for other clients keep arriving

None == "none"
Lapsed == 3       \* the age at which a lease has run out; 1 is T1 and 2 is T2

ASSUME DhcpAssumptions ==
    /\ None \notin Addrs
    /\ ServerOf \in [Addrs -> Servers]
    /\ Routers \subseteq Servers
    /\ MaxAttempts \in Nat \ {0}
    /\ MaxXids \in Nat
    /\ Foreign \in BOOLEAN

VARIABLES
    at,       \* where the client is
    boot,     \* configureDHCP has not returned yet
    attempt,  \* attempts Acquire has made
    xid,      \* the exchange it is in
    asked,    \* the address it last requested
    lease,    \* the address of the lease it holds
    iface,    \* the interface: [addr, routes], routes by the server that gave them
    quiet,    \* nothing has arrived since Recv was called
    ctxDone,  \* runCtx is cancelled
    why,      \* what ended Renew
    sent,     \* packets the client has sent
    replies,  \* packets servers have sent to it
    owner,    \* owner[a]: "free", "us" or "other"
    age       \* age[a]: of the lease on a, Lapsed + 1 before there is one

clientVars == <<at, boot, attempt, xid, asked, lease, iface, quiet, ctxDone, why>>
vars == <<at, boot, attempt, xid, asked, lease, iface, quiet, ctxDone, why, sent, replies,
          owner, age>>

Awaiting == {"offer", "ack", "renew", "rebind"}
ClientKinds == {"discover", "request", "renew", "rebind"}
Xids == 0 .. MaxXids

TypeOK ==
    /\ at \in {"discover", "backoff", "apply", "sleep", "stopped", "failed",
               "startRenew", "startRebind"} \cup Awaiting
    /\ boot \in BOOLEAN
    /\ attempt \in 0 .. MaxAttempts
    /\ xid \in Xids
    /\ asked \in Addrs \cup {None}
    /\ lease \in Addrs \cup {None}
    /\ iface \in [addr : Addrs \cup {None}, routes : SUBSET Servers]
    /\ quiet \in BOOLEAN
    /\ ctxDone \in BOOLEAN
    /\ why \in {None, "ctx", "apply", "lost"}
    /\ sent \subseteq [kind : ClientKinds, xid : Xids, addr : Addrs \cup {None}]
    /\ replies \subseteq [kind : {"offer", "ack", "nak"}, xid : Xids, addr : Addrs]
    /\ owner \in [Addrs -> {"free", "us", "other"}]
    /\ age \in [Addrs -> 0 .. Lapsed + 1]

Init ==
    /\ at = "discover"
    /\ boot = TRUE
    /\ attempt = 0
    /\ xid = 0
    /\ asked = None
    /\ lease = None
    /\ iface = [addr |-> None, routes |-> {}]
    /\ quiet = TRUE
    /\ ctxDone = FALSE
    /\ why = None
    /\ sent = {}
    /\ replies = {}
    /\ owner = [a \in Addrs |-> "free"]
    /\ age = [a \in Addrs |-> Lapsed + 1]

-----------------------------------------------------------------------------
(* Servers, other clients and time.                                        *)

Send(kind, x, a) == sent' = sent \cup {[kind |-> kind, xid |-> x, addr |-> a]}
Answer(kind, x, a) == replies' = replies \cup {[kind |-> kind, xid |-> x, addr |-> a]}

Offer(m, a) ==
    /\ m.kind = "discover"
    /\ owner[a] # "other"
    /\ Answer("offer", m.xid, a)
    /\ UNCHANGED <<clientVars, sent, owner, age>>

\* A request or a renewal is granted, or refused because the address is gone.
Grant(m) ==
    /\ \/ m.kind = "request" /\ owner[m.addr] # "other"
       \/ m.kind \in {"renew", "rebind"} /\ owner[m.addr] = "us"
    /\ owner' = [owner EXCEPT ![m.addr] = "us"]
    /\ age' = [age EXCEPT ![m.addr] = 0]
    /\ Answer("ack", m.xid, m.addr)
    /\ UNCHANGED <<clientVars, sent>>

Refuse(m) ==
    /\ \/ m.kind = "request" /\ owner[m.addr] = "other"
       \/ m.kind \in {"renew", "rebind"} /\ owner[m.addr] # "us"
    /\ Answer("nak", m.xid, m.addr)
    /\ UNCHANGED <<clientVars, sent, owner, age>>

\* Time passes for the leases the servers have granted us ...
Tick ==
    /\ \E a \in Addrs : age[a] < Lapsed
    /\ age' = [a \in Addrs |-> IF age[a] < Lapsed THEN age[a] + 1 ELSE age[a]]
    /\ UNCHANGED <<clientVars, sent, replies, owner>>

\* ... and one that ran out may go to someone else.
Reassign(a) ==
    /\ owner[a] = "us"
    /\ age[a] = Lapsed
    /\ owner' = [owner EXCEPT ![a] = "other"]
    /\ UNCHANGED <<clientVars, sent, replies, age>>

Take(a) ==
    /\ owner[a] = "free"
    /\ owner' = [owner EXCEPT ![a] = "other"]
    /\ UNCHANGED <<clientVars, sent, replies, age>>

-----------------------------------------------------------------------------
(* await.                                                                  *)

\* Faulty variant of Mine: a reply to any exchange of ours will do.
MineAnyXid(m) == m \in replies

\* Parse accepts a packet for the exchange the client is in; await skips others.
Mine(m) == m \in replies /\ m.xid = xid

\* A packet that is not ours arrives, and Recv is called afresh.
ForeignPacket ==
    /\ Foreign
    /\ at \in Awaiting
    /\ quiet' = FALSE
    /\ UNCHANGED <<at, boot, attempt, xid, asked, lease, iface, ctxDone, why, sent,
                   replies, owner, age>>

Elapse ==
    /\ at \in Awaiting
    /\ ~quiet
    /\ quiet' = TRUE
    /\ UNCHANGED <<at, boot, attempt, xid, asked, lease, iface, ctxDone, why, sent,
                   replies, owner, age>>

-----------------------------------------------------------------------------
(* Acquire and once.                                                       *)

Discover ==
    /\ at = "discover"
    /\ ~ctxDone
    /\ xid < MaxXids
    /\ xid' = xid + 1
    /\ Send("discover", xid', None)
    /\ at' = "offer"
    /\ quiet' = TRUE
    /\ UNCHANGED <<boot, attempt, asked, lease, iface, ctxDone, why, replies, owner, age>>

\* Acquire has nothing more to try: boot goes on without an address, a renewal
\* ends.
AcquireFails(reason) ==
    /\ at' = IF boot THEN "failed" ELSE "stopped"
    /\ why' = reason
    /\ boot' = FALSE

DiscoverCancelled ==
    /\ at = "discover"
    /\ ctxDone
    /\ AcquireFails("ctx")
    /\ UNCHANGED <<attempt, xid, asked, lease, iface, quiet, ctxDone, sent, replies, owner, age>>

\* An attempt failed: the next one starts after a pause, if there is one left.
AttemptFails ==
    /\ attempt' = attempt + 1
    /\ IF attempt + 1 < MaxAttempts THEN at' = "backoff" /\ UNCHANGED <<why, boot>>
                                    ELSE AcquireFails("lost")
    /\ UNCHANGED <<xid, asked, lease, iface, ctxDone, owner, age, replies>>

\* The offer is requested from the server that made it; anything else that
\* answers this exchange fails the attempt.
TakeOffer(m) ==
    /\ at = "offer"
    /\ Mine(m)
    /\ \/ /\ m.kind = "offer"
          /\ asked' = m.addr
          /\ Send("request", xid, m.addr)
          /\ at' = "ack"
          /\ quiet' = TRUE
          /\ UNCHANGED <<boot, attempt, xid, lease, iface, ctxDone, why, replies, owner, age>>
       \/ /\ m.kind # "offer"
          /\ AttemptFails
          /\ UNCHANGED <<sent, quiet>>

\* Faulty variant of TakeAck: the type of the second answer is not looked at.
TakeAnyAnswer(m) ==
    /\ at = "ack"
    /\ Mine(m)
    /\ lease' = m.addr
    /\ at' = "apply"
    /\ UNCHANGED <<boot, attempt, xid, asked, iface, quiet, ctxDone, why, sent,
                   replies, owner, age>>

\* A NAK, or a second server's offer that comes late, fails the attempt.
TakeAck(m) ==
    /\ at = "ack"
    /\ Mine(m)
    /\ \/ /\ m.kind = "ack"
          /\ lease' = m.addr
          /\ at' = "apply"
          /\ UNCHANGED <<boot, attempt, xid, asked, iface, quiet, ctxDone, why, sent,
                         replies, owner, age>>
       \/ /\ m.kind # "ack"
          /\ AttemptFails
          /\ UNCHANGED <<sent, quiet>>

\* Faulty variant of AcquireTimeout: an attempt that times out is not counted.
AcquireTimeoutRetries ==
    /\ at \in {"offer", "ack"}
    /\ quiet
    /\ at' = "backoff"
    /\ UNCHANGED <<boot, attempt, xid, asked, lease, iface, quiet, ctxDone, why, sent,
                   replies, owner, age>>

AcquireTimeout ==
    /\ at \in {"offer", "ack"}
    /\ quiet
    /\ AttemptFails
    /\ UNCHANGED <<sent, quiet>>

Backoff ==
    /\ at = "backoff"
    /\ \/ at' = "discover" /\ UNCHANGED <<boot, why>>
       \/ ctxDone /\ AcquireFails("ctx")
    /\ UNCHANGED <<attempt, xid, asked, lease, iface, quiet, ctxDone, sent, replies,
                   owner, age>>

-----------------------------------------------------------------------------
(* apply: knet.Configure.                                                  *)

\* A new address takes the place of the old one and the kernel drops the routes
\* that went with it; adding a default route that is there already is EEXIST.
KeptRoutes == IF iface.addr = lease THEN iface.routes ELSE {}

Configured(routes) ==
    /\ iface' = [addr |-> lease, routes |-> routes]
    /\ at' = "sleep"
    /\ boot' = FALSE
    /\ UNCHANGED why

\* configureDHCP reports the error, or Renew returns it.
ApplyFails(routes) ==
    /\ iface' = [addr |-> lease, routes |-> routes]
    /\ at' = IF boot THEN "failed" ELSE "stopped"
    /\ boot' = FALSE
    /\ why' = "apply"

Apply ==
    /\ at = "apply"
    /\ LET s == ServerOf[lease]
       IN  \/ s \notin Routers /\ Configured(KeptRoutes)
           \/ s \in Routers \ KeptRoutes /\ Configured(KeptRoutes \cup {s})
           \/ s \in Routers \cap KeptRoutes /\ ApplyFails(KeptRoutes)
    /\ UNCHANGED <<attempt, xid, asked, lease, quiet, ctxDone, sent, replies, owner, age>>

-----------------------------------------------------------------------------
(* Renew.                                                                  *)

\* The pause until T1 ends no earlier than the lease gets there.
Wake ==
    /\ at = "sleep"
    /\ \/ age[lease] \in 1 .. Lapsed /\ at' = "startRenew" /\ UNCHANGED why
       \/ ctxDone /\ at' = "stopped" /\ why' = "ctx"
    /\ UNCHANGED <<boot, attempt, xid, asked, lease, iface, quiet, ctxDone, sent,
                   replies, owner, age>>

\* The two extensions of a lease: unicast to its server, then broadcast.
Extend(start, kind) ==
    /\ at = start
    /\ xid < MaxXids
    /\ xid' = xid + 1
    /\ asked' = lease
    /\ Send(kind, xid', lease)
    /\ at' = kind
    /\ quiet' = TRUE
    /\ UNCHANGED <<boot, attempt, lease, iface, ctxDone, why, replies, owner, age>>

RenewOnce == Extend("startRenew", "renew")
Rebind == Extend("startRebind", "rebind")

\* A renewal that fails is rebound at once, a rebind that fails starts over.
ExtendFails ==
    /\ at' = IF at = "renew" THEN "startRebind" ELSE "discover"
    /\ attempt' = 0
    /\ UNCHANGED <<boot, xid, asked, lease, iface, quiet, ctxDone, why, sent, replies,
                   owner, age>>

TakeExtension(m) ==
    /\ at \in {"renew", "rebind"}
    /\ Mine(m)
    /\ \/ /\ m.kind = "ack"
          /\ lease' = m.addr
          /\ at' = "apply"
          /\ UNCHANGED <<boot, attempt, xid, asked, iface, quiet, ctxDone, why, sent,
                         replies, owner, age>>
       \/ m.kind # "ack" /\ ExtendFails

ExtendTimeout ==
    /\ at \in {"renew", "rebind"}
    /\ quiet
    /\ ExtendFails

\* Recv fails otherwise than by its timeout: a signal interrupts it, the socket
\* reports an error.
RecvError ==
    \/ at \in {"offer", "ack"} /\ AttemptFails /\ UNCHANGED <<sent, quiet>>
    \/ at \in {"renew", "rebind"} /\ ExtendFails

\* boot calls stopChild.
Cancel ==
    /\ ~boot
    /\ ~ctxDone
    /\ ctxDone' = TRUE
    /\ UNCHANGED <<at, boot, attempt, xid, asked, lease, iface, quiet, why, sent,
                   replies, owner, age>>

-----------------------------------------------------------------------------
Network ==
    \/ \E m \in sent : Grant(m) \/ Refuse(m) \/ \E a \in Addrs : Offer(m, a)
    \/ Tick
    \/ \E a \in Addrs : Reassign(a) \/ Take(a)

\* Each Recv returns what it was waiting for, or times out.
Recv ==
    \/ \E m \in replies : TakeOffer(m) \/ TakeAck(m) \/ TakeExtension(m)
    \/ AcquireTimeout \/ ExtendTimeout

Client ==
    \/ Discover \/ DiscoverCancelled \/ Backoff \/ Apply \/ Wake
    \/ RenewOnce \/ Rebind

Next == Network \/ Recv \/ RecvError \/ Client \/ ForeignPacket \/ Elapse \/ Cancel

(***************************************************************************)
(* Fairness: the client's goroutine runs and its timers fire. Nothing is   *)
(* assumed of the network or the servers.                                  *)
(***************************************************************************)
Fairness == WF_vars(Client) /\ WF_vars(Recv) /\ WF_vars(Elapse)

Spec == Init /\ [][Next]_vars /\ Fairness

-----------------------------------------------------------------------------
(* Properties.                                                             *)

\* However late, doubled or out of order the answers of several servers come,
\* the address the node configures is the one it last requested itself.
UsesWhatItAsked == [][iface' # iface => iface'.addr = asked]_vars

\* The node never uses an address no server has granted it: the one it has is
\* ours by its server's books, or its lease has run out since. (And every state
\* is well typed.)
AddressGranted ==
    /\ TypeOK
    /\ iface.addr # None => owner[iface.addr] = "us" \/ age[iface.addr] = Lapsed

\* DHCP never holds the boot up for good: with an address or without one,
\* configureDHCP returns, unless packets for other clients never stop arriving,
\* each of which starts await's timeout anew.
BootGoesOn == (boot ~> ~boot) \/ []<><<ForeignPacket>>_vars

-----------------------------------------------------------------------------
(* What a document says and the code does not do.                          *)

\* init_linux.go: "Renew returns only when the context ends or the lease is
\* unrecoverable": when it ends because a lease could not be applied, no server
\* holds that lease for us.
RenewsWhileGranted == at = "stopped" /\ why = "apply" => owner[lease] # "us"
=============================================================================
