---------------------------- MODULE Lease_proofs ----------------------------
(***************************************************************************)
(* The leases of the node: how the DHCP client gets them, and how the boot *)
(* record keeps them.                                                      *)
(*                                                                         *)
(* For any number of servers, addresses and attempts, and whatever the     *)
(* network loses, doubles, delays or reorders: an interface on DHCP only   *)
(* ever gets the address it asked for last, and one that a server granted. *)
(*                                                                         *)
(* For any interfaces and any number of renewals and exits, and whatever   *)
(* the order in which the goroutines record them: the record has a step    *)
(* for every lease and counts every exit, and boot.json only ever shows a  *)
(* record that the node had.                                               *)
(***************************************************************************)
EXTENDS DhcpClient, BootRecord, FiniteSetTheorems, SequenceTheorems, TLAPS

-----------------------------------------------------------------------------
(* The DHCP client.                                                        *)


\* A server has granted the address, and has it down as ours unless the lease
\* has run out since.
Granted(a) == owner[a] = "us" \/ age[a] = Lapsed

\* The client is in an attempt that Acquire has left.
AttemptLeft == at \in {"discover", "backoff", "offer", "ack"} => attempt < MaxAttempts

\* A client that has come to apply or to renew has a lease.
HasLease ==
    at \in {"apply", "sleep", "startRenew", "renew", "startRebind", "rebind"} =>
        lease # None

\* What the client has sent: no exchange but the one it is in or an earlier
\* one, and in the one it is in no request but the one for the address asked.
Requests ==
    \A m \in sent :
        /\ m.xid <= xid
        /\ m.kind # "discover" => m.addr # None
        /\ m.kind # "discover" /\ m.xid = xid => at # "offer" /\ m.addr = asked

\* An ACK answers a request for its address in its exchange, and a server has
\* granted that address.
Acks ==
    \A r \in replies :
        r.kind = "ack" =>
            /\ Granted(r.addr)
            /\ \E m \in sent : m.kind # "discover" /\ m.xid = r.xid /\ m.addr = r.addr

\* The lease about to be applied is the one asked for.
AppliesAsked == at = "apply" => lease = asked

\* The lease the client holds and the address the interface has were granted.
HeldGranted ==
    /\ lease # None => Granted(lease)
    /\ iface.addr # None => Granted(iface.addr)

IInv ==
    /\ TypeOK
    /\ AttemptLeft
    /\ HasLease
    /\ Requests
    /\ Acks
    /\ AppliesAsked
    /\ HeldGranted

-----------------------------------------------------------------------------
\* An address that was granted stays ours by its server's books until the lease
\* has run out: no server, no other client and no time does more to it.
LEMMA GrantedStays ==
  ASSUME TypeOK, Network, NEW a \in Addrs, Granted(a)
  PROVE  Granted(a)'
<1> USE DEF TypeOK, Granted, Lapsed
<1>1. CASE \E m \in sent : Grant(m)
  BY <1>1 DEF Grant
<1>2. CASE \E m \in sent : Refuse(m)
  BY <1>2 DEF Refuse
<1>3. CASE \E m \in sent, b \in Addrs : Offer(m, b)
  BY <1>3 DEF Offer
<1>4. CASE Tick
  BY <1>4 DEF Tick
<1>5. CASE \E b \in Addrs : Reassign(b)
  BY <1>5 DEF Reassign
<1>6. CASE \E b \in Addrs : Take(b)
  BY <1>6 DEF Take
<1>7. QED
  BY <1>1, <1>2, <1>3, <1>4, <1>5, <1>6 DEF Network

\* The invariant holds before the first packet.
LEMMA InvInit == ASSUME Init PROVE IInv
<1> USE DhcpAssumptions DEF DhcpAssumptions, Init
<1>1. TypeOK
  <2>1. boot \in BOOLEAN /\ quiet \in BOOLEAN /\ ctxDone \in BOOLEAN
    OBVIOUS
  <2>2. QED
    BY <2>1 DEF TypeOK, Xids, Lapsed
<1>2. QED
  BY <1>1 DEF IInv, AttemptLeft, HasLease, Requests, Acks, AppliesAsked, HeldGranted

\* What a server answers, to whichever packet of whichever exchange it was, and
\* what becomes of its leases.
LEMMA NetworkStep == ASSUME IInv, Network PROVE IInv'
<1> USE DhcpAssumptions DEF DhcpAssumptions, IInv
<1>1. UNCHANGED <<clientVars, sent>>
  BY DEF Network, Grant, Refuse, Offer, Tick, Reassign, Take
<1>2. TypeOK'
  <2> USE <1>1 DEF TypeOK, clientVars, Requests, ClientKinds, Answer
  <2>1. CASE \E m \in sent : Grant(m)
    BY <2>1 DEF Grant, Lapsed
  <2>2. CASE \E m \in sent : Refuse(m)
    BY <2>2 DEF Refuse
  <2>3. CASE \E m \in sent, b \in Addrs : Offer(m, b)
    BY <2>3 DEF Offer
  <2>4. CASE Tick
    BY <2>4 DEF Tick, Lapsed
  <2>5. CASE \E b \in Addrs : Reassign(b)
    BY <2>5 DEF Reassign
  <2>6. CASE \E b \in Addrs : Take(b)
    BY <2>6 DEF Take
  <2>7. QED
    BY <2>1, <2>2, <2>3, <2>4, <2>5, <2>6 DEF Network
<1>3. \A a \in Addrs : Granted(a) => Granted(a)'
  BY GrantedStays
<1>4. Acks'
  <2> SUFFICES ASSUME NEW r \in replies', r.kind = "ack"
               PROVE  /\ Granted(r.addr)'
                      /\ \E m \in sent : m.kind # "discover" /\ m.xid = r.xid /\ m.addr = r.addr
    BY <1>1 DEF Acks, clientVars, Granted
  <2>1. CASE r \in replies
    BY <2>1, <1>3 DEF Acks, TypeOK
  <2>2. CASE r \notin replies
    <3>1. PICK m \in sent : Grant(m) /\ r = [kind |-> "ack", xid |-> m.xid, addr |-> m.addr]
      BY <2>2 DEF Network, Grant, Refuse, Offer, Tick, Reassign, Take, Answer
    <3>2. m.kind # "discover" /\ m.addr \in Addrs
      BY <3>1 DEF Grant, Requests, TypeOK
    <3>3. Granted(m.addr)'
      BY <3>1, <3>2 DEF Grant, TypeOK, Granted
    <3>4. QED
      BY <3>1, <3>2, <3>3
  <2>3. QED
    BY <2>1, <2>2
<1>5. HeldGranted'
  BY <1>1, <1>3 DEF HeldGranted, clientVars, TypeOK
<1>6. AttemptLeft' /\ HasLease' /\ Requests' /\ AppliesAsked'
  BY <1>1 DEF clientVars, AttemptLeft, HasLease, Requests, AppliesAsked
<1>7. QED
  BY <1>2, <1>4, <1>5, <1>6

\* The packets the client may send.
Packets == [kind : ClientKinds, xid : Xids, addr : Addrs \cup {None}]

\* The client sends one packet at a time, in the exchange it is in from then on.
LEMMA ClientSends ==
  ASSUME TypeOK, HasLease, Recv \/ RecvError \/ Client
  PROVE  sent' \subseteq Packets
<1>1. \/ sent' = sent
      \/ \E kind \in ClientKinds, a \in Addrs \cup {None} :
            /\ xid' \in Xids
            /\ sent' = sent \cup {[kind |-> kind, xid |-> xid', addr |-> a]}
  <2> USE DhcpAssumptions DEF DhcpAssumptions, TypeOK, ClientKinds, Xids, Send
  <2>1. CASE Discover
    BY <2>1 DEF Discover
  <2>2. CASE RenewOnce \/ Rebind
    BY <2>2 DEF RenewOnce, Rebind, Extend
  <2>3. CASE \E m \in replies : TakeOffer(m)
    BY <2>3 DEF TakeOffer, AttemptFails
  <2>4. QED
    BY <2>1, <2>2, <2>3
    DEF Recv, RecvError, Client, TakeAck, TakeExtension, AcquireTimeout, ExtendTimeout,
        AttemptFails, ExtendFails, DiscoverCancelled, Backoff, Apply, Wake
<1>2. QED
  BY <1>1 DEF TypeOK, Packets

\* A failed attempt leaves the client with the next one or with none.
LEMMA AttemptFailsTypes ==
  ASSUME TypeOK, AttemptLeft, at \in {"offer", "ack"}, AttemptFails
  PROVE  /\ at' \in {"backoff", "failed", "stopped"}
         /\ at' = "backoff" => attempt' < MaxAttempts
         /\ attempt' \in 0 .. MaxAttempts
         /\ boot' \in BOOLEAN
         /\ why' \in {None, "ctx", "apply", "lost"}
         /\ UNCHANGED <<xid, asked, lease, iface, ctxDone, owner, age, replies>>
<1> USE DhcpAssumptions DEF DhcpAssumptions, TypeOK, AttemptLeft, AttemptFails, AcquireFails
<1>1. boot' \in BOOLEAN
  OBVIOUS
<1>2. QED
  BY <1>1

\* What the client does on its own and on a packet keeps the types.
LEMMA ClientTypes ==
  ASSUME TypeOK, AttemptLeft, HasLease, Recv \/ RecvError \/ Client
  PROVE  TypeOK'
<1>0. sent' \subseteq Packets
  BY ClientSends
<1> USE <1>0, DhcpAssumptions DEF DhcpAssumptions, TypeOK, HasLease, Packets
<1>1. CASE \E m \in replies : TakeOffer(m)
  BY <1>1, AttemptFailsTypes DEF TakeOffer, Awaiting
<1>2. CASE \E m \in replies : TakeAck(m)
  BY <1>2, AttemptFailsTypes DEF TakeAck
<1>3. CASE \E m \in replies : TakeExtension(m)
  BY <1>3 DEF TakeExtension, ExtendFails
<1>4. CASE AcquireTimeout
  BY <1>4, AttemptFailsTypes DEF AcquireTimeout
<1>5. CASE ExtendTimeout
  BY <1>5 DEF ExtendTimeout, ExtendFails
<1>6. CASE RecvError
  BY <1>6, AttemptFailsTypes DEF RecvError, ExtendFails
<1>7. CASE Discover
  BY <1>7 DEF Discover, Awaiting, Xids
<1>8. CASE DiscoverCancelled
  BY <1>8 DEF DiscoverCancelled, AcquireFails
<1>9. CASE Backoff
  BY <1>9 DEF Backoff, AcquireFails
<1>10. CASE Apply
  <2>1. ServerOf[lease] \in Servers /\ KeptRoutes \in SUBSET Servers
    BY <1>10 DEF Apply, KeptRoutes
  <2>2. \E routes \in SUBSET Servers : Configured(routes) \/ ApplyFails(routes)
    BY <1>10, <2>1 DEF Apply
  <2>3. boot' \in BOOLEAN /\ quiet' \in BOOLEAN /\ ctxDone' \in BOOLEAN
    BY <1>10, <2>2 DEF Apply, Configured, ApplyFails
  <2>4. QED
    BY <1>10, <2>2, <2>3 DEF Apply, Configured, ApplyFails
<1>11. CASE Wake
  BY <1>11 DEF Wake
<1>12. CASE RenewOnce
  BY <1>12 DEF RenewOnce, Extend, Awaiting, Xids
<1>13. CASE Rebind
  BY <1>13 DEF Rebind, Extend, Awaiting, Xids
<1>14. QED
  BY <1>1, <1>2, <1>3, <1>4, <1>5, <1>6, <1>7, <1>8, <1>9, <1>10, <1>11, <1>12, <1>13
  DEF Recv, Client

\* An answer the client takes is to the one request it made in this exchange, so
\* an ACK is for the address asked.
LEMMA AckIsAsked ==
  ASSUME Requests, Acks, NEW m \in replies, Mine(m), m.kind = "ack"
  PROVE  m.addr = asked /\ at # "offer" /\ Granted(m.addr)
BY DEF Requests, Acks, Mine

\* What the client does on its own and on a packet keeps the invariant: an
\* exchange has one request, and only an ACK to it is applied.
LEMMA ClientStep == ASSUME IInv, Recv \/ RecvError \/ Client PROVE IInv'
<1> USE DhcpAssumptions DEF DhcpAssumptions, IInv
<1>1. TypeOK'
  BY ClientTypes
<1>2. Requests'
  <2> USE DEF TypeOK, Requests
  <2>1. CASE Discover
    BY <2>1 DEF Discover, Send, Xids
  <2>2. CASE RenewOnce \/ Rebind
    BY <2>2 DEF RenewOnce, Rebind, Extend, Send, HasLease, Xids
  <2>3. CASE \E m \in replies : TakeOffer(m) /\ m.kind = "offer"
    BY <2>3 DEF TakeOffer, Send, Xids
  <2>4. CASE /\ UNCHANGED <<sent, xid, asked>>
             /\ at' # "offer"
    BY <2>4
  <2>5. QED
    BY <2>1, <2>2, <2>3, <2>4
    DEF Recv, RecvError, Client, TakeOffer, TakeAck, TakeExtension, AcquireTimeout,
        ExtendTimeout, AttemptFails, AcquireFails, ExtendFails, DiscoverCancelled, Backoff,
        Apply, Configured, ApplyFails, Wake
<1>3. UNCHANGED <<replies, owner, age>> /\ sent \subseteq sent'
  BY DEF Recv, RecvError, Client, TakeOffer, TakeAck, TakeExtension, AcquireTimeout,
         ExtendTimeout, AttemptFails, ExtendFails, Discover, DiscoverCancelled, Backoff,
         Apply, Wake, RenewOnce, Rebind, Extend, Send
<1>4. Acks'
  BY <1>3 DEF Acks, Granted
<1>5. (AttemptLeft /\ HasLease /\ AppliesAsked /\ HeldGranted)'
  <2> USE <1>3 DEF TypeOK, AttemptLeft, HasLease, AppliesAsked, HeldGranted, Granted,
                   AttemptFails, AcquireFails, ExtendFails
  <2>1. CASE \E m \in replies : TakeOffer(m)
    BY <2>1 DEF TakeOffer
  <2>2. CASE \E m \in replies : TakeAck(m)
    BY <2>2, AckIsAsked DEF TakeAck
  <2>3. CASE \E m \in replies : TakeExtension(m)
    BY <2>3, AckIsAsked DEF TakeExtension
  <2>4. CASE AcquireTimeout \/ ExtendTimeout
    BY <2>4 DEF AcquireTimeout, ExtendTimeout
  <2>5. CASE RecvError
    BY <2>5 DEF RecvError
  <2>6. CASE Discover \/ DiscoverCancelled \/ Backoff
    BY <2>6 DEF Discover, DiscoverCancelled, Backoff
  <2>7. CASE Apply
    BY <2>7 DEF Apply, Configured, ApplyFails
  <2>8. CASE Wake
    BY <2>8 DEF Wake
  <2>9. CASE RenewOnce \/ Rebind
    BY <2>9 DEF RenewOnce, Rebind, Extend
  <2>10. QED
    BY <2>1, <2>2, <2>3, <2>4, <2>5, <2>6, <2>7, <2>8, <2>9 DEF Recv, Client
<1>6. QED
  BY <1>1, <1>2, <1>4, <1>5

\* Every step keeps the invariant.
LEMMA InvStep == ASSUME IInv, [Next]_vars PROVE IInv'
<1>1. CASE Network
  BY <1>1, NetworkStep
<1>2. CASE Recv \/ RecvError \/ Client
  BY <1>2, ClientStep
<1>3. CASE ForeignPacket \/ Elapse \/ Cancel \/ UNCHANGED vars
  <2> USE <1>3 DEF ForeignPacket, Elapse, Cancel, vars
  <2>1. quiet' \in BOOLEAN /\ ctxDone' \in BOOLEAN
    BY DEF IInv, TypeOK
  <2>2. UNCHANGED <<at, boot, attempt, xid, asked, lease, iface, why, sent, replies, owner, age>>
    OBVIOUS
  <2>3. TypeOK'
    BY <2>1, <2>2 DEF IInv, TypeOK
  <2>4. QED
    BY <2>2, <2>3 DEF IInv, AttemptLeft, HasLease, Requests, Acks, AppliesAsked, HeldGranted,
                      Granted
<1>4. QED
  BY <1>1, <1>2, <1>3 DEF Next

\* The invariant holds for ever.
THEOREM Invariant == Spec => []IInv
<1>1. Init => IInv
  BY InvInit
<1>2. IInv /\ [Next]_vars => IInv'
  BY InvStep
<1>3. QED
  BY <1>1, <1>2, PTL DEF Spec

\* knet.Configure is never given an address that no server has granted, and the
\* interface keeps one that was granted until its lease has run out, whichever
\* servers answer and however late: AddressGranted.
THEOREM AlwaysGranted == Spec => []AddressGranted
<1>1. IInv => AddressGranted
  BY DEF IInv, HeldGranted, Granted, AddressGranted
<1>2. QED
  BY <1>1, Invariant, PTL

\* Only apply changes the interface, and the lease it applies is for the address
\* the client last put into a request: UsesWhatItAsked.
THEOREM AlwaysUsesWhatItAsked == Spec => UsesWhatItAsked
<1>1. ASSUME IInv, [Next]_vars, iface' # iface PROVE iface'.addr = asked
  <2>1. Apply
    BY <1>1 DEF Next, Network, Recv, RecvError, Client, ForeignPacket, Elapse, Cancel, vars,
            clientVars, Grant, Refuse, Offer, Tick, Reassign, Take, TakeOffer, TakeAck,
            TakeExtension, AcquireTimeout, ExtendTimeout, AttemptFails, ExtendFails, Discover,
            DiscoverCancelled, Backoff, Wake, RenewOnce, Rebind, Extend
  <2>2. iface'.addr = lease
    BY <2>1 DEF Apply, Configured, ApplyFails
  <2>3. QED
    BY <1>1, <2>1, <2>2 DEF IInv, AppliesAsked, Apply
<1>2. IInv /\ [Next]_vars => [iface' # iface => iface'.addr = asked]_vars
  BY <1>1
<1>3. QED
  BY <1>2, Invariant, PTL DEF Spec, UsesWhatItAsked

-----------------------------------------------------------------------------
(* Counting in sequences.                                                  *)

\* How often x occurs in s.
Occurs(s, x) == {i \in DOMAIN s : s[i] = x}

\* The occurrences are finitely many.
LEMMA OccursFinite ==
    ASSUME NEW S, NEW s \in Seq(S), NEW x
    PROVE  IsFiniteSet(Occurs(s, x)) /\ Cardinality(Occurs(s, x)) \in Nat
<1>1. IsFiniteSet(1 .. Len(s))
  BY FS_Interval
<1>2. Occurs(s, x) \in SUBSET (1 .. Len(s))
  BY DEF Occurs
<1>3. IsFiniteSet(Occurs(s, x))
  BY <1>1, <1>2, FS_Subset
<1> QED
  BY <1>3, FS_CardinalityType

\* An element appended is one occurrence more of it, and of nothing else.
LEMMA OccursAppend ==
    ASSUME NEW S, NEW s \in Seq(S), NEW e \in S, NEW x
    PROVE  Cardinality(Occurs(Append(s, e), x)) =
              Cardinality(Occurs(s, x)) + (IF e = x THEN 1 ELSE 0)
<1> DEFINE new == Len(s) + 1
<1>1. IsFiniteSet(Occurs(s, x)) /\ Cardinality(Occurs(s, x)) \in Nat
  BY OccursFinite
<1>2. new \notin Occurs(s, x)
  BY DEF Occurs
<1>3. CASE e = x
  <2>1. Occurs(Append(s, e), x) = Occurs(s, x) \cup {new}
    BY <1>3 DEF Occurs
  <2> QED
    BY <1>1, <1>2, <1>3, <2>1, FS_AddElement
<1>4. CASE e # x
  <2>1. Occurs(Append(s, e), x) = Occurs(s, x)
    BY <1>4 DEF Occurs
  <2> QED
    BY <1>1, <1>4, <2>1
<1> QED
  BY <1>3, <1>4

\* A sequence without its head has one occurrence less of it.
LEMMA OccursTail ==
    ASSUME NEW S, NEW s \in Seq(S), s # << >>, NEW x
    PROVE  Cardinality(Occurs(Tail(s), x)) =
              Cardinality(Occurs(s, x)) - (IF Head(s) = x THEN 1 ELSE 0)
<1> DEFINE T == Occurs(Tail(s), x)
<1> DEFINE U == Occurs(s, x) \ {1}
<1> DEFINE f == [i \in T |-> i + 1]
<1>1. /\ Len(s) \in Nat \ {0} /\ DOMAIN s = 1 .. Len(s) /\ Head(s) = s[1]
      /\ DOMAIN Tail(s) = 1 .. Len(s) - 1
      /\ \A i \in 1 .. Len(s) - 1 : Tail(s)[i] = s[i + 1]
  BY EmptySeq
<1>2. IsFiniteSet(Occurs(s, x)) /\ Cardinality(Occurs(s, x)) \in Nat
  BY OccursFinite
<1>3. f \in [T -> U]
  <2>1. ASSUME NEW i \in T  PROVE i + 1 \in U
    BY <1>1 DEF Occurs
  <2> QED
    BY <2>1
<1>4. \A i, j \in T : f[i] = f[j] => i = j
  BY <1>1 DEF Occurs
<1>5. \A u \in U : \E i \in T : f[i] = u
  <2>1. ASSUME NEW u \in U  PROVE u - 1 \in T /\ (u - 1) + 1 = u
    BY <1>1 DEF Occurs
  <2>2. ASSUME NEW u \in U  PROVE \E i \in T : f[i] = u
    <3>1. u - 1 \in T /\ f[u - 1] = u
      BY <2>1
    <3> HIDE DEF f, T, U
    <3> QED
      BY <3>1
  <2> QED
    BY <2>2
<1> HIDE DEF f, T, U
<1>6. ExistsBijection(T, U)
  BY <1>3, <1>4, <1>5 DEF ExistsBijection, Bijection, Injection, Surjection, IsInjective
<1>7. IsFiniteSet(U) /\ Cardinality(U) = IF 1 \in Occurs(s, x) THEN Cardinality(Occurs(s, x)) - 1
                                         ELSE Cardinality(Occurs(s, x))
  BY <1>2, FS_RemoveElement DEF U
<1>8. Cardinality(T) = Cardinality(U)
  <2>1. Tail(s) \in Seq(S)
    OBVIOUS
  <2>2. IsFiniteSet(T)
    BY <2>1, OccursFinite DEF T
  <2> QED
    BY <1>6, <2>2, FS_Bijection
<1>9. 1 \in Occurs(s, x) <=> Head(s) = x
  BY <1>1 DEF Occurs
<1> QED
  BY <1>2, <1>7, <1>8, <1>9 DEF T

\* A sequence begins with itself, and still does when something is appended.
LEMMA PrefixOfItself ==
    ASSUME NEW S, NEW s \in Seq(S)  PROVE IsPrefix(s, s)
BY DEF IsPrefix

LEMMA PrefixAppend ==
    ASSUME NEW S, NEW s \in Seq(S), NEW t \in Seq(S), NEW e \in S, IsPrefix(s, t)
    PROVE  IsPrefix(s, Append(t, e))
<1>1. Len(s) <= Len(t) /\ Len(Append(t, e)) = Len(t) + 1 /\ Len(s) \in Nat /\ Len(t) \in Nat
  BY DEF IsPrefix
<1>2. \A i \in 1 .. Len(s) : Append(t, e)[i] = t[i] /\ t[i] \in S
  BY <1>1
<1>3. SubSeq(Append(t, e), 1, Len(s)) = SubSeq(t, 1, Len(s))
  <2>1. /\ SubSeq(Append(t, e), 1, Len(s)) \in Seq(S)
        /\ Len(SubSeq(Append(t, e), 1, Len(s))) = Len(s)
        /\ \A i \in 1 .. Len(s) : SubSeq(Append(t, e), 1, Len(s))[i] = Append(t, e)[i]
    BY <1>1, <1>2, SubSeqProperties
  <2>2. /\ SubSeq(t, 1, Len(s)) \in Seq(S)
        /\ Len(SubSeq(t, 1, Len(s))) = Len(s)
        /\ \A i \in 1 .. Len(s) : SubSeq(t, 1, Len(s))[i] = t[i]
    BY <1>1, <1>2, SubSeqProperties
  <2> QED
    BY <1>2, <2>1, <2>2, SeqEqual
<1> QED
  BY <1>1, <1>3 DEF IsPrefix

-----------------------------------------------------------------------------
(* The inductive invariant.                                                *)

Records == [switched : BOOLEAN, named : BOOLEAN, steps : Seq(StepNames),
            running : BOOLEAN, restarts : 0 .. MaxExits]

Places == {"idle", "want", "crit", "have", "flush", "snap", "sink", "write"}

\* The stages a boot can have; NetStep is one that records a lease.
Stages == {Step(name) : name \in StepNames} \cup {Go(t) : t \in Threads}
             \cup {SetHostname, SetChild, RecordTo, Exec,
                   SetSwitchedRoot("yes"), SetSwitchedRoot("no")}

NetStep == Step("network")

Types ==
    /\ RecordTypeOK
    /\ stages \in Seq(Stages)
    /\ rec \in Records
    /\ thread \in [Threads -> [at : Places, snap : Records]]
    /\ file \in [is : {"absent", "empty", "whole", "torn"}, holds : Records]

\* A stage that starts a goroutine, or records a lease, comes after the pivot;
\* the workload comes after the leases.
Ordered(s) ==
    /\ \A i, j \in DOMAIN s : i < j /\ s[j] = Exec => s[i].op # "go" /\ s[i] # NetStep
    /\ \A i, j \in DOMAIN s : i < j /\ s[i] = Go("sup") => s[j] # NetStep

Order ==
    /\ Ordered(stages)
    /\ Exec \in Range(stages) => started = {"boot"} /\ "network" \notin Range(rec.steps)
    /\ "sup" \in started => NetStep \notin Range(stages)

\* A goroutine that is not started has recorded nothing, and none records more
\* than it may.
Recording ==
    /\ \A t \in Threads \ ({"boot"} \cup started) : thread[t].at = "idle"
    /\ "sup" \notin started => ~alive /\ exits = 0
    /\ alive => exits < MaxExits /\ thread["sup"].at = "idle"
    /\ Telling("sup") => exits > 0

\* One goroutine at a time is between taking the mutex and giving it back, so
\* what a goroutine has read of the record is still so when it writes it.
Holding == {"crit", "have", "snap"}

Excluded ==
    /\ \A t \in Threads : thread[t].at \in Holding => mu = t
    /\ \A t \in Threads : thread[t].at = "have" => thread[t].snap = rec

\* What a goroutine is about to write is the record's past, as what it has
\* written is.
Past(old) == IsPrefix(old.steps, rec.steps) /\ old.restarts <= rec.restarts

CopiesArePast == \A t \in Threads : thread[t].at \in {"sink", "write"} => Past(thread[t].snap)

\* A lease is in the record, or boot has still to record it, or the interface's
\* goroutine is recording it.
LeasesKept ==
    Cardinality(Occurs(rec.steps, "network")) + Cardinality(Occurs(stages, NetStep))
       + Cardinality(Unrecorded) = Cardinality(Leases)

ExitsKept == rec.restarts = exits - (IF Telling("sup") THEN 1 ELSE 0)

RecordInv ==
    /\ Types
    /\ Order
    /\ Recording
    /\ Excluded
    /\ CopiesArePast
    /\ FileIsPast
    /\ LeasesKept
    /\ ExitsKept

-----------------------------------------------------------------------------
(* The stages.                                                             *)

\* What the next stage can be.
LEMMA NextStageIs ==
    ASSUME stages \in Seq(Stages), stages # << >>
    PROVE  /\ Head(stages) \in Stages /\ Tail(stages) \in Seq(Stages)
           /\ Head(stages).op = "step" => Head(stages).arg \in StepNames
           /\ Head(stages).op = "go" => /\ Head(stages).arg \in Threads
                                        /\ Head(stages) = Go(Head(stages).arg)
           /\ Head(stages).op = "exec" => Head(stages) = Exec
           /\ Head(stages).op = "step" => (Head(stages) = NetStep <=> Head(stages).arg = "network")
           /\ Head(stages).op # "step" => Head(stages) # NetStep
<1>1. Head(stages) \in Stages /\ Tail(stages) \in Seq(Stages)
  BY HeadTailProperties
<1> DEFINE h == Head(stages)
<1> HIDE DEF h
<1>2. /\ h.op = "step" => h.arg \in StepNames /\ h = Step(h.arg)
      /\ h.op = "go" => h.arg \in Threads /\ h = Go(h.arg)
      /\ h.op = "exec" => h = Exec
  <2>1. h \in Stages
    BY <1>1 DEF h
  <2>2. CASE \E name \in StepNames : h = Step(name)
    BY <2>2 DEF Step
  <2>3. CASE \E t \in Threads : h = Go(t)
    BY <2>3 DEF Go
  <2>4. CASE h \in {SetHostname, SetChild, RecordTo, Exec,
                    SetSwitchedRoot("yes"), SetSwitchedRoot("no")}
    BY <2>4 DEF SetHostname, SetChild, RecordTo, Exec, SetSwitchedRoot
  <2> QED
    BY <2>1, <2>2, <2>3, <2>4 DEF Stages
<1>3. /\ h.op = "step" => (h = NetStep <=> h.arg = "network")
      /\ h.op # "step" => h # NetStep
  BY <1>2 DEF NetStep, Step
<1> QED
  BY <1>1, <1>2, <1>3 DEF h

\* The stages that are left stay in order, and know what is behind them.
LEMMA StagesLeft ==
    ASSUME stages \in Seq(Stages), stages # << >>, Ordered(stages)
    PROVE  /\ Ordered(Tail(stages))
           /\ Range(Tail(stages)) \subseteq Range(stages)
           /\ Head(stages) \in Range(stages)
           /\ Exec \in Range(Tail(stages)) => Head(stages).op # "go" /\ Head(stages) # NetStep
           /\ Head(stages) = Go("sup") => NetStep \notin Range(Tail(stages))
<1> DEFINE s == stages
<1>1. /\ Len(s) \in Nat \ {0} /\ DOMAIN s = 1 .. Len(s) /\ Head(s) = s[1]
      /\ DOMAIN Tail(s) = 1 .. Len(s) - 1
      /\ \A i \in 1 .. Len(s) - 1 : Tail(s)[i] = s[i + 1]
  BY EmptySeq
<1>2. \A i \in DOMAIN Tail(s) : i + 1 \in DOMAIN s /\ 1 \in DOMAIN s /\ 1 < i + 1
  BY <1>1
<1>3. /\ \A i, j \in DOMAIN s : i < j /\ s[j] = Exec => s[i].op # "go" /\ s[i] # NetStep
      /\ \A i, j \in DOMAIN s : i < j /\ s[i] = Go("sup") => s[j] # NetStep
  BY DEF Ordered
<1> HIDE DEF s
<1>4. \A i, j \in DOMAIN Tail(s) : i < j => i + 1 < j + 1
  BY <1>1
<1>5. Ordered(Tail(s))
  <2>1. ASSUME NEW i \in DOMAIN Tail(s), NEW j \in DOMAIN Tail(s), i < j
        PROVE  /\ Tail(s)[j] = Exec => Tail(s)[i].op # "go" /\ Tail(s)[i] # NetStep
               /\ Tail(s)[i] = Go("sup") => Tail(s)[j] # NetStep
    <3>1. /\ i + 1 \in DOMAIN s /\ j + 1 \in DOMAIN s /\ i + 1 < j + 1
          /\ Tail(s)[i] = s[i + 1] /\ Tail(s)[j] = s[j + 1]
      BY <1>1, <1>2, <1>4, <2>1
    <3> QED
      BY <1>3, <3>1
  <2> QED
    BY <2>1 DEF Ordered
<1>6. /\ Range(Tail(s)) \subseteq Range(s)
      /\ Head(s) \in Range(s)
      /\ Exec \in Range(Tail(s)) => Head(s).op # "go" /\ Head(s) # NetStep
      /\ Head(s) = Go("sup") => NetStep \notin Range(Tail(s))
  BY <1>1, <1>2, <1>3 DEF Range
<1> QED
  BY <1>5, <1>6 DEF s

\* A part of a boot that starts no goroutine and records no lease.
Plain(s) == s \in Seq(Stages) /\ \A i \in DOMAIN s : s[i].op # "go" /\ s[i] # NetStep

LEMMA PlainConcat ==
    ASSUME NEW s, NEW t, Plain(s), Plain(t)
    PROVE  Plain(s \o t)
<1>1. s \in Seq(Stages) /\ t \in Seq(Stages)
  BY DEF Plain
<1>2. /\ s \o t \in Seq(Stages) /\ DOMAIN (s \o t) = 1 .. Len(s) + Len(t)
      /\ \A i \in 1 .. Len(s) + Len(t) : (s \o t)[i] =
            IF i <= Len(s) THEN s[i] ELSE t[i - Len(s)]
  BY <1>1, ConcatProperties
<1>3. ASSUME NEW i \in DOMAIN (s \o t)
      PROVE  (s \o t)[i].op # "go" /\ (s \o t)[i] # NetStep
  <2>1. Len(s) \in Nat /\ Len(t) \in Nat /\ i \in 1 .. Len(s) + Len(t)
    BY <1>1, <1>2
  <2>2. CASE i <= Len(s)
    <3>1. i \in DOMAIN s /\ (s \o t)[i] = s[i]
      BY <1>1, <1>2, <2>1, <2>2
    <3> QED
      BY <3>1 DEF Plain
  <2>3. CASE i > Len(s)
    <3>1. i - Len(s) \in DOMAIN t /\ (s \o t)[i] = t[i - Len(s)]
      BY <1>1, <1>2, <2>1, <2>3
    <3> QED
      BY <3>1 DEF Plain
  <2> QED
    BY <2>1, <2>2, <2>3
<1> QED
  BY <1>2, <1>3 DEF Plain

LEMMA PlainParts ==
    /\ Plain(BeforePivot("no")) /\ Plain(BeforePivot("yes"))
    /\ Plain(<< Step("root"), Exec >>)
    /\ Plain(<< Step("cgroup2"), Step("metadata"), Step("loopback") >>)
    /\ Plain(<< SetHostname, SetChild >>)
<1> DEFINE P == {x \in Stages : x.op # "go" /\ x # NetStep}
<1>1. \A x \in {"mounts", "modules", "root", "cgroup2", "metadata", "loopback"} : Step(x) \in P
  BY DEF Stages, StepNames, Step, NetStep
<1>2. /\ SetHostname \in P /\ SetChild \in P /\ RecordTo \in P /\ Exec \in P
      /\ SetSwitchedRoot("yes") \in P /\ SetSwitchedRoot("no") \in P
  <2>1. /\ SetHostname \in Stages /\ SetChild \in Stages /\ RecordTo \in Stages
        /\ Exec \in Stages /\ SetSwitchedRoot("yes") \in Stages
        /\ SetSwitchedRoot("no") \in Stages
    BY DEF Stages
  <2>2. /\ SetHostname.op = "hostname" /\ SetChild.op = "child" /\ RecordTo.op = "recordTo"
        /\ Exec.op = "exec" /\ SetSwitchedRoot("yes").op = "switched"
        /\ SetSwitchedRoot("no").op = "switched" /\ NetStep.op = "step"
    BY DEF SetHostname, SetChild, RecordTo, Exec, SetSwitchedRoot, NetStep, Step
  <2> QED
    BY <2>1, <2>2
<1>3. \A s \in Seq(P) : Plain(s)
  <2> SUFFICES ASSUME NEW s \in Seq(P)  PROVE Plain(s)
    OBVIOUS
  <2>1. s \in Seq(Stages)
    BY SeqMonotonic
  <2>2. \A i \in DOMAIN s : s[i] \in P
    OBVIOUS
  <2> QED
    BY <2>1, <2>2 DEF Plain
<1> HIDE DEF P
<1>4. \A x, y, z, u \in P : << x, y >> \in Seq(P) /\ << x, y, z >> \in Seq(P)
                            /\ << x, y, z, u >> \in Seq(P)
  OBVIOUS
<1> QED
  BY <1>1, <1>2, <1>3, <1>4 DEF BeforePivot

\* The leases of a boot: as many stages that record one as interfaces.
LEMMA WholeBootIs ==
    ASSUME NEW before, Plain(before)
    PROVE  LET s == WholeBoot(before)
           IN  /\ s \in Seq(Stages) /\ Ordered(s)
               /\ Cardinality(Occurs(s, NetStep)) = Len(Nics)
<1> DEFINE A == before \o << Step("cgroup2"), Step("metadata"), Step("loopback") >>
<1> DEFINE B == << SetHostname, SetChild, Go("sup") >>
<1> DEFINE s == (A \o NetworkStages) \o B
<1> DEFINE k == Len(A)
<1> DEFINE m == 2 * Len(Nics)
<1>1. Plain(A)
  BY PlainConcat, PlainParts
<1>2. /\ Nics \in Seq(STRING) /\ IsInjective(Nics) /\ Len(Nics) \in Nat
      /\ \A i \in 1 .. Len(Nics) : Nics[i] \in Renewers /\ Nics[i] # "sup"
  <2>1. Nics \in Seq(STRING) /\ IsInjective(Nics) /\ DOMAIN Nics = 1 .. Len(Nics)
    BY BootRecordAssumptions
  <2>2. \A i \in 1 .. Len(Nics) : Nics[i] \in Renewers
    BY <2>1 DEF Range, Renewers
  <2>3. "sup" \notin Renewers
    BY BootRecordAssumptions DEF Renewers
  <2> QED
    BY <2>1, <2>2, <2>3
<1>3. \A i \in 1 .. m : i % 2 # 1 => i \div 2 \in 1 .. Len(Nics)
  BY <1>2
<1>4. /\ \A t \in Threads : Go(t) \in Stages /\ Go(t).op = "go"
      /\ NetStep \in Stages /\ NetStep.op = "step"
  BY DEF Stages, StepNames, NetStep, Step, Go
<1>5. NetworkStages \in Seq(Stages) /\ DOMAIN NetworkStages = 1 .. m /\ Len(NetworkStages) = m
  <2>1. ASSUME NEW i \in 1 .. m
        PROVE  (IF i % 2 = 1 THEN Step("network") ELSE Go(Nics[i \div 2])) \in Stages
    BY <1>2, <1>3, <1>4, <2>1 DEF Threads, NetStep
  <2>2. m \in Nat
    BY <1>2
  <2>3. NetworkStages \in [1 .. m -> Stages]
    BY <2>1 DEF NetworkStages
  <2> QED
    BY <2>2, <2>3
<1>6. B \in Seq(Stages) /\ Len(B) = 3
  BY <1>4 DEF Stages, Threads
<1>7. A \in Seq(Stages) /\ k \in Nat /\ m \in Nat
  BY <1>1, <1>2 DEF Plain
<1> HIDE DEF A, B
<1>8. /\ s \in Seq(Stages) /\ Len(s) = k + m + 3
      /\ \A i \in 1 .. k : s[i] = A[i]
      /\ \A i \in 1 .. m : s[k + i] = NetworkStages[i]
      /\ \A i \in 1 .. 3 : s[k + m + i] = B[i]
  <2> DEFINE AN == A \o NetworkStages
  <2>1. /\ AN \in Seq(Stages) /\ Len(AN) = k + m
        /\ \A i \in 1 .. k + m : AN[i] = IF i <= k THEN A[i] ELSE NetworkStages[i - k]
    <3>0. A \in Seq(Stages) /\ NetworkStages \in Seq(Stages)
      BY <1>5, <1>7
    <3>1. /\ AN \in Seq(Stages) /\ Len(AN) = Len(A) + Len(NetworkStages)
          /\ \A i \in 1 .. Len(A) + Len(NetworkStages) :
                AN[i] = IF i <= Len(A) THEN A[i] ELSE NetworkStages[i - Len(A)]
      BY <3>0, ConcatProperties
    <3> QED
      BY <1>5, <3>1
  <2> HIDE DEF AN
  <2>2. /\ AN \o B \in Seq(Stages) /\ Len(AN \o B) = k + m + 3
        /\ \A i \in 1 .. k + m + 3 : (AN \o B)[i] = IF i <= k + m THEN AN[i] ELSE B[i - (k + m)]
    <3>0. AN \in Seq(Stages) /\ B \in Seq(Stages)
      BY <1>6, <2>1
    <3>1. /\ AN \o B \in Seq(Stages) /\ Len(AN \o B) = Len(AN) + Len(B)
          /\ \A i \in 1 .. Len(AN) + Len(B) :
                (AN \o B)[i] = IF i <= Len(AN) THEN AN[i] ELSE B[i - Len(AN)]
      BY <3>0, ConcatProperties
    <3> HIDE DEF k, m
    <3> QED
      BY <1>6, <1>7, <2>1, <3>1
  <2>3. s = AN \o B
    BY DEF AN
  <2> HIDE DEF s, k, m
  <2>4. ASSUME NEW i \in 1 .. k  PROVE s[i] = A[i]
    BY <1>7, <2>1, <2>2, <2>3
  <2>5. ASSUME NEW i \in 1 .. m  PROVE s[k + i] = NetworkStages[i]
    <3>1. k + i \in 1 .. k + m /\ k + i \in 1 .. k + m + 3 /\ ~(k + i <= k) /\ (k + i) - k = i
      BY <1>7
    <3> QED
      BY <2>1, <2>2, <2>3, <3>1
  <2>6. ASSUME NEW i \in 1 .. 3  PROVE s[k + m + i] = B[i]
    <3>1. k + m + i \in 1 .. k + m + 3 /\ ~(k + m + i <= k + m) /\ (k + m + i) - (k + m) = i
      BY <1>7
    <3> QED
      BY <2>2, <2>3, <3>1
  <2> QED
    BY <2>2, <2>3, <2>4, <2>5, <2>6
<1>9. DOMAIN s = 1 .. k + m + 3
  BY <1>8
<1> HIDE DEF s
<1>10. \A i \in 1 .. k : s[i].op # "go" /\ s[i] # NetStep
  BY <1>1, <1>8 DEF Plain
<1>11. \A i \in 1 .. m : s[k + i] = IF i % 2 = 1 THEN NetStep ELSE Go(Nics[i \div 2])
  BY <1>8 DEF NetworkStages, NetStep
<1>19. ASSUME NEW i \in 1 .. m
       PROVE  \/ i % 2 = 1 /\ s[k + i] = NetStep
              \/ i % 2 # 1 /\ \E t \in Renewers : t # "sup" /\ s[k + i] = Go(t)
  BY <1>2, <1>3, <1>11, <1>19
<1>12. s[k + m + 1] = SetHostname /\ s[k + m + 2] = SetChild /\ s[k + m + 3] = Go("sup")
  BY <1>8 DEF B
<1> HIDE DEF k, m
<1>13. \A i \in DOMAIN s : \/ i \in 1 .. k
                           \/ \E j \in 1 .. m : i = k + j
                           \/ i \in {k + m + 1, k + m + 2, k + m + 3}
  <2> SUFFICES ASSUME NEW i \in DOMAIN s, i \notin 1 .. k, i \notin {k + m + 1, k + m + 2, k + m + 3}
               PROVE  \E j \in 1 .. m : i = k + j
    OBVIOUS
  <2>1. i - k \in 1 .. m /\ i = k + (i - k)
    BY <1>7, <1>9
  <2> QED
    BY <2>1
<1>14. \A i \in k + 1 .. k + m + 3 : s[i] # Exec
  <2> SUFFICES ASSUME NEW i \in k + 1 .. k + m + 3  PROVE s[i].op # "exec"
    BY DEF Exec
  <2>1. i \in DOMAIN s /\ i \notin 1 .. k
    BY <1>7, <1>9
  <2>2. ASSUME NEW j \in 1 .. m, i = k + j  PROVE s[i].op # "exec"
    <3>1. NetStep.op # "exec" /\ \A t \in Renewers : Go(t).op # "exec"
      BY DEF NetStep, Step, Go
    <3> QED
      BY <1>19, <2>2, <3>1
  <2>3. CASE i \in {k + m + 1, k + m + 2, k + m + 3}
    BY <1>12, <2>3 DEF SetHostname, SetChild, Go
  <2> QED
    BY <1>13, <2>1, <2>2, <2>3
<1>15. \A i \in DOMAIN s : i # k + m + 3 => s[i] # Go("sup")
  <2> SUFFICES ASSUME NEW i \in DOMAIN s, i # k + m + 3  PROVE s[i] # Go("sup")
    OBVIOUS
  <2>1. CASE i \in 1 .. k
    BY <1>10, <2>1 DEF Go
  <2>2. ASSUME NEW j \in 1 .. m, i = k + j  PROVE s[i] # Go("sup")
    <3>1. NetStep # Go("sup") /\ \A t \in Renewers : t # "sup" => Go(t) # Go("sup")
      <4>1. NetStep.op # Go("sup").op
        BY DEF NetStep, Step, Go
      <4>2. \A t \in Renewers : Go(t).arg = t /\ Go("sup").arg = "sup"
        BY DEF Go
      <4> QED
        BY <4>1, <4>2
    <3> QED
      BY <1>19, <2>2, <3>1
  <2>3. CASE i \in {k + m + 1, k + m + 2}
    BY <1>12, <2>3 DEF SetHostname, SetChild, Go
  <2> QED
    BY <1>13, <2>1, <2>2, <2>3
<1>16. Ordered(s)
  <2>1. ASSUME NEW i \in DOMAIN s, NEW j \in DOMAIN s, i < j, s[j] = Exec
        PROVE  s[i].op # "go" /\ s[i] # NetStep
    <3>1. j \in 1 .. k
      BY <1>7, <1>9, <1>14, <2>1
    <3>2. i \in 1 .. k
      BY <1>7, <1>9, <2>1, <3>1
    <3> QED
      BY <1>10, <3>2
  <2>2. ASSUME NEW i \in DOMAIN s, NEW j \in DOMAIN s, i < j, s[i] = Go("sup")
        PROVE  s[j] # NetStep
    <3>1. i = k + m + 3
      BY <1>15, <2>2
    <3> QED
      BY <1>7, <1>9, <2>2, <3>1
  <2> QED
    BY <2>1, <2>2 DEF Ordered
<1>17. Cardinality(Occurs(s, NetStep)) = Len(Nics)
  <2> DEFINE O == Occurs(s, NetStep)
  <2> DEFINE f == [i \in 1 .. Len(Nics) |-> k + (2 * i - 1)]
  <2>1. ASSUME NEW i \in 1 .. Len(Nics)  PROVE k + (2 * i - 1) \in O
    <3>1. 2 * i - 1 \in 1 .. m /\ (2 * i - 1) % 2 = 1
      BY <1>2 DEF m
    <3>2. s[k + (2 * i - 1)] = NetStep
      BY <1>11, <3>1
    <3>3. k + (2 * i - 1) \in DOMAIN s
      BY <1>7, <1>9, <3>1
    <3> QED
      BY <3>2, <3>3 DEF Occurs
  <2>2. ASSUME NEW o \in O  PROVE \E i \in 1 .. Len(Nics) : k + (2 * i - 1) = o
    <3>1. o \in DOMAIN s /\ s[o] = NetStep
      BY DEF Occurs
    <3>2. \A t \in Renewers : Go(t) # NetStep
      <4>1. \A t \in Renewers : Go(t).op # NetStep.op
        BY DEF Go, NetStep, Step
      <4> QED
        BY <4>1
    <3>3. o \notin 1 .. k /\ o \notin {k + m + 1, k + m + 2, k + m + 3}
      BY <1>10, <1>12, <3>1 DEF SetHostname, SetChild, Go, NetStep, Step
    <3>4. PICK j \in 1 .. m : o = k + j
      BY <1>13, <3>1, <3>3
    <3>5. j % 2 = 1
      BY <1>19, <3>1, <3>2, <3>4
    <3>6. (j + 1) \div 2 \in 1 .. Len(Nics) /\ 2 * ((j + 1) \div 2) - 1 = j
      BY <1>2, <3>5 DEF m
    <3> QED
      BY <3>4, <3>6
  <2>3. \A i, j \in 1 .. Len(Nics) : k + (2 * i - 1) = k + (2 * j - 1) => i = j
    BY <1>7
  <2> HIDE DEF O
  <2>4. f \in [1 .. Len(Nics) -> O] /\ \A i \in 1 .. Len(Nics) : f[i] = k + (2 * i - 1)
    BY <2>1
  <2> HIDE DEF f
  <2>5. ExistsBijection(1 .. Len(Nics), O)
    <3>1. \A i, j \in 1 .. Len(Nics) : f[i] = f[j] => i = j
      BY <2>3, <2>4
    <3>2. \A o \in O : \E i \in 1 .. Len(Nics) : f[i] = o
      BY <2>2, <2>4
    <3> QED
      BY <2>4, <3>1, <3>2 DEF ExistsBijection, Bijection, Injection, Surjection, IsInjective
  <2> QED
    BY <1>2, <2>5, FS_CountingElements DEF O
<1>18. s = WholeBoot(before)
  BY DEF WholeBoot, s, A, B
<1> QED
  BY <1>8, <1>16, <1>17, <1>18

-----------------------------------------------------------------------------
(* Initially.                                                              *)

\* The goroutines are distinct.
LEMMA Names ==
    /\ "boot" \notin Renewers /\ "sup" \notin Renewers /\ Renewers \subseteq Threads
    /\ "boot" \in Threads /\ "sup" \in Threads /\ Free \notin Threads
    /\ "boot" # "sup"
BY BootRecordAssumptions DEF Renewers, Threads, Free

\* Before any renewal there is one lease for each interface.
LEMMA FirstLeases ==
    ASSUME renewals = [n \in Renewers |-> 0]
    PROVE  Cardinality(Leases) = Len(Nics)
<1> DEFINE f == [i \in 1 .. Len(Nics) |-> << Nics[i], 0 >>]
<1>1. Nics \in Seq(STRING) /\ Len(Nics) \in Nat /\ DOMAIN Nics = 1 .. Len(Nics)
  BY BootRecordAssumptions
<1>2. \A i, j \in 1 .. Len(Nics) : Nics[i] = Nics[j] => i = j
  BY <1>1, BootRecordAssumptions DEF IsInjective
<1>3. Leases = {<< n, 0 >> : n \in Renewers}
  <2>1. 0 \in 0 .. MaxRenewals /\ \A i \in 0 .. MaxRenewals : i <= 0 <=> i = 0
    BY BootRecordAssumptions
  <2> QED
    BY <2>1 DEF Leases
<1>4. \A i \in 1 .. Len(Nics) : f[i] \in Leases
  BY <1>1, <1>3 DEF Renewers, Range
<1>5. \A l \in Leases : \E i \in 1 .. Len(Nics) : f[i] = l
  BY <1>1, <1>3 DEF Renewers, Range
<1>6. \A i, j \in 1 .. Len(Nics) : f[i] = f[j] => i = j
  BY <1>2
<1>7. f \in [1 .. Len(Nics) -> Leases]
  BY <1>4
<1> HIDE DEF f
<1>8. ExistsBijection(1 .. Len(Nics), Leases)
  BY <1>5, <1>6, <1>7 DEF ExistsBijection, Bijection, Injection, Surjection, IsInjective
<1> QED
  BY <1>1, <1>8, FS_CountingElements

\* The leases are finitely many, and so are those not recorded yet.
LEMMA LeasesFinite ==
    /\ IsFiniteSet(Leases) /\ Cardinality(Leases) \in Nat
    /\ IsFiniteSet(Unrecorded) /\ Cardinality(Unrecorded) \in Nat
<1>1. Nics \in Seq(STRING) /\ Len(Nics) \in Nat /\ DOMAIN Nics = 1 .. Len(Nics)
  BY BootRecordAssumptions
<1>2. Nics \in Surjection(1 .. Len(Nics), Renewers)
  <2>1. Nics \in [1 .. Len(Nics) -> Renewers]
    BY <1>1 DEF Renewers, Range
  <2>2. \A n \in Renewers : \E i \in 1 .. Len(Nics) : Nics[i] = n
    BY <1>1 DEF Renewers, Range
  <2> QED
    BY <2>1, <2>2 DEF Surjection
<1>3. IsFiniteSet(1 .. Len(Nics)) /\ IsFiniteSet(0 .. MaxRenewals)
  BY <1>1, BootRecordAssumptions, FS_Interval
<1>4. IsFiniteSet(Renewers)
  BY <1>2, <1>3, FS_Surjection
<1>5. IsFiniteSet(Renewers \X (0 .. MaxRenewals))
  BY <1>3, <1>4, FS_Product
<1>6. Leases \in SUBSET (Renewers \X (0 .. MaxRenewals))
  BY DEF Leases
<1>7. IsFiniteSet(Leases)
  BY <1>5, <1>6, FS_Subset
<1>8. Unrecorded \in SUBSET Renewers
  BY DEF Unrecorded
<1>9. IsFiniteSet(Unrecorded)
  BY <1>4, <1>8, FS_Subset
<1> QED
  BY <1>7, <1>9, FS_CardinalityType

\* Every boot is put together from plain parts and the interfaces' stages.
LEMMA Boots ==
    ASSUME NEW s \in {SwitchingBoot, InitramfsBoot}
    PROVE  /\ s \in Seq(Stages) /\ Ordered(s)
           /\ Cardinality(Occurs(s, NetStep)) = Len(Nics)
<1>1. Plain(BeforePivot("no") \o << Step("root"), Exec >>)
  BY PlainParts, PlainConcat
<1>2. Plain(BeforePivot("no") \o << Step("root"), Exec >> \o BeforePivot("yes"))
  BY <1>1, PlainParts, PlainConcat
<1>3. CASE s = SwitchingBoot
  BY <1>2, <1>3, WholeBootIs DEF SwitchingBoot
<1>4. CASE s = InitramfsBoot
  BY <1>4, PlainParts, WholeBootIs DEF InitramfsBoot
<1> QED
  BY <1>3, <1>4

LEMMA InitIs == RecordInit => RecordInv
<1> SUFFICES ASSUME RecordInit  PROVE RecordInv
  OBVIOUS
<1>1. MaxExits \in Nat /\ MaxRenewals \in Nat
  BY BootRecordAssumptions
<1>2. EmptyRecord \in Records
  <2>1. << >> \in Seq(StepNames) /\ 0 \in 0 .. MaxExits
    BY <1>1
  <2> QED
    BY <2>1 DEF EmptyRecord, Records
<1>3. Types
  <2>1. thread \in [Threads -> [at : Places, snap : Records]]
        /\ \A t \in Threads : thread[t].at = "idle"
    BY <1>2 DEF RecordInit, Idle, Places
  <2>2. file \in [is : {"absent", "empty", "whole", "torn"}, holds : Records]
        /\ file.is = "absent"
    BY <1>2 DEF RecordInit, NoFile
  <2>3. rec \in Records /\ stages \in Seq(Stages)
    BY <1>2, Boots DEF RecordInit
  <2>4. renewals \in [Renewers -> 0 .. MaxRenewals] /\ exits \in 0 .. MaxExits
    BY <1>1 DEF RecordInit
  <2>5. /\ started \subseteq Threads /\ mu \in Threads \cup {Free}
        /\ sink \in BOOLEAN /\ alive \in BOOLEAN
    BY Names DEF RecordInit
  <2> QED
    BY <2>1, <2>2, <2>3, <2>4, <2>5 DEF Types, RecordTypeOK, Records
<1>4. Order
  <2>1. Ordered(stages)
    BY Boots DEF RecordInit
  <2>2. "network" \notin Range(rec.steps)
    BY DEF RecordInit, EmptyRecord, Range
  <2> QED
    BY <2>1, <2>2, Names DEF Order, RecordInit
<1>5. Recording /\ Excluded /\ CopiesArePast /\ FileIsPast /\ ExitsKept
  <2>1. \A t \in Threads : thread[t].at = "idle"
    BY DEF RecordInit, Idle
  <2>2. file.is = "absent" /\ rec.restarts = 0 /\ exits = 0 /\ ~alive
    BY DEF RecordInit, NoFile, EmptyRecord
  <2>3. thread["sup"].at = "idle" /\ \A n \in Renewers : thread[n].at = "idle"
    BY <2>1, Names
  <2>5. Recording
    BY <2>1, <2>2, <2>3 DEF Recording, Telling
  <2>6. Excluded /\ CopiesArePast
    BY <2>1 DEF CopiesArePast, Excluded, Holding
  <2>7. FileIsPast
    BY <2>2 DEF FileIsPast
  <2>8. ExitsKept
    <3>1. rec.restarts = exits - 0
      BY <2>2
    <3>2. (IF Telling("sup") THEN 1 ELSE 0) = 0
      BY <2>3 DEF Telling
    <3> QED
      BY <3>1, <3>2, Zenon DEF ExitsKept
  <2> QED
    BY <2>5, <2>6, <2>7, <2>8
<1>6. LeasesKept
  <2>1. Occurs(rec.steps, "network") = {}
    BY DEF RecordInit, EmptyRecord, Occurs
  <2>2. Cardinality(Occurs(rec.steps, "network")) = 0
    BY <2>1, FS_EmptySet
  <2>3. Cardinality(Occurs(stages, NetStep)) = Len(Nics)
    BY Boots DEF RecordInit
  <2>4. Cardinality(Leases) = Len(Nics) /\ Len(Nics) \in Nat
    BY FirstLeases, BootRecordAssumptions DEF RecordInit
  <2>5. Unrecorded = {}
    BY Names DEF RecordInit, Idle, Unrecorded, Telling
  <2>6. Cardinality(Unrecorded) = 0
    BY <2>5, FS_EmptySet
  <2> QED
    BY <2>2, <2>3, <2>4, <2>6 DEF LeasesKept
<1> QED
  BY <1>3, <1>4, <1>5, <1>6 DEF RecordInv

-----------------------------------------------------------------------------
(* Steps.                                                                  *)

\* A goroutine that goes on to a place keeps its copy of the record.
LEMMA Moves ==
    ASSUME Types, NEW t \in Threads, NEW place \in Places, At(t, place)
    PROVE  /\ thread' \in [Threads -> [at : Places, snap : Records]]
           /\ thread'[t].at = place /\ thread'[t].snap = thread[t].snap
           /\ \A u \in Threads \ {t} : thread'[u] = thread[u]
<1>1. thread \in [Threads -> [at : Places, snap : Records]]
  BY DEF Types
<1>2. thread[t] \in [at : Places, snap : Records]
  BY <1>1
<1>3. [thread[t] EXCEPT !.at = place] \in [at : Places, snap : Records]
  BY <1>2
<1>4. thread' = [thread EXCEPT ![t] = [thread[t] EXCEPT !.at = place]]
  BY DEF At
<1>5. thread'[t] = [thread[t] EXCEPT !.at = place]
  BY <1>1, <1>4
<1> QED
  BY <1>1, <1>2, <1>3, <1>4, <1>5

\* The record only grows: by a step or a restart.
RecGrows ==
    /\ rec' \in Records
    /\ rec.restarts <= rec'.restarts
    /\ rec'.steps = rec.steps \/ \E name \in StepNames : rec'.steps = Append(rec.steps, name)

\* What is past stays past.
LEMMA StillPast ==
    ASSUME rec \in Records, RecGrows, NEW old \in Records, Past(old)
    PROVE  IsPrefix(old.steps, rec'.steps) /\ old.restarts <= rec'.restarts
<1>1. /\ old.steps \in Seq(StepNames) /\ rec.steps \in Seq(StepNames)
      /\ old.restarts \in 0 .. MaxExits /\ rec.restarts \in 0 .. MaxExits
      /\ rec'.restarts \in 0 .. MaxExits
  BY DEF Records, RecGrows
<1>2. IsPrefix(old.steps, rec.steps) /\ old.restarts <= rec.restarts
  BY DEF Past
<1>3. old.restarts <= rec'.restarts
  BY <1>1, <1>2, BootRecordAssumptions DEF RecGrows
<1>4. CASE rec'.steps = rec.steps
  BY <1>2, <1>3, <1>4
<1>5. ASSUME NEW name \in StepNames, rec'.steps = Append(rec.steps, name)
      PROVE  IsPrefix(old.steps, rec'.steps)
  BY <1>1, <1>2, <1>5, PrefixAppend
<1> QED
  BY <1>3, <1>4, <1>5 DEF RecGrows

\* A step that copies nothing and leaves the file alone.
LEMMA CopiesStay ==
    ASSUME Types, CopiesArePast, FileIsPast, UNCHANGED file, RecGrows,
           \A t \in Threads : thread'[t].at \in {"sink", "write"} =>
               thread[t].at \in {"sink", "write"} /\ thread'[t].snap = thread[t].snap
    PROVE  CopiesArePast' /\ FileIsPast'
<1>1. rec \in Records /\ file.holds \in Records /\ \A t \in Threads : thread[t].snap \in Records
  BY DEF Types
<1>2. ASSUME NEW t \in Threads, thread'[t].at \in {"sink", "write"}
      PROVE  IsPrefix(thread'[t].snap.steps, rec'.steps) /\ thread'[t].snap.restarts <= rec'.restarts
  <2>1. thread'[t].snap = thread[t].snap /\ Past(thread[t].snap)
    BY <1>2 DEF CopiesArePast
  <2> QED
    BY <1>1, <2>1, StillPast
<1>3. file.is = "whole" => IsPrefix(file.holds.steps, rec'.steps) /\ file.holds.restarts <= rec'.restarts
  BY <1>1, StillPast DEF FileIsPast, Past
<1> QED
  BY <1>2, <1>3 DEF CopiesArePast, Past, FileIsPast

\* A record that does not change has not lost anything.
LEMMA Unchanged ==
    ASSUME Types, UNCHANGED rec
    PROVE  RecGrows
BY DEF Types, Records, RecGrows

LEMMA OrderStays ==
    ASSUME Order, UNCHANGED <<stages, started, rec>>
    PROVE  Order'
BY DEF Order, Ordered

\* A step in which no interface's goroutine begins or ends to record a lease.
SameTelling == \A n \in Renewers : thread'[n].at \in {"want", "crit", "have"}
                                    <=> thread[n].at \in {"want", "crit", "have"}

LEMMA UnrecordedStay ==
    ASSUME SameTelling
    PROVE  Unrecorded' = Unrecorded
BY DEF SameTelling, Unrecorded, Telling

LEMMA LeasesStay ==
    ASSUME LeasesKept, UNCHANGED <<stages, rec, renewals>>, SameTelling
    PROVE  LeasesKept'
<1>1. Unrecorded' = Unrecorded
  BY UnrecordedStay
<1> QED
  BY <1>1 DEF LeasesKept, Occurs, Leases

\* The mutex is taken, given back, or left alone.
LEMMA MutexTaken ==
    ASSUME Types, Excluded, NEW t \in Threads, mu = Free, mu' = t, UNCHANGED rec,
           thread'[t].at \in {"crit", "snap"},
           \A u \in Threads \ {t} : thread'[u] = thread[u]
    PROVE  Excluded'
BY Names DEF Excluded, Holding

LEMMA MutexGiven ==
    ASSUME Types, Excluded, NEW t \in Threads, thread[t].at \in Holding, mu' = Free,
           thread'[t].at \notin Holding,
           \A u \in Threads \ {t} : thread'[u] = thread[u]
    PROVE  Excluded'
BY Names DEF Excluded, Holding

LEMMA MutexLeft ==
    ASSUME Excluded, UNCHANGED <<mu, rec>>,
           \A u \in Threads : thread'[u] = thread[u] \/ thread'[u].at \notin Holding
    PROVE  Excluded'
BY DEF Excluded, Holding

\* A goroutine that has something to record takes the mutex.
LEMMA LockStep ==
    ASSUME RecordInv, NEW t \in Threads, Lock(t),
           thread[t].at = IF t = "boot" THEN "idle" ELSE "want",
           UNCHANGED <<stages, started, rec, sink, file, alive, exits, renewals>>
    PROVE  RecordInv'
<1>0. /\ Types /\ Order /\ Recording /\ Excluded
      /\ CopiesArePast /\ FileIsPast /\ LeasesKept /\ ExitsKept
  BY DEF RecordInv
<1>1. /\ thread' \in [Threads -> [at : Places, snap : Records]]
      /\ thread'[t].at = "crit"
      /\ \A u \in Threads \ {t} : thread'[u] = thread[u]
  BY <1>0, Moves DEF Lock, Places
<1>2. Types'
  BY <1>0, <1>1 DEF Lock, Types, RecordTypeOK, Places
<1>3. Recording' /\ ExitsKept'
  <2>1. Telling("sup")' <=> Telling("sup")
    BY <1>1, Names DEF Telling
  <2>2. Recording'
    BY <1>0, <1>1, <2>1, Names DEF Recording
  <2> QED
    BY <1>0, <2>1, <2>2 DEF ExitsKept
<1>4. CopiesArePast' /\ FileIsPast'
  BY <1>0, <1>1, CopiesStay, Unchanged
<1>5. Excluded'
  BY <1>0, <1>1, MutexTaken DEF Lock
<1>6. LeasesKept'
  <2>1. SameTelling
    BY <1>1, Names DEF SameTelling
  <2> QED
    BY <1>0, <2>1, LeasesStay
<1> QED
  BY <1>0, <1>2, <1>3, <1>4, <1>5, <1>6, OrderStays DEF RecordInv

\* It reads the record.
LEMMA ReadStep ==
    ASSUME RecordInv, NEW t \in Threads, Read(t)
    PROVE  RecordInv'
<1>0. /\ Types /\ Order /\ Recording /\ Excluded
      /\ CopiesArePast /\ FileIsPast /\ LeasesKept /\ ExitsKept
  BY DEF RecordInv
<1>1. UNCHANGED <<stages, started, rec, sink, mu, file, alive, exits, renewals>>
  BY DEF Read
<1>2. rec \in Records /\ [at |-> "have", snap |-> rec] \in [at : Places, snap : Records]
  BY <1>0 DEF Types, Places
<1>3. /\ thread' \in [Threads -> [at : Places, snap : Records]]
      /\ thread'[t].at = "have" /\ thread'[t].snap = rec /\ thread[t].at = "crit"
      /\ \A u \in Threads \ {t} : thread'[u] = thread[u]
  BY <1>0, <1>2 DEF Read, Types
<1>4. Types'
  BY <1>0, <1>1, <1>3 DEF Types, RecordTypeOK, Places
<1>5. Recording' /\ ExitsKept'
  <2>1. Telling("sup")' <=> Telling("sup")
    BY <1>3, Names DEF Telling
  <2>2. Recording'
    BY <1>0, <1>1, <1>3, <2>1, Names DEF Recording
  <2> QED
    BY <1>0, <1>1, <2>1, <2>2 DEF ExitsKept
<1>6. CopiesArePast' /\ FileIsPast'
  BY <1>0, <1>1, <1>3, CopiesStay, Unchanged
<1>7. Excluded'
  BY <1>0, <1>1, <1>3, Names DEF Excluded, Holding
<1>8. LeasesKept'
  <2>1. SameTelling
    BY <1>3, Names DEF SameTelling
  <2> QED
    BY <1>0, <1>1, <2>1, LeasesStay
<1> QED
  BY <1>0, <1>1, <1>4, <1>5, <1>6, <1>7, <1>8, OrderStays DEF RecordInv

\* The workload exits and the supervisor comes to record it.
LEMMA ChildExitStep ==
    ASSUME RecordInv, ChildExit
    PROVE  RecordInv'
<1>0. /\ Types /\ Order /\ Recording /\ Excluded
      /\ CopiesArePast /\ FileIsPast /\ LeasesKept /\ ExitsKept
  BY DEF RecordInv
<1>1. /\ thread' \in [Threads -> [at : Places, snap : Records]]
      /\ thread'["sup"].at = "want" /\ thread["sup"].at = "idle"
      /\ \A u \in Threads \ {"sup"} : thread'[u] = thread[u]
  BY <1>0, Moves, Names DEF ChildExit, Recording, Places
<1>2. exits \in 0 .. MaxExits /\ exits < MaxExits /\ exits' = exits + 1 /\ "sup" \in started
  BY <1>0 DEF ChildExit, Recording, Types, RecordTypeOK
<1>3. exits' \in 0 .. MaxExits /\ exits' > 0
  BY <1>2, BootRecordAssumptions
<1>4. Types'
  BY <1>0, <1>1, <1>3, Names DEF ChildExit, Types, RecordTypeOK, Places
<1>5. Recording'
  BY <1>0, <1>1, <1>2, <1>3, Names DEF ChildExit, Recording
<1>6. CopiesArePast' /\ FileIsPast'
  BY <1>0, <1>1, CopiesStay, Unchanged DEF ChildExit
<1>7. ExitsKept'
  <2>1. ~Telling("sup") /\ Telling("sup")'
    BY <1>1 DEF Telling
  <2> QED
    BY <1>0, <1>2, <2>1 DEF ChildExit, ExitsKept
<1>8. Excluded'
  BY <1>0, <1>1, MutexLeft DEF ChildExit, Holding
<1>9. LeasesKept'
  <2>1. SameTelling
    BY <1>1, Names DEF SameTelling
  <2> QED
    BY <1>0, <2>1, LeasesStay DEF ChildExit
<1> QED
  BY <1>0, <1>4, <1>5, <1>6, <1>7, <1>8, <1>9, OrderStays DEF RecordInv, ChildExit

LEMMA ChildStartStep ==
    ASSUME RecordInv, ChildStart
    PROVE  RecordInv'
<1>0. /\ Types /\ Order /\ Recording /\ Excluded
      /\ CopiesArePast /\ FileIsPast /\ LeasesKept /\ ExitsKept
  BY DEF RecordInv
<1>1. Types'
  BY <1>0 DEF ChildStart, Types, RecordTypeOK
<1>2. Recording'
  BY <1>0 DEF ChildStart, Recording, Telling
<1>3. CopiesArePast' /\ FileIsPast' /\ Excluded'
  BY <1>0, CopiesStay, Unchanged, MutexLeft DEF ChildStart
<1>4. ExitsKept' /\ LeasesKept'
  BY <1>0, LeasesStay DEF ChildStart, ExitsKept, Telling, SameTelling
<1> QED
  BY <1>0, <1>1, <1>2, <1>3, <1>4, OrderStays DEF RecordInv, ChildStart

\* flush takes its snapshot and writes it.
LEMMA FlushStep ==
    ASSUME RecordInv, NEW t \in Threads, Flush(t)
    PROVE  RecordInv'
<1>0. /\ Types /\ Order /\ Recording /\ Excluded
      /\ CopiesArePast /\ FileIsPast /\ LeasesKept /\ ExitsKept
  BY DEF RecordInv
<1>a. UNCHANGED <<stages, started, rec, sink, alive, exits, renewals>>
  BY DEF Flush, SnapshotLock, Snapshot, Truncate, WriteFile
<1>b. Order'
  BY <1>0, <1>a, OrderStays
<1>c. ASSUME thread' \in [Threads -> [at : Places, snap : Records]],
             thread[t].at \notin {"idle", "want", "crit", "have"},
             thread'[t].at \notin {"want", "crit", "have"},
             \A u \in Threads \ {t} : thread'[u] = thread[u]
      PROVE  Recording' /\ ExitsKept' /\ LeasesKept'
  <2>1. t \in {"boot"} \cup started
    BY <1>0, <1>c DEF Recording
  <2>2. (Telling("sup")' <=> Telling("sup")) /\ SameTelling
    BY <1>c, Names DEF Telling, SameTelling
  <2>3. Recording'
    BY <1>0, <1>a, <1>c, <2>1, <2>2, Names DEF Recording
  <2>4. ExitsKept'
    BY <1>0, <1>a, <2>2 DEF ExitsKept
  <2> QED
    BY <1>0, <1>a, <2>2, <2>3, <2>4, LeasesStay
<1>1. CASE SnapshotLock(t)
  <2>1. /\ thread' \in [Threads -> [at : Places, snap : Records]]
        /\ thread'[t].at = "snap" /\ thread[t].at = "flush"
        /\ \A u \in Threads \ {t} : thread'[u] = thread[u]
    BY <1>0, <1>1, Moves DEF SnapshotLock, Places
  <2>2. Types'
    BY <1>0, <1>1, <2>1 DEF SnapshotLock, Types, RecordTypeOK, Places
  <2>3. CopiesArePast' /\ FileIsPast'
    BY <1>0, <1>1, <2>1, CopiesStay, Unchanged DEF SnapshotLock
  <2>4. Excluded'
    BY <1>0, <1>1, <2>1, MutexTaken DEF SnapshotLock
  <2> QED
    BY <1>b, <1>c, <2>1, <2>2, <2>3, <2>4 DEF RecordInv
<1>2. CASE Snapshot(t)
  <2>1. rec \in Records /\ [at |-> "sink", snap |-> rec] \in [at : Places, snap : Records]
    BY <1>0 DEF Types, Places
  <2>2. /\ thread' \in [Threads -> [at : Places, snap : Records]]
        /\ thread'[t] = [at |-> "sink", snap |-> rec] /\ thread[t].at = "snap"
        /\ \A u \in Threads \ {t} : thread'[u] = thread[u]
    BY <1>0, <1>2, <2>1 DEF Snapshot, Types
  <2>3. Types'
    BY <1>0, <1>2, <2>2 DEF Snapshot, Types, RecordTypeOK, Places
  <2>4. Past(rec)
    <3>1. rec.steps \in Seq(StepNames) /\ rec.restarts <= rec.restarts
      BY <2>1 DEF Records
    <3> QED
      BY <3>1, PrefixOfItself DEF Past
  <2>5. CopiesArePast' /\ FileIsPast'
    <3>1. ASSUME NEW u \in Threads, thread'[u].at \in {"sink", "write"}
          PROVE  Past(thread'[u].snap)
      BY <1>0, <2>2, <2>4, <3>1 DEF CopiesArePast
    <3>2. UNCHANGED <<rec, file>>
      BY <1>2 DEF Snapshot
    <3> QED
      BY <1>0, <3>1, <3>2 DEF CopiesArePast, FileIsPast, Past
  <2>6. Excluded'
    BY <1>0, <1>2, <2>2, MutexGiven DEF Snapshot, Holding
  <2> QED
    BY <1>b, <1>c, <2>2, <2>3, <2>5, <2>6 DEF RecordInv
<1>3. CASE Truncate(t)
  <2>1. /\ thread' \in [Threads -> [at : Places, snap : Records]]
        /\ thread'[t].at = "write" /\ thread'[t].snap = thread[t].snap
        /\ thread[t].at = "sink"
        /\ \A u \in Threads \ {t} : thread'[u] = thread[u]
    BY <1>0, <1>3, Moves DEF Truncate, Places
  <2>2. /\ file' \in [is : {"absent", "empty", "whole", "torn"}, holds : Records]
        /\ file'.is = "empty"
    BY <1>0, <1>3 DEF Truncate, Types
  <2>3. Types'
    BY <1>0, <1>3, <2>1, <2>2 DEF Truncate, Types, RecordTypeOK, Places
  <2>4. CopiesArePast' /\ FileIsPast'
    BY <1>0, <1>a, <2>1, <2>2 DEF CopiesArePast, FileIsPast, Past
  <2>5. Excluded'
    BY <1>0, <1>3, <2>1, MutexLeft DEF Truncate, Holding
  <2> QED
    BY <1>b, <1>c, <2>1, <2>3, <2>4, <2>5 DEF RecordInv
<1>4. CASE WriteFile(t)
  <2>1. /\ thread' \in [Threads -> [at : Places, snap : Records]]
        /\ thread'[t].at = "idle" /\ thread[t].at = "write"
        /\ \A u \in Threads \ {t} : thread'[u] = thread[u]
    BY <1>0, <1>4, Moves DEF WriteFile, Places
  <2>2. thread[t].snap \in Records /\ Past(thread[t].snap)
    BY <1>0, <2>1 DEF Types, CopiesArePast
  <2>3. /\ file' \in [is : {"absent", "empty", "whole", "torn"}, holds : Records]
        /\ file'.is = "whole" => Past(file'.holds)
    <3>1. CASE file' = [is |-> "whole", holds |-> thread[t].snap]
      BY <2>2, <3>1
    <3>2. CASE file' = [file EXCEPT !.is = "torn"]
      BY <1>0, <3>2 DEF Types
    <3> QED
      BY <1>4, <3>1, <3>2 DEF WriteFile
  <2>4. Types'
    BY <1>0, <1>4, <2>1, <2>3 DEF WriteFile, Types, RecordTypeOK, Places
  <2>5. CopiesArePast' /\ FileIsPast'
    BY <1>0, <1>a, <2>1, <2>3 DEF CopiesArePast, FileIsPast, Past
  <2>6. Excluded'
    BY <1>0, <1>4, <2>1, MutexLeft DEF WriteFile, Holding
  <2> QED
    BY <1>b, <1>c, <2>1, <2>4, <2>5, <2>6 DEF RecordInv
<1> QED
  BY <1>1, <1>2, <1>3, <1>4 DEF Flush

\* What changing the record does to the types and the copies, whoever does it.
LEMMA Recorded ==
    ASSUME RecordInv, NEW t \in Threads, NEW new, Record(t, new), new \in Records,
           rec.restarts <= new.restarts,
           new.steps = rec.steps \/ \E name \in StepNames : new.steps = Append(rec.steps, name),
           UNCHANGED <<sink, file, alive, exits>>
    PROVE  /\ rec' = new /\ mu' = Free
           /\ thread' \in [Threads -> [at : Places, snap : Records]]
           /\ thread[t].at = "have" /\ thread'[t].at \in {"idle", "flush"}
           /\ \A u \in Threads \ {t} : thread'[u] = thread[u]
           /\ Excluded' /\ CopiesArePast' /\ FileIsPast'
<1>0. Types /\ Excluded /\ CopiesArePast /\ FileIsPast
  BY DEF RecordInv
<1>1. PICK place \in {"idle", "flush"} : At(t, place)
  BY DEF Record
<1>2. /\ thread' \in [Threads -> [at : Places, snap : Records]]
      /\ thread'[t].at \in {"idle", "flush"}
      /\ \A u \in Threads \ {t} : thread'[u] = thread[u]
  BY <1>0, <1>1, Moves DEF Places
<1>3. rec' = new /\ mu' = Free /\ thread[t].at = "have"
  BY DEF Record
<1>4. RecGrows
  BY <1>3 DEF RecGrows
<1>5. CopiesArePast' /\ FileIsPast'
  BY <1>0, <1>2, <1>4, CopiesStay
<1>6. Excluded'
  BY <1>0, <1>2, <1>3, MutexGiven DEF Holding
<1> QED
  BY <1>2, <1>3, <1>5, <1>6

\* boot records something and goes on.
LEMMA BootRecords ==
    ASSUME RecordInv, NEW new, Record("boot", new), NextStage, stages # << >>,
           new \in Records, rec.restarts = new.restarts, Head(stages).op # "go",
           \/ Head(stages).op # "step" /\ new.steps = rec.steps
           \/ Head(stages).op = "step" /\ new.steps = Append(rec.steps, Head(stages).arg),
           UNCHANGED <<started, sink, file, alive, exits, renewals>>
    PROVE  RecordInv'
<1>0. /\ Types /\ Order /\ Recording /\ Excluded
      /\ CopiesArePast /\ FileIsPast /\ LeasesKept /\ ExitsKept
  BY DEF RecordInv
<1>1. /\ stages \in Seq(Stages) /\ rec \in Records /\ Ordered(stages)
      /\ rec.steps \in Seq(StepNames) /\ rec.restarts \in 0 .. MaxExits
  BY <1>0 DEF Types, Order, Records
<1>2. /\ Head(stages) \in Stages /\ stages' = Tail(stages) /\ stages' \in Seq(Stages)
      /\ Head(stages).op = "step" => Head(stages).arg \in StepNames
      /\ Head(stages).op = "step" => (Head(stages) = NetStep <=> Head(stages).arg = "network")
      /\ Head(stages).op # "step" => Head(stages) # NetStep
  BY <1>1, NextStageIs DEF NextStage
<1>3. /\ rec' = new /\ mu' = Free
      /\ thread' \in [Threads -> [at : Places, snap : Records]]
      /\ thread["boot"].at = "have" /\ thread'["boot"].at \in {"idle", "flush"}
      /\ \A u \in Threads \ {"boot"} : thread'[u] = thread[u]
      /\ Excluded' /\ CopiesArePast' /\ FileIsPast'
  <2>1. rec.restarts <= new.restarts
    BY <1>1, BootRecordAssumptions
  <2>2. new.steps = rec.steps \/ \E name \in StepNames : new.steps = Append(rec.steps, name)
    BY <1>2
  <2> QED
    BY <2>1, <2>2, Names, Recorded
<1>4. Types'
  <2>1. rec' \in Records /\ \A t \in Threads : thread'[t].at \in Places
    BY <1>0, <1>2, <1>3
  <2>2. /\ rec'.steps \in Seq(StepNames) /\ rec'.switched \in BOOLEAN
        /\ rec'.named \in BOOLEAN /\ rec'.running \in BOOLEAN
        /\ rec'.restarts \in 0 .. MaxExits
    BY <2>1 DEF Records
  <2>3. RecordTypeOK'
    BY <1>0, <1>2, <1>3, <2>1, <2>2 DEF Types, RecordTypeOK, Places
  <2> QED
    BY <1>0, <1>2, <1>3, <2>3 DEF Types
<1>5. Order'
  <2>1. /\ Ordered(stages') /\ Range(stages') \subseteq Range(stages)
        /\ Exec \in Range(stages') => Head(stages) # NetStep
    BY <1>1, <1>2, StagesLeft
  <2>2. ASSUME Exec \in Range(stages')
        PROVE  started' = {"boot"} /\ "network" \notin Range(rec'.steps)
    <3>1. started = {"boot"} /\ "network" \notin Range(rec.steps) /\ Head(stages) # NetStep
      BY <1>0, <2>1, <2>2 DEF Order
    <3>2. CASE new.steps = Append(rec.steps, Head(stages).arg) /\ Head(stages).op = "step"
      <4>1. Head(stages).arg # "network" /\ Head(stages).arg \in StepNames
        BY <1>2, <3>1, <3>2
      <4>2. \A i \in DOMAIN new.steps : new.steps[i] \in Range(rec.steps) \cup {Head(stages).arg}
        BY <1>1, <3>2, <4>1 DEF Range
      <4>3. "network" \notin Range(new.steps)
        BY <3>1, <4>1, <4>2 DEF Range
      <4> QED
        BY <1>3, <3>1, <4>3
    <3> QED
      BY <1>3, <3>1, <3>2
  <2> QED
    BY <1>0, <2>1, <2>2 DEF Order, Ordered
<1>6. Recording' /\ ExitsKept'
  <2>1. Telling("sup")' <=> Telling("sup")
    BY <1>3, Names DEF Telling
  <2> QED
    BY <1>0, <1>3, <2>1, Names DEF Recording, ExitsKept
<1>7. LeasesKept'
  <2>1. Cardinality(Occurs(stages', NetStep)) =
           Cardinality(Occurs(stages, NetStep)) - (IF Head(stages) = NetStep THEN 1 ELSE 0)
    BY <1>1, <1>2, OccursTail
  <2>2. Cardinality(Occurs(rec'.steps, "network")) =
           Cardinality(Occurs(rec.steps, "network")) + (IF Head(stages) = NetStep THEN 1 ELSE 0)
    <3>1. CASE Head(stages).op = "step"
      <4>1. rec'.steps = Append(rec.steps, Head(stages).arg) /\ Head(stages).arg \in StepNames
        BY <1>2, <1>3, <3>1
      <4>2. Cardinality(Occurs(Append(rec.steps, Head(stages).arg), "network")) =
               Cardinality(Occurs(rec.steps, "network"))
                  + (IF Head(stages).arg = "network" THEN 1 ELSE 0)
        BY <1>1, <4>1, OccursAppend
      <4> QED
        BY <1>2, <3>1, <4>1, <4>2
    <3>2. CASE Head(stages).op # "step"
      <4>1. rec'.steps = rec.steps /\ Head(stages) # NetStep
        BY <1>2, <1>3, <3>2
      <4>2. Cardinality(Occurs(rec.steps, "network")) \in Nat
        BY <1>1, OccursFinite
      <4> QED
        BY <4>1, <4>2
    <3> QED
      BY <3>1, <3>2
  <2>3. /\ Cardinality(Occurs(stages, NetStep)) \in Nat
        /\ Cardinality(Occurs(rec.steps, "network")) \in Nat
    BY <1>1, OccursFinite
  <2>4. Leases' = Leases /\ Unrecorded' = Unrecorded
    BY <1>3, Names, UnrecordedStay DEF Leases, SameTelling
  <2>5. Cardinality(Unrecorded) \in Nat
    BY LeasesFinite
  <2> QED
    BY <1>0, <2>1, <2>2, <2>3, <2>4, <2>5 DEF LeasesKept
<1> QED
  BY <1>3, <1>4, <1>5, <1>6, <1>7 DEF RecordInv

\* boot's stages that record something.
LEMMA BootRecordsStep ==
    ASSUME RecordInv, BootStep \/ BootSetSwitchedRoot \/ BootSetHostname \/ BootSetChild
    PROVE  RecordInv'
<1>1. /\ rec \in Records /\ rec.steps \in Seq(StepNames) /\ rec.restarts \in 0 .. MaxExits
      /\ stages \in Seq(Stages)
  BY DEF RecordInv, Types, Records
<1>2. CASE BootStep
  <2>1. stages # << >> /\ Head(stages).op = "step"
    BY <1>2 DEF BootStep, Doing
  <2>2. Head(stages).arg \in StepNames
    BY <1>1, <2>1, NextStageIs
  <2>3. Append(rec.steps, Head(stages).arg) \in Seq(StepNames)
    BY <1>1, <2>2
  <2> DEFINE new == [rec EXCEPT !.steps = Append(thread["boot"].snap.steps, Head(stages).arg)]
  <2>6. thread["boot"].at = "have"
    BY <1>2 DEF BootStep, Record
  <2>7. thread["boot"].snap = rec
    BY <2>6, Names DEF RecordInv, Excluded
  <2>4. new \in Records /\ new.restarts = rec.restarts
        /\ new.steps = Append(rec.steps, Head(stages).arg)
    BY <1>1, <2>3, <2>7 DEF Records
  <2>5. Record("boot", new) /\ NextStage /\ UNCHANGED <<started, sink, file, alive, exits, renewals>>
    BY <1>2 DEF BootStep
  <2> HIDE DEF new
  <2> QED
    BY <2>1, <2>4, <2>5, BootRecords
<1>3. CASE BootSetSwitchedRoot
  <2>1. stages # << >> /\ Head(stages).op = "switched"
    BY <1>3 DEF BootSetSwitchedRoot, Doing
  <2> DEFINE new == [rec EXCEPT !.switched = Head(stages).arg = "yes"]
  <2>2. new \in Records /\ new.restarts = rec.restarts /\ new.steps = rec.steps
    <3>1. (Head(stages).arg = "yes") \in BOOLEAN
      OBVIOUS
    <3> QED
      BY <1>1, <3>1, Zenon DEF Records
  <2>3. Record("boot", new) /\ NextStage /\ UNCHANGED <<started, sink, file, alive, exits, renewals>>
    BY <1>3 DEF BootSetSwitchedRoot
  <2> HIDE DEF new
  <2> QED
    BY <2>1, <2>2, <2>3, BootRecords
<1>4. CASE BootSetHostname
  <2>1. stages # << >> /\ Head(stages).op = "hostname"
    BY <1>4 DEF BootSetHostname, Doing
  <2> DEFINE new == [rec EXCEPT !.named = TRUE]
  <2>2. new \in Records /\ new.restarts = rec.restarts /\ new.steps = rec.steps
    BY <1>1 DEF Records
  <2>3. Record("boot", new) /\ NextStage /\ UNCHANGED <<started, sink, file, alive, exits, renewals>>
    BY <1>4 DEF BootSetHostname
  <2> HIDE DEF new
  <2> QED
    BY <2>1, <2>2, <2>3, BootRecords
<1>5. CASE BootSetChild
  <2>1. stages # << >> /\ Head(stages).op = "child"
    BY <1>5 DEF BootSetChild, Doing
  <2> DEFINE new == [rec EXCEPT !.running = TRUE]
  <2>2. new \in Records /\ new.restarts = rec.restarts /\ new.steps = rec.steps
    BY <1>1 DEF Records
  <2>3. Record("boot", new) /\ NextStage /\ UNCHANGED <<started, sink, file, alive, exits, renewals>>
    BY <1>5 DEF BootSetChild
  <2> HIDE DEF new
  <2> QED
    BY <2>1, <2>2, <2>3, BootRecords
<1> QED
  BY <1>2, <1>3, <1>4, <1>5

\* A stage that records nothing leaves the leases as they are.
LEMMA SilentStage ==
    ASSUME stages \in Seq(Stages), stages # << >>, NextStage, Head(stages).op # "step"
    PROVE  Cardinality(Occurs(stages', NetStep)) = Cardinality(Occurs(stages, NetStep))
<1>1. Head(stages) # NetStep
  BY NextStageIs
<1>2. Cardinality(Occurs(stages, NetStep)) \in Nat
  BY OccursFinite
<1>3. Cardinality(Occurs(Tail(stages), NetStep)) =
         Cardinality(Occurs(stages, NetStep)) - (IF Head(stages) = NetStep THEN 1 ELSE 0)
  BY OccursTail
<1> QED
  BY <1>1, <1>2, <1>3 DEF NextStage

LEMMA RecordToStep ==
    ASSUME RecordInv, BootRecordTo
    PROVE  RecordInv'
<1>0. /\ Types /\ Order /\ Recording /\ Excluded
      /\ CopiesArePast /\ FileIsPast /\ LeasesKept /\ ExitsKept
  BY DEF RecordInv
<1>1. /\ stages \in Seq(Stages) /\ stages # << >> /\ Ordered(stages)
      /\ Head(stages).op = "recordTo" /\ stages' = Tail(stages)
  BY <1>0 DEF BootRecordTo, Doing, NextStage, Types, Order
<1>2. /\ thread' \in [Threads -> [at : Places, snap : Records]]
      /\ thread["boot"].at = "idle" /\ thread'["boot"].at \in {"idle", "flush"}
      /\ \A u \in Threads \ {"boot"} : thread'[u] = thread[u]
  <2>1. CASE At("boot", "flush")
    BY <1>0, <2>1, Moves, Names DEF BootRecordTo, Places
  <2>2. CASE UNCHANGED thread
    BY <1>0, <2>2 DEF BootRecordTo, Types
  <2> QED
    BY <2>1, <2>2 DEF BootRecordTo
<1>3. Types'
  <2>1. sink' \in BOOLEAN
    BY <1>0 DEF BootRecordTo, Types, RecordTypeOK
  <2>2. stages' \in Seq(Stages)
    BY <1>1, NextStageIs
  <2> QED
    BY <1>0, <1>2, <2>1, <2>2 DEF BootRecordTo, Types, RecordTypeOK, Places
<1>4. Order'
  <2>1. Ordered(stages') /\ Range(stages') \subseteq Range(stages)
    BY <1>1, StagesLeft
  <2> QED
    BY <1>0, <2>1 DEF BootRecordTo, Order, Ordered
<1>5. Recording' /\ ExitsKept'
  <2>1. Telling("sup")' <=> Telling("sup")
    BY <1>2, Names DEF Telling
  <2> QED
    BY <1>0, <1>2, <2>1, Names DEF BootRecordTo, Recording, ExitsKept
<1>6. CopiesArePast' /\ FileIsPast'
  <2>1. UNCHANGED <<rec, file>>
    BY DEF BootRecordTo
  <2> QED
    BY <1>0, <1>2, <2>1, CopiesStay, Unchanged
<1>7. LeasesKept'
  <2>1. Unrecorded' = Unrecorded
    BY <1>2, Names, UnrecordedStay DEF SameTelling
  <2> QED
    BY <1>0, <1>1, <2>1, SilentStage DEF BootRecordTo, LeasesKept, Occurs, Leases, NextStage
<1>8. Excluded'
  BY <1>0, <1>2, MutexLeft DEF BootRecordTo, Holding
<1> QED
  BY <1>3, <1>4, <1>5, <1>6, <1>7, <1>8 DEF RecordInv

\* boot starts a goroutine.
LEMMA GoStep ==
    ASSUME RecordInv, BootGo
    PROVE  RecordInv'
<1>0. /\ Types /\ Order /\ Recording /\ Excluded
      /\ CopiesArePast /\ FileIsPast /\ LeasesKept /\ ExitsKept
  BY DEF RecordInv
<1>1. /\ stages \in Seq(Stages) /\ stages # << >> /\ Ordered(stages)
      /\ Head(stages).op = "go" /\ stages' = Tail(stages)
  BY <1>0 DEF BootGo, Doing, NextStage, Types, Order
<1>2. /\ Head(stages).arg \in Threads /\ Head(stages) = Go(Head(stages).arg)
      /\ stages' \in Seq(Stages)
  BY <1>1, NextStageIs
<1>3. Types'
  BY <1>0, <1>2 DEF BootGo, Types, RecordTypeOK
<1>4. Order'
  <2>1. /\ Ordered(stages') /\ Range(stages') \subseteq Range(stages)
        /\ Exec \notin Range(stages')
        /\ Head(stages).arg = "sup" => NetStep \notin Range(stages')
    BY <1>1, <1>2, StagesLeft
  <2>2. "sup" \in started' => NetStep \notin Range(stages')
    BY <1>0, <2>1 DEF BootGo, Order
  <2> QED
    BY <2>1, <2>2 DEF Order, Ordered
<1>5. Recording' /\ ExitsKept'
  BY <1>0 DEF BootGo, Recording, ExitsKept, Telling
<1>6. CopiesArePast' /\ FileIsPast' /\ Excluded'
  BY <1>0, CopiesStay, Unchanged, MutexLeft DEF BootGo
<1>7. LeasesKept'
  <2>1. Unrecorded' = Unrecorded
    BY UnrecordedStay DEF BootGo, SameTelling
  <2> QED
    BY <1>0, <1>1, <2>1, SilentStage DEF BootGo, LeasesKept, Occurs, Leases, NextStage
<1> QED
  BY <1>3, <1>4, <1>5, <1>6, <1>7 DEF RecordInv

\* The pivot: no goroutine but boot's runs yet, and no lease is recorded.
LEMMA ExecStep ==
    ASSUME RecordInv, BootExec
    PROVE  RecordInv'
<1>0. /\ Types /\ Order /\ Recording /\ Excluded
      /\ CopiesArePast /\ FileIsPast /\ LeasesKept /\ ExitsKept
  BY DEF RecordInv
<1>1. /\ stages \in Seq(Stages) /\ stages # << >> /\ Ordered(stages)
      /\ Head(stages).op = "exec" /\ stages' = Tail(stages)
  BY <1>0 DEF BootExec, Doing, NextStage, Types, Order
<1>2. stages' \in Seq(Stages) /\ Exec \in Range(stages)
  BY <1>1, NextStageIs, StagesLeft
<1>3. started = {"boot"} /\ "network" \notin Range(rec.steps)
  BY <1>0, <1>2 DEF Order
<1>4. \A t \in Threads : thread[t].at = "idle"
  BY <1>0, <1>3 DEF BootExec, Recording
<1>5. exits = 0
  BY <1>0, <1>3, Names DEF Recording
<1>6. EmptyRecord \in Records
  <2>1. << >> \in Seq(StepNames) /\ 0 \in 0 .. MaxExits
    BY BootRecordAssumptions
  <2> QED
    BY <2>1 DEF EmptyRecord, Records
<1>7. /\ rec' = EmptyRecord /\ sink' = FALSE /\ file' = NoFile
      /\ UNCHANGED <<started, mu, thread, alive, exits, renewals>>
  BY DEF BootExec
<1>8. Types'
  <2>1. NoFile \in [is : {"absent", "empty", "whole", "torn"}, holds : Records]
    BY <1>6 DEF NoFile
  <2>2. /\ EmptyRecord.steps \in Seq(StepNames) /\ EmptyRecord.switched \in BOOLEAN
        /\ EmptyRecord.named \in BOOLEAN /\ EmptyRecord.running \in BOOLEAN
        /\ EmptyRecord.restarts \in 0 .. MaxExits
    BY <1>6 DEF Records
  <2>3. file'.is = "absent"
    BY <1>7 DEF NoFile
  <2> QED
    BY <1>0, <1>2, <1>6, <1>7, <2>1, <2>2, <2>3 DEF Types, RecordTypeOK
<1>9. Order'
  <2>1. Ordered(stages') /\ Range(stages') \subseteq Range(stages)
    BY <1>1, StagesLeft
  <2>2. "network" \notin Range(rec'.steps)
    BY <1>7 DEF EmptyRecord, Range
  <2> QED
    BY <1>3, <1>7, <2>1, <2>2, Names DEF Order, Ordered
<1>10. Recording' /\ Excluded'
  BY <1>0, <1>4, <1>7 DEF Recording, Telling, Excluded, Holding
<1>11. CopiesArePast' /\ FileIsPast'
  <2>1. file'.is = "absent"
    BY <1>7 DEF NoFile
  <2> QED
    BY <1>4, <1>7, <2>1 DEF CopiesArePast, FileIsPast
<1>12. ExitsKept'
  <2>1. rec'.restarts = 0
    BY <1>7 DEF EmptyRecord
  <2>2. ~Telling("sup")' /\ exits' = 0
    BY <1>4, <1>5, <1>7, Names DEF Telling
  <2>3. rec'.restarts = exits' - 0
    BY <2>1, <2>2
  <2>4. (IF Telling("sup")' THEN 1 ELSE 0) = 0
    BY <2>2
  <2> QED
    BY <2>3, <2>4, Zenon DEF ExitsKept
<1>13. LeasesKept'
  <2>1. Occurs(rec.steps, "network") = {}
    BY <1>3 DEF Occurs, Range
  <2>2. Occurs(rec'.steps, "network") = {}
    BY <1>7 DEF EmptyRecord, Occurs
  <2>3. Occurs(rec'.steps, "network") = Occurs(rec.steps, "network")
    BY <2>1, <2>2
  <2>4. Cardinality(Occurs(stages', NetStep)) = Cardinality(Occurs(stages, NetStep))
    BY <1>1, SilentStage DEF NextStage
  <2>5. Leases' = Leases /\ Unrecorded' = Unrecorded
    BY <1>7 DEF Leases, Unrecorded, Telling
  <2> QED
    BY <1>0, <2>3, <2>4, <2>5 DEF LeasesKept
<1> QED
  BY <1>8, <1>9, <1>10, <1>11, <1>12, <1>13 DEF RecordInv

\* A lease renewed is a lease more, still to be recorded.
LEMMA LeaseAppliedStep ==
    ASSUME RecordInv, NEW n \in Renewers, LeaseApplied(n)
    PROVE  RecordInv'
<1>0. /\ Types /\ Order /\ Recording /\ Excluded
      /\ CopiesArePast /\ FileIsPast /\ LeasesKept /\ ExitsKept
  BY DEF RecordInv
<1>1. /\ renewals \in [Renewers -> 0 .. MaxRenewals] /\ MaxRenewals \in Nat
      /\ stages \in Seq(Stages) /\ rec.steps \in Seq(StepNames)
  BY <1>0, BootRecordAssumptions DEF Types, RecordTypeOK
<1>2. /\ thread' \in [Threads -> [at : Places, snap : Records]]
      /\ thread'[n].at = "want" /\ thread[n].at = "idle"
      /\ \A u \in Threads \ {n} : thread'[u] = thread[u]
  BY <1>0, Moves, Names DEF LeaseApplied, Places
<1>3. UNCHANGED <<stages, started, rec, sink, mu, file, alive, exits>>
  BY DEF LeaseApplied
<1>5. renewals[n] < MaxRenewals /\ n \in started
  BY DEF LeaseApplied
<1>6. /\ renewals' \in [Renewers -> 0 .. MaxRenewals]
      /\ renewals'[n] = renewals[n] + 1
      /\ \A o \in Renewers \ {n} : renewals'[o] = renewals[o]
  BY <1>1, <1>5 DEF LeaseApplied
<1>7. Types'
  BY <1>0, <1>2, <1>3, <1>6 DEF Types, RecordTypeOK, Places
<1>8. Recording' /\ ExitsKept'
  <2>1. Telling("sup")' <=> Telling("sup")
    BY <1>2, Names DEF Telling
  <2>2. Recording'
    BY <1>0, <1>2, <1>3, <1>5, <2>1, Names DEF Recording
  <2> QED
    BY <1>0, <1>3, <2>1, <2>2 DEF ExitsKept
<1>9. CopiesArePast' /\ FileIsPast' /\ Excluded'
  BY <1>0, <1>2, <1>3, CopiesStay, Unchanged, MutexLeft DEF Holding
<1>11. LeasesKept'
  <2> DEFINE l == << n, renewals[n] + 1 >>
  <2>1. Leases' = Leases \cup {l} /\ l \notin Leases
    <3>1. renewals[n] \in Nat /\ renewals[n] + 1 \in 0 .. MaxRenewals /\ ~(renewals[n] + 1 <= renewals[n])
      BY <1>1, <1>5
    <3>2. ASSUME NEW k \in Renewers, NEW i \in 0 .. MaxRenewals
          PROVE  i <= renewals'[k] <=> i <= renewals[k] \/ (k = n /\ i = renewals[n] + 1)
      <4>1. CASE k = n
        BY <1>6, <3>1, <4>1
      <4>2. CASE k # n
        BY <1>6, <4>2
      <4> QED
        BY <4>1, <4>2
    <3>3. l \in Renewers \X (0 .. MaxRenewals)
      BY <3>1
    <3>4. \A p \in Renewers \X (0 .. MaxRenewals) :
             /\ p[1] \in Renewers /\ p[2] \in 0 .. MaxRenewals
             /\ p = l <=> p[1] = n /\ p[2] = renewals[n] + 1
      OBVIOUS
    <3>5. \A p \in Renewers \X (0 .. MaxRenewals) :
             p[2] <= renewals'[p[1]] <=> p[2] <= renewals[p[1]] \/ p = l
      BY <3>2, <3>4
    <3>6. l \notin Leases
      BY <3>1 DEF Leases
    <3> HIDE DEF l
    <3>7. Leases' = Leases \cup {l}
      BY <3>3, <3>5 DEF Leases
    <3> QED
      BY <3>6, <3>7
  <2> HIDE DEF l
  <2>2. Cardinality(Leases') = Cardinality(Leases) + 1
    BY <2>1, LeasesFinite, FS_AddElement
  <2>3. n \notin Unrecorded /\ Unrecorded' = Unrecorded \cup {n}
    BY <1>2, Names DEF Unrecorded, Telling
  <2>4. Cardinality(Unrecorded') = Cardinality(Unrecorded) + 1
    BY <2>3, LeasesFinite, FS_AddElement
  <2>5. /\ Cardinality(Occurs(stages, NetStep)) \in Nat
        /\ Cardinality(Occurs(rec.steps, "network")) \in Nat
        /\ Cardinality(Unrecorded) \in Nat
    BY <1>1, OccursFinite, LeasesFinite
  <2> QED
    BY <1>0, <1>3, <2>2, <2>4, <2>5 DEF LeasesKept
<1> QED
  BY <1>0, <1>3, <1>7, <1>8, <1>9, <1>11, OrderStays DEF RecordInv

\* The lease is recorded: a step more in the record.
LEMMA RenewedStep ==
    ASSUME RecordInv, NEW n \in Renewers, Renewed(n)
    PROVE  RecordInv'
<1>0. /\ Types /\ Order /\ Recording /\ Excluded
      /\ CopiesArePast /\ FileIsPast /\ LeasesKept /\ ExitsKept
  BY DEF RecordInv
<1> DEFINE new == [rec EXCEPT !.steps = Append(thread[n].snap.steps, "network")]
<1>1. /\ rec \in Records /\ rec.steps \in Seq(StepNames) /\ rec.restarts \in 0 .. MaxExits
      /\ stages \in Seq(Stages) /\ "network" \in StepNames
  BY <1>0 DEF Types, Records, StepNames
<1>3. /\ Record(n, new)
      /\ UNCHANGED <<stages, started, sink, file, alive, exits, renewals>>
  BY DEF Renewed
<1>2. /\ new \in Records /\ rec.restarts <= new.restarts /\ new.restarts = rec.restarts
      /\ new.steps = Append(rec.steps, "network")
  <2>1. Append(rec.steps, "network") \in Seq(StepNames)
    BY <1>1
  <2>3. thread[n].snap = rec
    BY <1>0, <1>3, Names DEF Excluded, Record
  <2>2. /\ new \in Records /\ new.restarts = rec.restarts
        /\ new.steps = Append(rec.steps, "network")
    BY <1>1, <2>1, <2>3 DEF Records
  <2> HIDE DEF new
  <2> QED
    BY <1>1, <2>2
<1> HIDE DEF new
<1>4. /\ rec' = new /\ mu' = Free
      /\ thread' \in [Threads -> [at : Places, snap : Records]]
      /\ thread[n].at = "have" /\ thread'[n].at \in {"idle", "flush"}
      /\ \A u \in Threads \ {n} : thread'[u] = thread[u]
      /\ Excluded' /\ CopiesArePast' /\ FileIsPast'
  BY <1>1, <1>2, <1>3, Names, Recorded
<1>5. n \in started
  BY <1>0, <1>4, Names DEF Recording
<1>6. Telling("sup")' <=> Telling("sup")
  BY <1>4, Names DEF Telling
<1>7. Types'
  <2>1. rec' \in Records /\ \A t \in Threads : thread'[t].at \in Places
    BY <1>0, <1>2, <1>3, <1>4
  <2>2. /\ rec'.steps \in Seq(StepNames) /\ rec'.switched \in BOOLEAN
        /\ rec'.named \in BOOLEAN /\ rec'.running \in BOOLEAN
        /\ rec'.restarts \in 0 .. MaxExits
    BY <2>1 DEF Records
  <2>3. RecordTypeOK'
    BY <1>0, <1>2, <1>3, <1>4, <2>1, <2>2 DEF Types, RecordTypeOK, Places
  <2> QED
    BY <1>0, <1>2, <1>3, <1>4, <2>3 DEF Types
<1>8. Order'
  <2>1. Exec \notin Range(stages)
    BY <1>0, <1>5, Names DEF Order
  <2> QED
    BY <1>0, <1>3, <2>1 DEF Order, Ordered
<1>9. Recording'
  BY <1>0, <1>3, <1>4, <1>5, <1>6, Names DEF Recording
<1>10. ExitsKept'
  BY <1>0, <1>2, <1>3, <1>4, <1>6 DEF ExitsKept
<1>11. LeasesKept'
  <2>1. n \in Unrecorded /\ Unrecorded' = Unrecorded \ {n}
    BY <1>4, Names DEF Unrecorded, Telling
  <2>2. Cardinality(Unrecorded') = Cardinality(Unrecorded) - 1
    BY <2>1, LeasesFinite, FS_RemoveElement
  <2>3. Cardinality(Occurs(rec'.steps, "network")) = Cardinality(Occurs(rec.steps, "network")) + 1
    <3>1. rec'.steps = Append(rec.steps, "network")
      BY <1>2, <1>4
    <3>2. Cardinality(Occurs(Append(rec.steps, "network"), "network")) =
             Cardinality(Occurs(rec.steps, "network"))
                + (IF "network" = "network" THEN 1 ELSE 0)
      BY <1>1, OccursAppend
    <3> QED
      BY <3>1, <3>2
  <2>4. /\ Cardinality(Occurs(stages, NetStep)) \in Nat
        /\ Cardinality(Occurs(rec.steps, "network")) \in Nat
    BY <1>1, OccursFinite
  <2>5. Cardinality(Occurs(stages', NetStep)) = Cardinality(Occurs(stages, NetStep))
    BY <1>3
  <2>6. Leases' = Leases
    BY <1>3 DEF Leases
  <2>7. Cardinality(Unrecorded) \in Nat
    BY LeasesFinite
  <2> QED
    BY <1>0, <2>2, <2>3, <2>4, <2>5, <2>6, <2>7 DEF LeasesKept
<1> QED
  BY <1>4, <1>7, <1>8, <1>9, <1>10, <1>11 DEF RecordInv

\* The exit of a workload is recorded.
LEMMA ChildExitedStep ==
    ASSUME RecordInv, ChildExited
    PROVE  RecordInv'
<1>0. /\ Types /\ Order /\ Recording /\ Excluded
      /\ CopiesArePast /\ FileIsPast /\ LeasesKept /\ ExitsKept
  BY DEF RecordInv
<1> DEFINE new == [rec EXCEPT !.running = FALSE, !.restarts = thread["sup"].snap.restarts + 1]
<1>1. /\ Record("sup", new)
      /\ UNCHANGED <<stages, started, sink, file, alive, exits, renewals>>
  BY DEF ChildExited
<1>2. /\ rec \in Records /\ rec.steps \in Seq(StepNames) /\ rec.restarts \in 0 .. MaxExits
      /\ exits \in 0 .. MaxExits /\ MaxExits \in Nat
  BY <1>0, BootRecordAssumptions DEF Types, RecordTypeOK, Records
<1>3. thread["sup"].at = "have" /\ thread["sup"].snap = rec
  BY <1>0, <1>1, Names DEF Record, Excluded
<1>4. exits > 0 /\ rec.restarts = exits - 1
  BY <1>0, <1>3 DEF Recording, ExitsKept, Telling
<1>5. rec.restarts + 1 \in 0 .. MaxExits /\ rec.restarts + 1 = exits /\ rec.restarts <= rec.restarts + 1
  BY <1>2, <1>4
<1>6. /\ new \in Records /\ new.restarts = exits /\ new.steps = rec.steps
      /\ rec.restarts <= new.restarts
  BY <1>2, <1>3, <1>5 DEF Records
<1> HIDE DEF new
<1>7. /\ rec' = new /\ mu' = Free
      /\ thread' \in [Threads -> [at : Places, snap : Records]]
      /\ thread'["sup"].at \in {"idle", "flush"}
      /\ \A u \in Threads \ {"sup"} : thread'[u] = thread[u]
      /\ Excluded' /\ CopiesArePast' /\ FileIsPast'
  BY <1>1, <1>6, Names, Recorded
<1>8. Types'
  <2>1. rec' \in Records /\ \A t \in Threads : thread'[t].at \in Places
    BY <1>0, <1>1, <1>6, <1>7
  <2>2. /\ rec'.steps \in Seq(StepNames) /\ rec'.switched \in BOOLEAN
        /\ rec'.named \in BOOLEAN /\ rec'.running \in BOOLEAN
        /\ rec'.restarts \in 0 .. MaxExits
    BY <2>1 DEF Records
  <2>3. RecordTypeOK'
    BY <1>0, <1>1, <1>6, <1>7, <2>1, <2>2 DEF Types, RecordTypeOK, Places
  <2> QED
    BY <1>0, <1>1, <1>6, <1>7, <2>3 DEF Types
<1>9. Order'
  BY <1>0, <1>1, <1>6, <1>7 DEF Order, Ordered
<1>10. Recording'
  <2>1. "sup" \in started /\ ~alive
    BY <1>0, <1>3, Names DEF Recording
  <2> QED
    BY <1>0, <1>1, <1>7, <2>1, Names DEF Recording, Telling
<1>11. ExitsKept'
  <2>1. ~Telling("sup")'
    BY <1>7 DEF Telling
  <2> QED
    BY <1>1, <1>2, <1>6, <1>7, <2>1 DEF ExitsKept
<1>12. LeasesKept'
  <2>1. Unrecorded' = Unrecorded
    BY <1>7, Names, UnrecordedStay DEF SameTelling
  <2> QED
    BY <1>0, <1>1, <1>6, <1>7, <2>1 DEF LeasesKept, Occurs, Leases
<1> QED
  BY <1>7, <1>8, <1>9, <1>10, <1>11, <1>12 DEF RecordInv

-----------------------------------------------------------------------------
(* The theorems.                                                           *)

\* The inductive invariant holds in every reachable state.
THEOREM RecordInvariance == RecordSpec => []RecordInv
<1>1. RecordInv /\ [RecordNext]_recordVars => RecordInv'
  <2> SUFFICES ASSUME RecordInv, [RecordNext]_recordVars  PROVE RecordInv'
    OBVIOUS
  <2>1. CASE UNCHANGED recordVars
    BY <2>1 DEF recordVars, RecordInv, Types, RecordTypeOK, Order, Ordered, Recording,
                Excluded, CopiesArePast, Past, FileIsPast, LeasesKept, Occurs, Leases,
                Unrecorded, Telling, ExitsKept
  <2>2. CASE \E t \in Threads : Read(t) \/ Flush(t)
    BY <2>2, ReadStep, FlushStep
  <2>3. CASE Boot
    <3>1. CASE BootLock
      <4>1. /\ Lock("boot") /\ thread["boot"].at = "idle"
            /\ UNCHANGED <<stages, started, rec, sink, file, alive, exits, renewals>>
        BY <3>1 DEF BootLock
      <4> QED
        BY <4>1, LockStep, Names
    <3> QED
      BY <2>2, <2>3, <3>1, Names, BootRecordsStep, RecordToStep, GoStep, ExecStep DEF Boot
  <2>4. ASSUME NEW n \in Renewers, LeaseApplied(n) \/ Renewer(n)  PROVE RecordInv'
    <3>1. CASE RenewLock(n)
      <4>1. /\ Lock(n) /\ thread[n].at = "want"
            /\ UNCHANGED <<stages, started, rec, sink, file, alive, exits, renewals>>
        BY <3>1 DEF RenewLock
      <4> QED
        BY <4>1, LockStep, Names
    <3> QED
      BY <2>2, <2>4, <3>1, Names, LeaseAppliedStep, RenewedStep DEF Renewer
  <2>5. CASE Supervisor
    <3>1. CASE ExitLock
      <4>1. /\ Lock("sup") /\ thread["sup"].at = "want"
            /\ UNCHANGED <<stages, started, rec, sink, file, alive, exits, renewals>>
        BY <3>1 DEF ExitLock
      <4> QED
        BY <4>1, LockStep, Names
    <3> QED
      BY <2>2, <2>5, <3>1, Names, ChildExitedStep DEF Supervisor
  <2> QED
    BY <2>1, <2>3, <2>4, <2>5, ChildStartStep, ChildExitStep DEF RecordNext
<1> QED
  BY <1>1, InitIs, PTL DEF RecordSpec

\* Whatever the goroutines' order, what boot.json shows is a record the node
\* really had.
THEOREM FileShowsThePast == RecordSpec => []FileIsPast
<1>1. RecordInv => FileIsPast
  BY DEF RecordInv
<1> QED
  BY <1>1, RecordInvariance, PTL

\* Whatever the goroutines' order, every lease and every exit is recorded.
THEOREM EverythingRecorded == RecordSpec => []NothingLost
<1>1. RecordInv => NothingLost
  <2> SUFFICES ASSUME RecordInv  PROVE NothingLost
    OBVIOUS
  <2>1. Types /\ Order /\ LeasesKept /\ ExitsKept
    BY DEF RecordInv
  <2>2. ASSUME "sup" \in started
        PROVE  Count("network") + Cardinality(Unrecorded) = Cardinality(Leases)
    <3>1. Occurs(stages, NetStep) = {}
      BY <2>1, <2>2 DEF Order, Occurs, Range
    <3>2. Cardinality(Occurs(stages, NetStep)) = 0
      BY <3>1, FS_EmptySet
    <3>3. Cardinality(Occurs(rec.steps, "network")) \in Nat /\ Cardinality(Unrecorded) \in Nat
      BY <2>1, OccursFinite, LeasesFinite DEF Types, RecordTypeOK
    <3>4. Count("network") = Cardinality(Occurs(rec.steps, "network"))
      BY DEF Count, Occurs
    <3> QED
      BY <2>1, <3>2, <3>3, <3>4 DEF LeasesKept
  <2> QED
    BY <2>1, <2>2 DEF NothingLost, Types, ExitsKept
<1> QED
  BY <1>1, RecordInvariance, PTL
=============================================================================
