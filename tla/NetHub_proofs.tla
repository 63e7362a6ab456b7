---------------------------- MODULE NetHub_proofs ----------------------------
(***************************************************************************)
(* For any number of guests, frames and socket buffers: what the hub       *)
(* writes to a guest is a sequence of whole frames, none of a sender's     *)
(* frames is missing from it, and Close leaves nothing behind.             *)
(***************************************************************************)
EXTENDS NetHub, FiniteSetTheorems, SequenceTheorems, TLAPS

\* The connections of guests that are not ports yet.
Outside == {"off", "accepted"}

\* A goroutine that floods has ports left, none of which has still to be
\* registered, and a frame to write to them; one that reads has none left.
Floods ==
    \A g \in Guests :
        /\ serve[g].at \in {"flood", "frame"} => serve[g].todo # << >> /\ serve[g].taken >= 1
        /\ \A i \in DOMAIN serve[g].todo : conn[serve[g].todo[i]] \notin Outside

\* The ports are the guests that are served, among them all that are connected;
\* the one the hub is about to register is the one it has accepted.
Ports ==
    /\ \A g \in Guests :
          /\ g \in ports <=> serve[g].at \in {"read", "flood", "frame"}
          /\ conn[g] \in Outside => serve[g].at = "off" /\ g \notin closing
          /\ conn[g] \in {"open", "gone"} => g \in ports
          /\ conn[g] = "accepted" => accept.at = "register" /\ accept.conn = g
    /\ accept.at = "register" => accept.conn \in Guests /\ conn[accept.conn] = "accepted"

\* port.mu is held by the goroutine that has written a header and not yet the frame.
Locks ==
    /\ \A g \in Guests : serve[g].at = "frame" => locked[To(g)] = g
    /\ \A h \in Guests :
          locked[h] # None => serve[locked[h]].at = "frame" /\ To(locked[h]) = h

\* Whole frames, and at the end of the stream perhaps a header.
Whole(s) ==
    \A i \in DOMAIN s : IF i % 2 = 1
                        THEN s[i].part = "header"
                        ELSE s[i] = [s[i - 1] EXCEPT !.part = "frame"]

\* A stream ends with a frame, or with the header that the holder of port.mu wrote.
Streams ==
    \A h \in Guests :
        /\ Whole(stream[h])
        /\ conn[h] # "open" => stream[h] = << >> /\ got[h] = 0
        /\ conn[h] = "open" /\ locked[h] = None => Len(stream[h]) % 2 = 0
        /\ conn[h] = "open" /\ locked[h] # None =>
              /\ Len(stream[h]) % 2 = 1
              /\ stream[h][Len(stream[h])] =
                    [part |-> "header", from |-> locked[h], n |-> serve[locked[h]].taken]

\* Close begins once, and what it found when it returned stays so.
Closes ==
    /\ closed <=> closer # "off"
    /\ closer = "returned" => accept.at = "done"
    /\ NothingLeft

\* A goroutine that floods has each port left once; no other has any left.
Once ==
    \A g \in Guests :
        /\ serve[g].at \notin {"flood", "frame"} => serve[g].todo = << >>
        /\ \A i, j \in DOMAIN serve[g].todo : serve[g].todo[i] = serve[g].todo[j] => i = j

\* Where the headers of the frames of g are in what h has been sent, and whether
\* the last frame of g has still to get there.
Headers(g, h) ==
    {i \in DOMAIN stream[h] : stream[h][i].part = "header" /\ stream[h][i].from = g}
Pending(g, h) ==
    \E i \in DOMAIN serve[g].todo : serve[g].todo[i] = h /\ ~(i = 1 /\ serve[g].at = "frame")

\* NothingDropped in terms of these, for ports that have gone as well.
Ordered(g, h) ==
    /\ \A i, j \in Headers(g, h) : i < j => stream[h][i].n < stream[h][j].n
    /\ Headers(g, h) # {} =>
          /\ g # h
          /\ \E first \in 1 .. MaxFrames :
                /\ \A i \in Headers(g, h) : stream[h][i].n \in first .. Passed(g, h)
                /\ \A n \in first .. Passed(g, h) : \E i \in Headers(g, h) : stream[h][i].n = n
InOrder == \A g, h \in Guests : Ordered(g, h)

IInv == TypeOK /\ Floods /\ Ports /\ Locks /\ Streams /\ Closes /\ Once /\ InOrder

-----------------------------------------------------------------------------
(* Sequences, orders and numbers.                                          *)

\* The guests are finitely many, and none of them is None.
LEMMA SomeGuests == IsFiniteSet(Guests) /\ Guests \subseteq Nat \ {None}
BY HubAssumptions, FS_Interval DEF Guests, None

\* The number after an even one is odd, and the other way about.
LEMMA Parity ==
    ASSUME NEW n \in Nat
    PROVE  /\ n % 2 = 0 => (n + 1) % 2 = 1
           /\ n % 2 = 1 => (n + 1) % 2 = 0
           /\ n % 2 \in {0, 1}
OBVIOUS

\* The range over a map gives each of its keys once, and nothing else.
LEMMA OrdersGive ==
    ASSUME NEW S, S \subseteq Guests, NEW s \in Orders(S)
    PROVE  /\ s \in Seq(S)
           /\ \A h \in S : \E i \in DOMAIN s : s[i] = h
           /\ \A i, j \in DOMAIN s : s[i] = s[j] => i = j
<1>1. IsFiniteSet(S)
  BY SomeGuests, FS_Subset
<1> DEFINE c == Cardinality(S)
<1>2. c \in Nat
  BY <1>1, FS_CardinalityType
<1>3. /\ s \in [1 .. c -> S]
      /\ \A i, j \in DOMAIN s : s[i] = s[j] => i = j
  BY DEF Orders
<1> HIDE DEF c
<1>4. s \in Injection(1 .. c, S)
  BY <1>3 DEF Injection, IsInjective
<1>5. Cardinality(1 .. c) = c
  BY <1>2, FS_Interval
<1>6. s \in Surjection(1 .. c, S)
  BY <1>1, <1>4, <1>5, FS_Injection DEF c
<1>7. s \in Seq(S)
  BY <1>2, <1>3
<1> QED
  BY <1>3, <1>6, <1>7 DEF Surjection

\* A guest that may send another frame has sent fewer than the bound.
LEMMA FrameLeft ==
    ASSUME TypeOK, NEW g \in Guests, Cardinality(FramesTaken) < MaxFrames
    PROVE  serve[g].taken + 1 \in 1 .. MaxFrames
<1>1. serve[g].taken \in 0 .. MaxFrames
  BY DEF TypeOK
<1> SUFFICES ASSUME serve[g].taken = MaxFrames  PROVE FALSE
  BY <1>1, HubAssumptions
<1> DEFINE F == FramesTaken
           s == [n \in 1 .. MaxFrames |-> <<g, n>>]
<1>2. IsFiniteSet(1 .. MaxFrames) /\ Cardinality(1 .. MaxFrames) = MaxFrames
  BY HubAssumptions, FS_Interval
<1>3. IsFiniteSet(Guests \X (1 .. MaxFrames))
  BY <1>2, SomeGuests, FS_Product
<1>4. IsFiniteSet(F)
  BY <1>3, FS_Subset DEF FramesTaken
<1>5. \A n \in 1 .. MaxFrames : s[n] \in F
  BY HubAssumptions DEF FramesTaken
<1>6. s \in Injection(1 .. MaxFrames, F)
  BY <1>5 DEF Injection, IsInjective
<1>7. Cardinality(1 .. MaxFrames) <= Cardinality(F)
  <2> HIDE DEF F, s
  <2> QED
    BY <1>4, <1>6, FS_Injection
<1>8. Cardinality(F) \in Nat
  BY <1>4, FS_CardinalityType
<1> QED
  BY <1>2, <1>7, <1>8, HubAssumptions

-----------------------------------------------------------------------------
(* What the parts of the actions do.                                       *)

\* The port a goroutine writes to, and what it has left after that.
LEMMA Addressee ==
    ASSUME TypeOK, Floods, NEW g \in Guests, serve[g].at \in {"flood", "frame"}
    PROVE  /\ To(g) \in Guests \ {g}
           /\ conn[To(g)] \notin Outside
           /\ serve[g].taken \in 1 .. MaxFrames
           /\ Tail(serve[g].todo) \in Seq(Guests)
           /\ \A i \in DOMAIN Tail(serve[g].todo) :
                 i + 1 \in DOMAIN serve[g].todo /\ Tail(serve[g].todo)[i] = serve[g].todo[i + 1]
<1> DEFINE s == serve[g].todo
<1>1. s \in Seq(Guests) /\ s # << >> /\ serve[g].taken \in 0 .. MaxFrames
  BY DEF TypeOK, Floods
<1>2. Len(s) \in Nat /\ Len(s) >= 1 /\ 1 \in DOMAIN s /\ Head(s) = s[1]
  BY <1>1
<1>3. /\ s[1] \in Guests
      /\ s[1] # g
      /\ conn[s[1]] \notin Outside
      /\ serve[g].taken >= 1
  BY <1>1, <1>2 DEF TypeOK, Floods
<1>4. /\ Tail(s) \in Seq(Guests)
      /\ \A i \in DOMAIN Tail(s) : i + 1 \in DOMAIN s /\ Tail(s)[i] = s[i + 1]
  BY <1>1
<1> QED
  BY <1>1, <1>2, <1>3, <1>4 DEF To

LEMMA Flooding ==
    ASSUME TypeOK, NEW g \in Guests, NEW n \in 0 .. MaxFrames, NEW others \in Seq(Guests),
           Flood(g, n, others)
    PROVE  /\ serve'[g].at = IF others = << >> THEN "read" ELSE "flood"
           /\ serve'[g].taken = n /\ serve'[g].todo = others
           /\ \A h \in Guests \ {g} : serve'[h] = serve[h]
           /\ serve' \in [Guests -> [at : {"off", "read", "flood", "frame", "done"},
                                    taken : 0 .. MaxFrames, todo : Seq(Guests)]]
<1> DEFINE r == [at |-> IF others = << >> THEN "read" ELSE "flood",
                 taken |-> n, todo |-> others]
<1>1. r \in [at : {"off", "read", "flood", "frame", "done"},
             taken : 0 .. MaxFrames, todo : Seq(Guests)]
  OBVIOUS
<1>2. serve' = [serve EXCEPT ![g] = r]
  BY DEF Flood
<1> HIDE DEF r
<1>3. serve'[g] = r /\ \A h \in Guests \ {g} : serve'[h] = serve[h]
  BY <1>2 DEF TypeOK
<1>4. serve' \in [Guests -> [at : {"off", "read", "flood", "frame", "done"},
                             taken : 0 .. MaxFrames, todo : Seq(Guests)]]
  BY <1>1, <1>2 DEF TypeOK
<1>5. /\ r.at = IF others = << >> THEN "read" ELSE "flood"
      /\ r.taken = n /\ r.todo = others
  BY DEF r
<1> QED
  BY <1>3, <1>4, <1>5

\* A goroutine that only moves on keeps the frame it has and the ports left.
LEMMA Moving ==
    ASSUME TypeOK, NEW g \in Guests, NEW at \in {"off", "read", "flood", "frame", "done"},
           serve' = [serve EXCEPT ![g].at = at]
    PROVE  /\ serve'[g].at = at /\ serve'[g].taken = serve[g].taken
           /\ serve'[g].todo = serve[g].todo
           /\ \A h \in Guests \ {g} : serve'[h] = serve[h]
           /\ serve' \in [Guests -> [at : {"off", "read", "flood", "frame", "done"},
                                    taken : 0 .. MaxFrames, todo : Seq(Guests)]]
<1> DEFINE R == [at : {"off", "read", "flood", "frame", "done"},
                 taken : 0 .. MaxFrames, todo : Seq(Guests)]
<1> DEFINE r == [serve[g] EXCEPT !.at = at]
<1>1. serve \in [Guests -> R]
  BY DEF TypeOK
<1>2. serve[g] \in R
  BY <1>1
<1>3. /\ r \in R
      /\ r.at = at /\ r.taken = serve[g].taken /\ r.todo = serve[g].todo
  BY <1>2
<1>4. serve' = [serve EXCEPT ![g] = r]
  OBVIOUS
<1> HIDE DEF r, R
<1>5. serve'[g] = r /\ serve' \in [Guests -> R] /\ \A h \in Guests \ {g} : serve'[h] = serve[h]
  BY <1>1, <1>3, <1>4
<1> QED
  BY <1>3, <1>5 DEF R

\* What a guest has read of what it has been sent.
LEMMA Lengths ==
    TypeOK => \A h \in Guests : /\ Len(stream[h]) \in Nat /\ got[h] \in Nat
                                /\ got[h] <= Len(stream[h])
                                /\ Len(stream[h]) - got[h] <= SockBuf
<1> SUFFICES ASSUME TypeOK, NEW h \in Guests
             PROVE  /\ Len(stream[h]) \in Nat /\ got[h] \in Nat
                    /\ got[h] <= Len(stream[h])
                    /\ Len(stream[h]) - got[h] <= SockBuf
  OBVIOUS
<1>1. stream[h] \in Seq(Writes) /\ got[h] \in Nat
  BY DEF TypeOK
<1>2. Len(stream[h]) \in Nat
  BY <1>1
<1> QED
  BY <1>1, <1>2 DEF TypeOK

\* No goroutine has its own port left to flood.
LEMMA NotItself ==
    TypeOK => \A h \in Guests : /\ serve[h].todo \in Seq(Guests)
                                /\ \A i \in DOMAIN serve[h].todo : serve[h].todo[i] # h
BY DEF TypeOK

\* A connection that has ended has nothing left to read.
LEMMA Ending ==
    ASSUME TypeOK, NEW g \in Guests, NEW how \in {"gone", "closed"}, End(g, how)
    PROVE  /\ conn'[g] = how /\ stream'[g] = << >> /\ got'[g] = 0
           /\ \A h \in Guests \ {g} :
                 conn'[h] = conn[h] /\ stream'[h] = stream[h] /\ got'[h] = got[h]
           /\ conn' \in [Guests -> {"off", "accepted", "open", "gone", "closed"}]
           /\ stream' \in [Guests -> Seq(Writes)]
           /\ got' \in [Guests -> Nat]
           /\ \A h \in Guests : got'[h] <= Len(stream'[h]) /\ Len(stream'[h]) - got'[h] <= SockBuf
<1>1. << >> \in Seq(Writes) /\ Len(<< >>) = 0
  OBVIOUS
<1>2. /\ conn'[g] = how /\ stream'[g] = << >> /\ got'[g] = 0
      /\ \A h \in Guests \ {g} :
            conn'[h] = conn[h] /\ stream'[h] = stream[h] /\ got'[h] = got[h]
      /\ conn' \in [Guests -> {"off", "accepted", "open", "gone", "closed"}]
      /\ stream' \in [Guests -> Seq(Writes)]
      /\ got' \in [Guests -> Nat]
  BY <1>1 DEF TypeOK, End
<1>3. got'[g] <= Len(stream'[g]) /\ Len(stream'[g]) - got'[g] <= SockBuf
  BY <1>1, <1>2, HubAssumptions
<1>4. \A h \in Guests \ {g} : got'[h] <= Len(stream'[h]) /\ Len(stream'[h]) - got'[h] <= SockBuf
  BY <1>2, Lengths
<1> QED
  BY <1>2, <1>3, <1>4

\* A write adds itself to what its addressee has been sent.
LEMMA Writing ==
    ASSUME TypeOK, Floods, NEW g \in Guests, serve[g].at \in {"flood", "frame"},
           NEW part \in {"header", "frame"}, Write(g, part)
    PROVE  /\ stream'[To(g)] = Append(stream[To(g)],
                                      [part |-> part, from |-> g, n |-> serve[g].taken])
           /\ stream[To(g)] \in Seq(Writes) /\ stream'[To(g)] \in Seq(Writes)
           /\ Len(stream'[To(g)]) = Len(stream[To(g)]) + 1
           /\ \A h \in Guests \ {To(g)} : stream'[h] = stream[h]
           /\ stream' \in [Guests -> Seq(Writes)]
<1> DEFINE w == [part |-> part, from |-> g, n |-> serve[g].taken]
<1>1. To(g) \in Guests /\ serve[g].taken \in 1 .. MaxFrames
  BY Addressee
<1>2. w \in Writes
  BY <1>1 DEF Writes
<1>3. stream' = [stream EXCEPT ![To(g)] = Append(@, w)]
  BY DEF Write
<1> HIDE DEF w
<1>4. stream \in [Guests -> Seq(Writes)]
  BY DEF TypeOK
<1>5. stream'[To(g)] = Append(stream[To(g)], w)
  BY <1>1, <1>3, <1>4
<1>6. /\ Append(stream[To(g)], w) \in Seq(Writes)
      /\ Len(Append(stream[To(g)], w)) = Len(stream[To(g)]) + 1
  BY <1>1, <1>2, <1>4
<1>7. \A h \in Guests \ {To(g)} : stream'[h] = stream[h]
  BY <1>1, <1>3, <1>4
<1>8. stream' \in [Guests -> Seq(Writes)]
  BY <1>1, <1>3, <1>4, <1>6
<1> QED
  BY <1>1, <1>4, <1>5, <1>6, <1>7, <1>8 DEF w

-----------------------------------------------------------------------------
(* The invariant holds at first, and every step keeps it.                  *)

LEMMA InvInit == Init => IInv
<1> SUFFICES ASSUME Init  PROVE IInv
  OBVIOUS
<1>1. << >> \in Seq(Guests) /\ << >> \in Seq(Writes) /\ Len(<< >>) = 0 /\ DOMAIN << >> = {}
  OBVIOUS
<1>2. TypeOK
  <2>1. /\ serve \in [Guests -> [at : {"off", "read", "flood", "frame", "done"},
                                 taken : 0 .. MaxFrames, todo : Seq(Guests)]]
        /\ \A g \in Guests : \A i \in DOMAIN serve[g].todo : serve[g].todo[i] # g
    BY <1>1, HubAssumptions DEF Init
  <2>2. /\ stream \in [Guests -> Seq(Writes)] /\ got \in [Guests -> Nat]
        /\ \A g \in Guests : got[g] <= Len(stream[g]) /\ Len(stream[g]) - got[g] <= SockBuf
    BY <1>1, HubAssumptions DEF Init
  <2>3. listening \in BOOLEAN /\ closed \in BOOLEAN
    BY DEF Init
  <2>4. /\ accept \in [at : {"accept", "register", "done"}, conn : Guests \cup {None}]
        /\ conn \in [Guests -> {"off", "accepted", "open", "gone", "closed"}]
        /\ locked \in [Guests -> Guests \cup {None}]
        /\ lost \in 0 .. MaxLost
    BY HubAssumptions DEF Init
  <2>5. ports \subseteq Guests /\ closing \subseteq Guests
        /\ closer \in {"off", "listener", "ports", "returned"}
    BY DEF Init
  <2> QED
    BY <2>1, <2>2, <2>3, <2>4, <2>5 DEF TypeOK
<1>3. Floods
  BY <1>1 DEF Init, Floods
<1>4. Ports
  BY DEF Init, Ports, Outside
<1>5. Locks
  BY DEF Init, Locks
<1>6. Streams
  BY <1>1 DEF Init, Streams, Whole
<1>7. Closes
  BY DEF Init, Closes, NothingLeft
<1>8. Once
  BY <1>1 DEF Init, Once
<1>9. InOrder
  <2>1. \A g, h \in Guests : Headers(g, h) = {}
    BY <1>1 DEF Init, Headers
  <2> QED
    BY <2>1 DEF InOrder, Ordered
<1> QED
  BY <1>2, <1>3, <1>4, <1>5, <1>6, <1>7, <1>8, <1>9 DEF IInv

LEMMA TypesStep == TypeOK /\ Floods /\ Ports /\ [Next]_vars => TypeOK'
<1> SUFFICES ASSUME TypeOK, Floods, Ports, [Next]_vars  PROVE TypeOK'
  OBVIOUS
<1>1. CASE AcceptEnds
  BY <1>1 DEF AcceptEnds, TypeOK, closeVars
<1>2. CASE Register
  <2>1. accept.conn \in Guests
    BY <1>2 DEF Register, Ports
  <2>2. CASE Registered(accept.conn) /\ UNCHANGED <<locked, stream, got, closeVars, lost>>
    <3> DEFINE g == accept.conn
    <3>1. /\ serve'[g].todo = serve[g].todo /\ \A h \in Guests \ {g} : serve'[h] = serve[h]
          /\ serve' \in [Guests -> [at : {"off", "read", "flood", "frame", "done"},
                                    taken : 0 .. MaxFrames, todo : Seq(Guests)]]
      BY <2>1, <2>2, Moving DEF Registered
    <3>2. \A h \in Guests : serve'[h].todo = serve[h].todo
      BY <3>1
    <3>3. /\ ports' \subseteq Guests
          /\ accept' \in [at : {"accept", "register", "done"}, conn : Guests \cup {None}]
          /\ conn' \in [Guests -> {"off", "accepted", "open", "gone", "closed"}]
      BY <2>1, <2>2 DEF Registered, TypeOK
    <3>4. UNCHANGED <<locked, stream, got, lost, listening, closed, closer, closing>>
      BY <2>2 DEF closeVars
    <3>5. \A h \in Guests : \A i \in DOMAIN serve'[h].todo : serve'[h].todo[i] # h
      BY <3>2 DEF TypeOK
    <3> QED
      BY <3>1, <3>3, <3>4, <3>5 DEF TypeOK
  <2>3. CASE /\ conn' = [conn EXCEPT ![accept.conn] = "closed"]
             /\ accept' = [at |-> "done", conn |-> None]
             /\ UNCHANGED <<ports, serve>>
             /\ UNCHANGED <<locked, stream, got, closeVars, lost>>
    BY <2>1, <2>3 DEF TypeOK, closeVars
  <2> QED
    BY <1>2, <2>2, <2>3 DEF Register
<1>3. CASE CloseBegins
  BY <1>3 DEF CloseBegins, TypeOK
<1>4. CASE CloseListener
  BY <1>4 DEF CloseListener, TypeOK
<1>5. CASE Wait
  BY <1>5 DEF Wait, TypeOK
<1>6. ASSUME NEW g \in Guests, ClosePort(g)  PROVE TypeOK'
  <2>1. /\ conn' \in [Guests -> {"off", "accepted", "open", "gone", "closed"}]
        /\ stream' \in [Guests -> Seq(Writes)]
        /\ got' \in [Guests -> Nat]
        /\ \A h \in Guests : got'[h] <= Len(stream'[h]) /\ Len(stream'[h]) - got'[h] <= SockBuf
    BY <1>6, Ending DEF ClosePort
  <2> QED
    BY <1>6, <2>1 DEF ClosePort, TypeOK
<1>7. ASSUME NEW g \in Guests, Accept(g)  PROVE TypeOK'
  BY <1>7 DEF Accept, TypeOK, closeVars
<1>8. ASSUME NEW g \in Guests, ReadStream(g)  PROVE TypeOK'
  <2>1. /\ got'[g] = got[g] + 1 /\ \A h \in Guests \ {g} : got'[h] = got[h]
        /\ got' \in [Guests -> Nat]
    BY <1>8 DEF ReadStream, TypeOK
  <2>2. \A h \in Guests : Len(stream[h]) \in Nat /\ got[h] \in Nat
    BY DEF TypeOK
  <2>3. \A h \in Guests : got'[h] <= Len(stream[h]) /\ Len(stream[h]) - got'[h] <= SockBuf
    BY <1>8, <2>1, <2>2, HubAssumptions DEF ReadStream, TypeOK
  <2> QED
    BY <1>8, <2>1, <2>3 DEF ReadStream, TypeOK, closeVars
<1>9. ASSUME NEW g \in Guests, Leave(g)  PROVE TypeOK'
  <2>1. /\ conn' \in [Guests -> {"off", "accepted", "open", "gone", "closed"}]
        /\ stream' \in [Guests -> Seq(Writes)]
        /\ got' \in [Guests -> Nat]
        /\ \A h \in Guests : got'[h] <= Len(stream'[h]) /\ Len(stream'[h]) - got'[h] <= SockBuf
    BY <1>9, Ending DEF Leave
  <2>2. lost' \in 0 .. MaxLost
    BY <1>9, HubAssumptions DEF Leave, Lose, TypeOK
  <2> QED
    BY <1>9, <2>1, <2>2 DEF Leave, TypeOK, closeVars
<1>10. ASSUME NEW g \in Guests, ReadFrame(g)  PROVE TypeOK'
  <2>1. PICK others \in Orders(ports \ {g}) : Flood(g, serve[g].taken + 1, others)
    BY <1>10 DEF ReadFrame
  <2>2. ports \ {g} \subseteq Guests
    BY DEF TypeOK
  <2>3. /\ others \in Seq(ports \ {g})
        /\ others \in Seq(Guests) /\ \A i \in DOMAIN others : others[i] # g
    BY <2>2, OrdersGive
  <2>4. serve[g].taken + 1 \in 0 .. MaxFrames
    BY <1>10, FrameLeft, HubAssumptions DEF ReadFrame
  <2>5. /\ serve'[g].todo = others
        /\ \A h \in Guests \ {g} : serve'[h] = serve[h]
        /\ serve' \in [Guests -> [at : {"off", "read", "flood", "frame", "done"},
                                  taken : 0 .. MaxFrames, todo : Seq(Guests)]]
    BY <2>1, <2>3, <2>4, Flooding
  <2>6. \A h \in Guests : \A i \in DOMAIN serve'[h].todo : serve'[h].todo[i] # h
    BY <2>3, <2>5, NotItself
  <2> QED
    BY <1>10, <2>5, <2>6 DEF ReadFrame, TypeOK, closeVars
<1>11. ASSUME NEW g \in Guests, PortEnds(g), lost' \in 0 .. MaxLost  PROVE TypeOK'
  <2>1. /\ conn' \in [Guests -> {"off", "accepted", "open", "gone", "closed"}]
        /\ stream' \in [Guests -> Seq(Writes)]
        /\ got' \in [Guests -> Nat]
        /\ \A h \in Guests : got'[h] <= Len(stream'[h]) /\ Len(stream'[h]) - got'[h] <= SockBuf
    BY <1>11, Ending DEF PortEnds
  <2>2. /\ serve'[g].todo = serve[g].todo /\ \A h \in Guests \ {g} : serve'[h] = serve[h]
        /\ serve' \in [Guests -> [at : {"off", "read", "flood", "frame", "done"},
                                  taken : 0 .. MaxFrames, todo : Seq(Guests)]]
    BY <1>11, Moving DEF PortEnds
  <2>3. \A h \in Guests : \A i \in DOMAIN serve'[h].todo : serve'[h].todo[i] # h
    BY <2>2, NotItself
  <2> QED
    BY <1>11, <2>1, <2>2, <2>3 DEF PortEnds, TypeOK, closeVars
<1>12. ASSUME NEW g \in Guests, BadLength(g)  PROVE TypeOK'
  <2>1. lost' \in 0 .. MaxLost
    BY <1>12, HubAssumptions DEF BadLength, Lose, TypeOK
  <2> QED
    BY <1>11, <1>12, <2>1 DEF BadLength
<1>13. ASSUME NEW g \in Guests, ReadEnds(g)  PROVE TypeOK'
  <2>1. lost' \in 0 .. MaxLost
    BY <1>13 DEF ReadEnds, TypeOK
  <2> QED
    BY <1>11, <1>13, <2>1 DEF ReadEnds
<1>14. ASSUME NEW g \in Guests, serve[g].at \in {"flood", "frame"},
              \/ /\ Room(To(g)) /\ \E part \in {"header", "frame"} : Write(g, part)
              \/ UNCHANGED stream
       PROVE  /\ stream' \in [Guests -> Seq(Writes)]
              /\ \A h \in Guests : /\ got[h] <= Len(stream'[h])
                                   /\ Len(stream'[h]) - got[h] <= SockBuf
  <2>1. CASE UNCHANGED stream
    BY <2>1 DEF TypeOK
  <2>2. ASSUME Room(To(g)), NEW part \in {"header", "frame"}, Write(g, part)
        PROVE  /\ stream' \in [Guests -> Seq(Writes)]
               /\ \A h \in Guests : /\ got[h] <= Len(stream'[h])
                                    /\ Len(stream'[h]) - got[h] <= SockBuf
    <3>1. /\ Len(stream'[To(g)]) = Len(stream[To(g)]) + 1
          /\ \A h \in Guests \ {To(g)} : stream'[h] = stream[h]
          /\ stream' \in [Guests -> Seq(Writes)]
      BY <1>14, <2>2, Writing
    <3>2. To(g) \in Guests
      BY <1>14, Addressee
    <3>3. /\ Len(stream[To(g)]) \in Nat /\ got[To(g)] \in Nat
          /\ got[To(g)] <= Len(stream[To(g)])
          /\ Len(stream[To(g)]) - got[To(g)] < SockBuf
      BY <2>2, <3>2, Lengths DEF Room
    <3>4. /\ got[To(g)] <= Len(stream'[To(g)])
          /\ Len(stream'[To(g)]) - got[To(g)] <= SockBuf
      BY <3>1, <3>3, HubAssumptions
    <3>5. \A h \in Guests \ {To(g)} : /\ got[h] <= Len(stream'[h])
                                       /\ Len(stream'[h]) - got[h] <= SockBuf
      BY <3>1, Lengths
    <3> QED
      BY <3>1, <3>4, <3>5
  <2> QED
    BY <1>14, <2>1, <2>2
<1>15. ASSUME NEW g \in Guests, serve[g].at \in {"flood", "frame"},
              Flood(g, serve[g].taken, Tail(serve[g].todo))
       PROVE  /\ serve' \in [Guests -> [at : {"off", "read", "flood", "frame", "done"},
                                        taken : 0 .. MaxFrames, todo : Seq(Guests)]]
              /\ \A h \in Guests : \A i \in DOMAIN serve'[h].todo : serve'[h].todo[i] # h
  <2>1. /\ serve[g].taken \in 0 .. MaxFrames
        /\ Tail(serve[g].todo) \in Seq(Guests)
        /\ \A i \in DOMAIN Tail(serve[g].todo) :
              i + 1 \in DOMAIN serve[g].todo /\ Tail(serve[g].todo)[i] = serve[g].todo[i + 1]
    BY <1>15, Addressee, HubAssumptions
  <2>2. /\ serve'[g].todo = Tail(serve[g].todo)
        /\ \A h \in Guests \ {g} : serve'[h] = serve[h]
        /\ serve' \in [Guests -> [at : {"off", "read", "flood", "frame", "done"},
                                  taken : 0 .. MaxFrames, todo : Seq(Guests)]]
    BY <1>15, <2>1, Flooding
  <2>3. \A i \in DOMAIN serve'[g].todo : serve'[g].todo[i] # g
    BY <2>1, <2>2, NotItself
  <2> QED
    BY <2>2, <2>3, NotItself
<1>16. ASSUME NEW g \in Guests, WriteHeader(g)  PROVE TypeOK'
  <2>1. To(g) \in Guests
    BY <1>16, Addressee DEF WriteHeader
  <2>2. /\ stream' \in [Guests -> Seq(Writes)]
        /\ \A h \in Guests : got[h] <= Len(stream'[h]) /\ Len(stream'[h]) - got[h] <= SockBuf
    BY <1>14, <1>16 DEF WriteHeader
  <2>3. locked' \in [Guests -> Guests \cup {None}]
    <3>1. UNCHANGED locked \/ locked' = [locked EXCEPT ![To(g)] = g]
      BY <1>16 DEF WriteHeader
    <3> QED
      BY <2>1, <3>1 DEF TypeOK
  <2>4. /\ serve' \in [Guests -> [at : {"off", "read", "flood", "frame", "done"},
                                  taken : 0 .. MaxFrames, todo : Seq(Guests)]]
        /\ \A h \in Guests : \A i \in DOMAIN serve'[h].todo : serve'[h].todo[i] # h
    <3>1. CASE Flood(g, serve[g].taken, Tail(serve[g].todo))
      BY <1>15, <1>16, <3>1 DEF WriteHeader
    <3>2. CASE serve' = [serve EXCEPT ![g].at = "frame"]
      <4>1. /\ serve'[g].todo = serve[g].todo /\ \A h \in Guests \ {g} : serve'[h] = serve[h]
            /\ serve' \in [Guests -> [at : {"off", "read", "flood", "frame", "done"},
                                      taken : 0 .. MaxFrames, todo : Seq(Guests)]]
        BY <3>2, Moving
      <4> QED
        BY <4>1, NotItself
    <3> QED
      BY <1>16, <3>1, <3>2 DEF WriteHeader
  <2> QED
    BY <1>16, <2>2, <2>3, <2>4 DEF WriteHeader, TypeOK, closeVars
<1>17. ASSUME NEW g \in Guests, WriteFrame(g)  PROVE TypeOK'
  <2>1. To(g) \in Guests
    BY <1>17, Addressee DEF WriteFrame
  <2>2. /\ stream' \in [Guests -> Seq(Writes)]
        /\ \A h \in Guests : got[h] <= Len(stream'[h]) /\ Len(stream'[h]) - got[h] <= SockBuf
    BY <1>14, <1>17 DEF WriteFrame
  <2>3. locked' \in [Guests -> Guests \cup {None}]
    BY <1>17, <2>1 DEF WriteFrame, TypeOK
  <2>4. /\ serve' \in [Guests -> [at : {"off", "read", "flood", "frame", "done"},
                                  taken : 0 .. MaxFrames, todo : Seq(Guests)]]
        /\ \A h \in Guests : \A i \in DOMAIN serve'[h].todo : serve'[h].todo[i] # h
    BY <1>15, <1>17 DEF WriteFrame
  <2> QED
    BY <1>17, <2>2, <2>3, <2>4 DEF WriteFrame, TypeOK, closeVars
<1>18. CASE UNCHANGED vars
  BY <1>18 DEF vars, TypeOK
<1> QED
  BY <1>1, <1>2, <1>3, <1>4, <1>5, <1>6, <1>7, <1>8, <1>9, <1>10, <1>12, <1>13, <1>16, <1>17,
     <1>18 DEF Next, Acceptor, Close, Guest, Serve

LEMMA FloodsStep == TypeOK /\ Floods /\ Ports /\ [Next]_vars => Floods'
<1> SUFFICES ASSUME TypeOK, Floods, Ports, [Next]_vars  PROVE Floods'
  OBVIOUS
<1> DEFINE Left(g) ==
      /\ serve[g].at \in {"flood", "frame"} => serve[g].todo # << >> /\ serve[g].taken >= 1
      /\ \A i \in DOMAIN serve[g].todo : conn[serve[g].todo[i]] \notin Outside
<1>0. \A g \in Guests : /\ Left(g) /\ serve[g].todo \in Seq(Guests)
                        /\ \A i \in DOMAIN serve[g].todo : serve[g].todo[i] \in Guests
  <2>1. \A g \in Guests : Left(g)
    BY DEF Floods
  <2>2. \A g \in Guests : serve[g].todo \in Seq(Guests)
    BY DEF TypeOK
  <2>3. \A g \in Guests : \A i \in DOMAIN serve[g].todo : serve[g].todo[i] \in Guests
    BY <2>2
  <2> HIDE DEF Left
  <2> QED
    BY <2>1, <2>2, <2>3
<1>1. SUFFICES ASSUME NEW g \in Guests  PROVE Left(g)'
  BY DEF Floods
\* No connection becomes one of a guest that is no port yet, but for a new one.
<1>2. ASSUME serve'[g] = serve[g], \A h \in Guests : conn'[h] \in Outside => conn[h] \in Outside
      PROVE  Left(g)'
  BY <1>0, <1>2
<1>3. CASE UNCHANGED serve /\ UNCHANGED conn
  BY <1>2, <1>3
<1>4. CASE AcceptEnds \/ CloseBegins \/ CloseListener \/ Wait \/ UNCHANGED vars
  BY <1>3, <1>4 DEF AcceptEnds, CloseBegins, CloseListener, Wait, vars
<1>5. CASE Register
  <2> DEFINE a == accept.conn
  <2>1. a \in Guests
    BY <1>5 DEF Register, Ports
  <2>2. CASE Registered(a)
    <3>1. conn' = [conn EXCEPT ![a] = "open"] /\ serve' = [serve EXCEPT ![a].at = "read"]
      BY <2>2 DEF Registered
    <3>2. \A h \in Guests : conn'[h] \in Outside => conn[h] \in Outside
      BY <2>1, <3>1 DEF TypeOK, Outside
    <3>3. /\ serve'[a].at = "read" /\ serve'[a].todo = serve[a].todo
          /\ \A h \in Guests \ {a} : serve'[h] = serve[h]
      BY <2>1, <3>1, Moving
    <3> HIDE DEF a
    <3>4. CASE g # a
      BY <1>2, <3>2, <3>3, <3>4
    <3>5. CASE g = a
      BY <1>0, <3>2, <3>3, <3>5
    <3> QED
      BY <3>4, <3>5
  <2>3. CASE conn' = [conn EXCEPT ![a] = "closed"] /\ UNCHANGED serve
    <3>1. \A h \in Guests : conn'[h] \in Outside => conn[h] \in Outside
      BY <2>1, <2>3 DEF TypeOK, Outside
    <3> QED
      BY <1>2, <2>3, <3>1
  <2> QED
    BY <1>5, <2>2, <2>3 DEF Register
<1>6. ASSUME NEW h \in Guests, ClosePort(h) \/ Leave(h)  PROVE Left(g)'
  <2>1. UNCHANGED serve /\ \E how \in {"gone", "closed"} : End(h, how)
    BY <1>6 DEF ClosePort, Leave
  <2>2. \A k \in Guests : conn'[k] \in Outside => conn[k] \in Outside
    BY <2>1, Ending DEF Outside
  <2> QED
    BY <1>2, <2>1, <2>2
<1>7. ASSUME NEW h \in Guests, Accept(h)  PROVE Left(g)'
  <2>1. conn[h] = "off" /\ conn' = [conn EXCEPT ![h] = "accepted"] /\ UNCHANGED serve
    BY <1>7, SomeGuests DEF Accept
  <2>2. \A k \in Guests : conn'[k] \in Outside => conn[k] \in Outside
    BY <2>1 DEF TypeOK, Outside
  <2> QED
    BY <1>2, <2>1, <2>2
<1>8. ASSUME NEW h \in Guests, ReadStream(h)  PROVE Left(g)'
  BY <1>3, <1>8 DEF ReadStream
<1>9. ASSUME NEW h \in Guests, ReadFrame(h)  PROVE Left(g)'
  <2>1. PICK others \in Orders(ports \ {h}) : Flood(h, serve[h].taken + 1, others)
    BY <1>9 DEF ReadFrame
  <2>2. ports \ {h} \subseteq Guests
    BY DEF TypeOK
  <2>3. others \in Seq(ports \ {h}) /\ others \in Seq(Guests)
    BY <2>2, OrdersGive
  <2>4. serve[h].taken + 1 \in 1 .. MaxFrames /\ serve[h].taken + 1 \in 0 .. MaxFrames
    BY <1>9, FrameLeft, HubAssumptions DEF ReadFrame
  <2>5. /\ serve'[h].at = IF others = << >> THEN "read" ELSE "flood"
        /\ serve'[h].taken = serve[h].taken + 1 /\ serve'[h].todo = others
        /\ \A k \in Guests \ {h} : serve'[k] = serve[k]
    BY <2>1, <2>3, <2>4, Flooding
  <2>6. UNCHANGED conn
    BY <1>9 DEF ReadFrame
  <2>7. \A i \in DOMAIN others : others[i] \in ports
    BY <2>3
  <2>8. \A k \in ports : conn[k] \notin Outside
    BY DEF Ports, TypeOK
  <2>9. CASE g # h
    BY <1>2, <2>5, <2>6, <2>9
  <2>10. CASE g = h
    BY <2>4, <2>5, <2>6, <2>7, <2>8, <2>10
  <2> QED
    BY <2>9, <2>10
<1>10. ASSUME NEW h \in Guests, PortEnds(h)  PROVE Left(g)'
  <2>1. \A k \in Guests : conn'[k] \in Outside => conn[k] \in Outside
    BY <1>10, Ending DEF PortEnds, Outside
  <2>2. /\ serve'[h].at = "done" /\ serve'[h].todo = serve[h].todo
        /\ \A k \in Guests \ {h} : serve'[k] = serve[k]
    BY <1>10, Moving DEF PortEnds
  <2>3. CASE g # h
    BY <1>2, <2>1, <2>2, <2>3
  <2>4. CASE g = h
    BY <1>0, <2>1, <2>2, <2>4
  <2> QED
    BY <2>3, <2>4
<1>11. ASSUME NEW h \in Guests, UNCHANGED conn, serve[h].at \in {"flood", "frame"},
              Flood(h, serve[h].taken, Tail(serve[h].todo))
       PROVE  Left(g)'
  <2>1. /\ serve[h].taken \in 0 .. MaxFrames /\ serve[h].taken >= 1
        /\ Tail(serve[h].todo) \in Seq(Guests)
        /\ \A i \in DOMAIN Tail(serve[h].todo) :
              i + 1 \in DOMAIN serve[h].todo /\ Tail(serve[h].todo)[i] = serve[h].todo[i + 1]
    BY <1>11, Addressee, HubAssumptions
  <2>2. /\ serve'[h].at = IF Tail(serve[h].todo) = << >> THEN "read" ELSE "flood"
        /\ serve'[h].taken = serve[h].taken /\ serve'[h].todo = Tail(serve[h].todo)
        /\ \A k \in Guests \ {h} : serve'[k] = serve[k]
    BY <1>11, <2>1, Flooding
  <2>3. CASE g # h
    BY <1>2, <1>11, <2>2, <2>3
  <2>4. \A i \in DOMAIN Tail(serve[h].todo) : conn[Tail(serve[h].todo)[i]] \notin Outside
    BY <1>0, <2>1
  <2>5. CASE g = h
    BY <1>11, <2>1, <2>2, <2>4, <2>5
  <2> QED
    BY <2>3, <2>5
<1>12. ASSUME NEW h \in Guests, WriteHeader(h)  PROVE Left(g)'
  <2>1. CASE Flood(h, serve[h].taken, Tail(serve[h].todo))
    BY <1>11, <1>12, <2>1 DEF WriteHeader
  <2>2. CASE serve' = [serve EXCEPT ![h].at = "frame"]
    <3>1. /\ serve'[h].at = "frame" /\ serve'[h].taken = serve[h].taken
          /\ serve'[h].todo = serve[h].todo
          /\ \A k \in Guests \ {h} : serve'[k] = serve[k]
      BY <2>2, Moving
    <3>2. UNCHANGED conn /\ serve[h].at = "flood"
      BY <1>12 DEF WriteHeader
    <3>3. CASE g # h
      BY <1>2, <3>1, <3>2, <3>3
    <3>4. CASE g = h
      BY <1>0, <3>1, <3>2, <3>4
    <3> QED
      BY <3>3, <3>4
  <2> QED
    BY <1>12, <2>1, <2>2 DEF WriteHeader
<1>13. ASSUME NEW h \in Guests, WriteFrame(h)  PROVE Left(g)'
  BY <1>11, <1>13 DEF WriteFrame
<1> QED
  BY <1>4, <1>5, <1>6, <1>7, <1>8, <1>9, <1>10, <1>12, <1>13
     DEF Next, Acceptor, Close, Guest, Serve, BadLength, ReadEnds

LEMMA PortsStep == TypeOK /\ Floods /\ Ports /\ [Next]_vars => Ports'
<1> SUFFICES ASSUME TypeOK, Floods, Ports, [Next]_vars  PROVE Ports'
  OBVIOUS
<1> DEFINE Live == {"read", "flood", "frame"}
           Port(g) == /\ g \in ports <=> serve[g].at \in Live
                      /\ conn[g] \in Outside => serve[g].at = "off" /\ g \notin closing
                      /\ conn[g] \in {"open", "gone"} => g \in ports
                      /\ conn[g] = "accepted" => accept.at = "register" /\ accept.conn = g
           New == accept.at = "register" =>
                     accept.conn \in Guests /\ conn[accept.conn] = "accepted"
<1>0. (\A g \in Guests : Port(g)) /\ New
  BY DEF Ports
<1>1. (\A g \in Guests : Port(g))' /\ New' => Ports'
  BY DEF Ports
<1>2. \A g \in Guests : Port(g)
  BY <1>0
<1>3. New
  BY <1>0
<1>4. ASSUME UNCHANGED ports, UNCHANGED conn, UNCHANGED closing, UNCHANGED accept,
             \A g \in Guests : /\ serve'[g].at \in Live <=> serve[g].at \in Live
                               /\ serve[g].at = "off" => serve'[g].at = "off"
      PROVE  Ports'
  <2>1. ASSUME NEW g \in Guests  PROVE Port(g)'
    <3>1. /\ ports' = ports /\ conn' = conn /\ closing' = closing /\ accept' = accept
          /\ serve'[g].at \in Live <=> serve[g].at \in Live
          /\ serve[g].at = "off" => serve'[g].at = "off"
      BY <1>4
    <3>2. Port(g)
      BY <1>2
    <3> QED
      BY <3>1, <3>2
  <2>2. New'
    BY <1>3, <1>4
  <2> QED
    BY <1>1, <2>1, <2>2
<1>5. CASE CloseListener \/ Wait \/ UNCHANGED vars
  BY <1>4, <1>5 DEF CloseListener, Wait, vars
<1>6. CASE AcceptEnds
  <2>1. accept.at = "accept" /\ accept'.at = "done"
    BY <1>6 DEF AcceptEnds, TypeOK
  <2>2. UNCHANGED <<ports, conn, closing, serve>>
    BY <1>6 DEF AcceptEnds, closeVars
  <2>3. (\A g \in Guests : Port(g))'
    BY <1>2, <2>1, <2>2
  <2> QED
    BY <1>1, <2>1, <2>3
<1>7. CASE Register
  <2> DEFINE a == accept.conn
  <2>1. accept.at = "register" /\ a \in Guests /\ conn[a] = "accepted" /\ UNCHANGED closing
    BY <1>3, <1>7 DEF Register, closeVars
  <2>2. /\ serve[a].at = "off" /\ a \notin closing
        /\ \A g \in Guests \ {a} : conn[g] # "accepted"
    BY <1>2, <2>1 DEF Outside
  <2>3. CASE Registered(a)
    <3>1. /\ ports' = ports \cup {a} /\ accept'.at = "accept"
          /\ conn' = [conn EXCEPT ![a] = "open"] /\ serve' = [serve EXCEPT ![a].at = "read"]
      BY <2>3 DEF Registered
    <3>2. conn'[a] = "open" /\ \A g \in Guests \ {a} : conn'[g] = conn[g]
      BY <2>1, <3>1 DEF TypeOK
    <3>3. serve'[a].at = "read" /\ \A g \in Guests \ {a} : serve'[g] = serve[g]
      BY <2>1, <3>1, Moving
    <3> HIDE DEF a
    <3>4. a \in ports' /\ serve'[a].at \in Live /\ conn'[a] \notin Outside \cup {"gone"}
      BY <3>1, <3>2, <3>3 DEF Outside
    <3>5. ASSUME NEW g \in Guests, g # a  PROVE Port(g)'
      BY <1>2, <2>1, <2>2, <3>1, <3>2, <3>3, <3>5
    <3>6. ASSUME NEW g \in Guests, g = a  PROVE Port(g)'
      BY <3>4, <3>6 DEF Outside
    <3>7. (\A g \in Guests : Port(g))'
      BY <3>5, <3>6
    <3> QED
      BY <1>1, <3>1, <3>7
  <2>4. CASE /\ conn' = [conn EXCEPT ![a] = "closed"]
             /\ accept' = [at |-> "done", conn |-> None]
             /\ UNCHANGED <<ports, serve>>
    <3>1. conn'[a] = "closed" /\ \A g \in Guests \ {a} : conn'[g] = conn[g]
      BY <2>1, <2>4 DEF TypeOK
    <3>2. accept'.at = "done"
      BY <2>4
    <3> HIDE DEF a
    <3>3. (\A g \in Guests : Port(g))'
      BY <1>2, <2>1, <2>2, <2>4, <3>1, <3>2 DEF Outside
    <3> QED
      BY <1>1, <3>2, <3>3
  <2> QED
    BY <1>7, <2>3, <2>4 DEF Register
<1>8. CASE CloseBegins
  <2>1. closing' = ports /\ UNCHANGED <<ports, accept, conn, serve>>
    BY <1>8 DEF CloseBegins
  <2>2. (\A g \in Guests : Port(g))'
    BY <1>2, <2>1
  <2>3. New'
    BY <1>3, <2>1
  <2> QED
    BY <1>1, <2>2, <2>3
<1>9. ASSUME NEW h \in Guests, ClosePort(h)  PROVE Ports'
  <2>1. /\ h \in closing /\ closing' \subseteq closing /\ UNCHANGED <<ports, accept, serve>>
        /\ conn'[h] = "closed" /\ \A g \in Guests \ {h} : conn'[g] = conn[g]
    BY <1>9, Ending DEF ClosePort
  <2>2. (\A g \in Guests : Port(g))'
    BY <1>2, <2>1 DEF Outside
  <2>3. New'
    BY <1>2, <1>3, <2>1 DEF Outside
  <2> QED
    BY <1>1, <2>2, <2>3
<1>10. ASSUME NEW h \in Guests, Leave(h)  PROVE Ports'
  <2>1. /\ conn[h] = "open" /\ UNCHANGED <<ports, accept, serve, closing>>
        /\ conn'[h] = "gone" /\ \A g \in Guests \ {h} : conn'[g] = conn[g]
    BY <1>10, Ending DEF Leave, closeVars
  <2>2. (\A g \in Guests : Port(g))'
    BY <1>2, <2>1 DEF Outside
  <2>3. New'
    BY <1>3, <2>1
  <2> QED
    BY <1>1, <2>2, <2>3
<1>11. ASSUME NEW h \in Guests, Accept(h)  PROVE Ports'
  <2>1. /\ conn[h] = "off" /\ accept.at = "accept"
        /\ accept'.at = "register" /\ accept'.conn = h
        /\ UNCHANGED <<ports, serve, closing>>
        /\ conn' = [conn EXCEPT ![h] = "accepted"]
    BY <1>11, SomeGuests DEF Accept, closeVars
  <2>2. conn'[h] = "accepted" /\ \A g \in Guests \ {h} : conn'[g] = conn[g]
    BY <2>1 DEF TypeOK
  <2>3. (\A g \in Guests : Port(g))'
    BY <1>2, <2>1, <2>2 DEF Outside
  <2> QED
    BY <1>1, <2>1, <2>2, <2>3
<1>12. ASSUME NEW h \in Guests, ReadStream(h)  PROVE Ports'
  BY <1>4, <1>12 DEF ReadStream, closeVars
<1>13. ASSUME NEW h \in Guests, UNCHANGED <<ports, conn, closing, accept>>,
              serve[h].at \in Live, serve'[h].at \in Live,
              \A g \in Guests \ {h} : serve'[g] = serve[g]
       PROVE  Ports'
  <2>1. \A g \in Guests : serve'[g].at \in Live <=> serve[g].at \in Live
    BY <1>13
  <2>2. \A g \in Guests : serve[g].at = "off" => serve'[g].at = "off"
    BY <1>13
  <2> QED
    BY <1>4, <1>13, <2>1, <2>2
<1>14. ASSUME NEW h \in Guests, ReadFrame(h)  PROVE Ports'
  <2>1. PICK others \in Orders(ports \ {h}) : Flood(h, serve[h].taken + 1, others)
    BY <1>14 DEF ReadFrame
  <2>2. ports \ {h} \subseteq Guests
    BY DEF TypeOK
  <2>3. others \in Seq(ports \ {h}) /\ others \in Seq(Guests)
    BY <2>2, OrdersGive
  <2>4. serve[h].taken + 1 \in 0 .. MaxFrames
    BY <1>14, FrameLeft, HubAssumptions DEF ReadFrame
  <2>5. /\ serve'[h].at = IF others = << >> THEN "read" ELSE "flood"
        /\ \A k \in Guests \ {h} : serve'[k] = serve[k]
    BY <2>1, <2>3, <2>4, Flooding
  <2> QED
    BY <1>13, <1>14, <2>5 DEF ReadFrame, closeVars
<1>15. ASSUME NEW h \in Guests, PortEnds(h), conn[h] # "accepted"  PROVE Ports'
  <2>1. /\ ports' = ports \ {h} /\ UNCHANGED <<accept, closing>>
        /\ conn'[h] = "closed" /\ \A g \in Guests \ {h} : conn'[g] = conn[g]
    BY <1>15, Ending DEF PortEnds, closeVars
  <2>2. serve'[h].at = "done" /\ \A g \in Guests \ {h} : serve'[g] = serve[g]
    BY <1>15, Moving DEF PortEnds
  <2>3. Port(h)'
    BY <2>1, <2>2 DEF Outside
  <2>4. ASSUME NEW g \in Guests \ {h}  PROVE Port(g)'
    BY <1>2, <2>1, <2>2
  <2>5. New'
    BY <1>3, <1>15, <2>1
  <2> QED
    BY <1>1, <2>3, <2>4, <2>5
<1>16. ASSUME NEW h \in Guests, BadLength(h) \/ ReadEnds(h)  PROVE Ports'
  BY <1>15, <1>16 DEF BadLength, ReadEnds
<1>17. ASSUME NEW h \in Guests, UNCHANGED <<ports, conn, closing, accept>>,
              serve[h].at \in {"flood", "frame"},
              Flood(h, serve[h].taken, Tail(serve[h].todo))
       PROVE  Ports'
  <2>1. serve[h].taken \in 0 .. MaxFrames /\ Tail(serve[h].todo) \in Seq(Guests)
    BY <1>17, Addressee, HubAssumptions
  <2>2. /\ serve'[h].at = IF Tail(serve[h].todo) = << >> THEN "read" ELSE "flood"
        /\ \A k \in Guests \ {h} : serve'[k] = serve[k]
    BY <1>17, <2>1, Flooding
  <2> QED
    BY <1>13, <1>17, <2>2
<1>18. ASSUME NEW h \in Guests, WriteHeader(h)  PROVE Ports'
  <2>1. serve[h].at = "flood" /\ UNCHANGED <<ports, conn, closing, accept>>
    BY <1>18 DEF WriteHeader, closeVars
  <2>2. CASE Flood(h, serve[h].taken, Tail(serve[h].todo))
    BY <1>17, <2>1, <2>2
  <2>3. CASE serve' = [serve EXCEPT ![h].at = "frame"]
    <3>1. serve'[h].at = "frame" /\ \A k \in Guests \ {h} : serve'[k] = serve[k]
      BY <2>3, Moving
    <3> QED
      BY <1>13, <2>1, <3>1
  <2> QED
    BY <1>18, <2>2, <2>3 DEF WriteHeader
<1>19. ASSUME NEW h \in Guests, WriteFrame(h)  PROVE Ports'
  BY <1>17, <1>19 DEF WriteFrame, closeVars
<1> QED
  BY <1>5, <1>6, <1>7, <1>8, <1>9, <1>10, <1>11, <1>12, <1>14, <1>16, <1>18, <1>19
     DEF Next, Acceptor, Close, Guest, Serve

\* A flood whose goroutine holds no lock takes none away from another.
LEMMA LocksStep == TypeOK /\ Floods /\ Ports /\ Locks /\ [Next]_vars => Locks'
<1> SUFFICES ASSUME TypeOK, Floods, Ports, Locks, [Next]_vars  PROVE Locks'
  OBVIOUS
<1>0. /\ \A g \in Guests : serve[g].at = "frame" => locked[To(g)] = g
      /\ \A h \in Guests :
            locked[h] # None => serve[locked[h]].at = "frame" /\ To(locked[h]) = h
      /\ \A h \in Guests : locked[h] \in Guests \cup {None}
  BY DEF Locks, TypeOK
<1>1. ASSUME UNCHANGED locked,
             \A g \in Guests : /\ serve'[g].at = "frame" <=> serve[g].at = "frame"
                               /\ serve[g].at = "frame" => serve'[g].todo = serve[g].todo
      PROVE  Locks'
  <2>1. \A g \in Guests : serve[g].at = "frame" => To(g)' = To(g)
    BY <1>1 DEF To
  <2>2. \A g \in Guests : serve'[g].at = "frame" => locked'[To(g)'] = g
    BY <1>0, <1>1, <2>1
  <2>3. \A h \in Guests :
           locked'[h] # None => serve'[locked'[h]].at = "frame" /\ To(locked[h])' = h
    BY <1>0, <1>1, <2>1
  <2> QED
    BY <1>1, <2>2, <2>3 DEF Locks, To
<1>2. ASSUME NEW g \in Guests, UNCHANGED locked, serve[g].at # "frame", serve'[g].at # "frame",
             \A k \in Guests \ {g} : serve'[k] = serve[k]
      PROVE  Locks'
  BY <1>1, <1>2
<1>3. CASE AcceptEnds \/ CloseBegins \/ CloseListener \/ Wait \/ UNCHANGED vars
  BY <1>1, <1>3 DEF AcceptEnds, CloseBegins, CloseListener, Wait, vars
<1>4. CASE Register
  <2> DEFINE a == accept.conn
  <2>1. a \in Guests /\ conn[a] = "accepted" /\ UNCHANGED locked
    BY <1>4 DEF Register, Ports
  <2>2. CASE UNCHANGED serve
    BY <1>1, <2>1, <2>2
  <2>3. CASE serve' = [serve EXCEPT ![a].at = "read"]
    <3>1. serve'[a].at = "read" /\ \A k \in Guests \ {a} : serve'[k] = serve[k]
      BY <2>1, <2>3, Moving
    <3>2. serve[a].at # "frame"
      BY <1>4, <2>1 DEF Ports, Outside
    <3> HIDE DEF a
    <3> QED
      BY <1>2, <2>1, <3>1, <3>2
  <2> QED
    BY <1>4, <2>2, <2>3 DEF Register, Registered
<1>5. ASSUME NEW g \in Guests, ClosePort(g) \/ Leave(g) \/ Accept(g) \/ ReadStream(g)
      PROVE  Locks'
  BY <1>1, <1>5 DEF ClosePort, Leave, Accept, ReadStream
<1>6. ASSUME NEW g \in Guests, ReadFrame(g)  PROVE Locks'
  <2>1. PICK others \in Orders(ports \ {g}) : Flood(g, serve[g].taken + 1, others)
    BY <1>6 DEF ReadFrame
  <2>2. ports \ {g} \subseteq Guests
    BY DEF TypeOK
  <2>3. others \in Seq(ports \ {g}) /\ others \in Seq(Guests)
    BY <2>2, OrdersGive
  <2>4. serve[g].taken + 1 \in 0 .. MaxFrames
    BY <1>6, FrameLeft, HubAssumptions DEF ReadFrame
  <2>5. /\ serve'[g].at = IF others = << >> THEN "read" ELSE "flood"
        /\ \A k \in Guests \ {g} : serve'[k] = serve[k]
    BY <2>1, <2>3, <2>4, Flooding
  <2> QED
    BY <1>2, <1>6, <2>5 DEF ReadFrame
<1>7. ASSUME NEW g \in Guests, BadLength(g) \/ ReadEnds(g)  PROVE Locks'
  <2>1. serve[g].at = "read" /\ PortEnds(g)
    BY <1>7 DEF BadLength, ReadEnds
  <2>2. serve'[g].at = "done" /\ \A k \in Guests \ {g} : serve'[k] = serve[k]
    BY <2>1, Moving DEF PortEnds
  <2> QED
    BY <1>2, <2>1, <2>2 DEF PortEnds
<1>8. ASSUME NEW g \in Guests, serve[g].at \in {"flood", "frame"},
             Flood(g, serve[g].taken, Tail(serve[g].todo))
      PROVE  serve'[g].at # "frame" /\ \A k \in Guests \ {g} : serve'[k] = serve[k]
  <2>1. serve[g].taken \in 0 .. MaxFrames /\ Tail(serve[g].todo) \in Seq(Guests)
    BY <1>8, Addressee, HubAssumptions
  <2>2. /\ serve'[g].at = IF Tail(serve[g].todo) = << >> THEN "read" ELSE "flood"
        /\ \A k \in Guests \ {g} : serve'[k] = serve[k]
    BY <1>8, <2>1, Flooding
  <2> QED
    BY <2>2
<1>9. ASSUME NEW g \in Guests, WriteHeader(g)  PROVE Locks'
  <2> DEFINE t == To(g)
  <2>1. serve[g].at = "flood" /\ t \in Guests /\ locked[t] = None
    BY <1>9, Addressee DEF WriteHeader
  <2>2. CASE Flood(g, serve[g].taken, Tail(serve[g].todo)) /\ UNCHANGED locked
    BY <1>2, <1>8, <2>1, <2>2
  <2>3. CASE serve' = [serve EXCEPT ![g].at = "frame"] /\ locked' = [locked EXCEPT ![t] = g]
    <3>1. /\ serve'[g].at = "frame" /\ serve'[g].todo = serve[g].todo
          /\ \A k \in Guests \ {g} : serve'[k] = serve[k]
      BY <2>3, Moving
    <3>2. locked'[t] = g /\ \A h \in Guests \ {t} : locked'[h] = locked[h]
      BY <2>1, <2>3 DEF TypeOK
    <3>3. \A k \in Guests : To(k)' = To(k)
      BY <3>1 DEF To
    <3>4. g # None
      BY SomeGuests
    <3>5. \A k \in Guests \ {g} : serve[k].at = "frame" => To(k) # t /\ To(k) \in Guests
      BY <1>0, <2>1, Addressee, SomeGuests
    <3> HIDE DEF t
    <3>6. \A k \in Guests : serve'[k].at = "frame" => locked'[To(k)'] = k
      <4>1. To(g) = t
        BY DEF t
      <4> QED
        BY <1>0, <3>1, <3>2, <3>3, <3>5, <4>1
    <3>7. ASSUME NEW h \in Guests, locked'[h] # None
          PROVE  serve'[locked'[h]].at = "frame" /\ Head(serve'[locked'[h]].todo) = h
      <4>1. CASE h = t
        <5>1. To(g)' = t
          BY <3>3 DEF t
        <5> QED
          BY <3>1, <3>2, <4>1, <5>1 DEF To
      <4>2. CASE h # t
        <5>1. /\ locked'[h] = locked[h] /\ locked[h] \in Guests
              /\ serve[locked[h]].at = "frame" /\ To(locked[h]) = h
          BY <1>0, <3>2, <3>7, <4>2
        <5>2. serve'[locked[h]].at = "frame"
          BY <3>1, <5>1
        <5> QED
          BY <3>3, <5>1, <5>2 DEF To
      <4> QED
        BY <4>1, <4>2
    <3> QED
      BY <3>6, <3>7 DEF Locks, To
  <2> QED
    BY <1>9, <2>2, <2>3 DEF WriteHeader
<1>10. ASSUME NEW g \in Guests, WriteFrame(g)  PROVE Locks'
  <2> DEFINE t == To(g)
  <2>1. serve[g].at = "frame" /\ t \in Guests /\ locked[t] = g
    BY <1>0, <1>10, Addressee DEF WriteFrame
  <2>2. serve'[g].at # "frame" /\ \A k \in Guests \ {g} : serve'[k] = serve[k]
    BY <1>8, <1>10 DEF WriteFrame
  <2>3. locked' = [locked EXCEPT ![t] = None]
    BY <1>10 DEF WriteFrame
  <2>4. locked'[t] = None /\ \A h \in Guests \ {t} : locked'[h] = locked[h]
    BY <2>1, <2>3 DEF TypeOK
  <2>5. \A k \in Guests \ {g} : To(k)' = To(k)
    BY <2>2 DEF To
  <2>6. \A k \in Guests \ {g} : serve[k].at = "frame" => To(k) # t /\ To(k) \in Guests
    BY <1>0, <2>1, Addressee
  <2> HIDE DEF t
  <2>7. \A k \in Guests : serve'[k].at = "frame" => locked'[To(k)'] = k
    BY <1>0, <2>2, <2>4, <2>5, <2>6
  <2>8. ASSUME NEW h \in Guests, locked'[h] # None
        PROVE  serve'[locked'[h]].at = "frame" /\ Head(serve'[locked'[h]].todo) = h
    <3>1. h # t /\ locked'[h] = locked[h]
      BY <2>4, <2>8
    <3>2. /\ locked[h] \in Guests /\ serve[locked[h]].at = "frame"
          /\ To(locked[h]) = h
      BY <1>0, <2>8, <3>1
    <3>3. locked[h] # g
      BY <3>1, <3>2 DEF t
    <3>4. serve'[locked[h]] = serve[locked[h]]
      BY <2>2, <3>2, <3>3
    <3> QED
      BY <3>1, <3>2, <3>4 DEF To
  <2> QED
    BY <2>7, <2>8 DEF Locks, To
<1> QED
  BY <1>3, <1>4, <1>5, <1>6, <1>7, <1>9, <1>10 DEF Next, Acceptor, Close, Guest, Serve

\* A header after whole frames, and its frame after a header, keep frames whole.
LEMMA WholeAppend ==
    ASSUME NEW s \in Seq(Writes), Whole(s), NEW w \in Writes,
           \/ Len(s) % 2 = 0 /\ w.part = "header"
           \/ Len(s) % 2 = 1 /\ w = [s[Len(s)] EXCEPT !.part = "frame"]
    PROVE  Whole(Append(s, w))
<1> DEFINE a == Append(s, w)
<1>1. /\ Len(s) \in Nat /\ Len(a) = Len(s) + 1 /\ DOMAIN a = 1 .. Len(s) + 1
      /\ DOMAIN s = 1 .. Len(s)
      /\ a[Len(s) + 1] = w /\ \A i \in 1 .. Len(s) : a[i] = s[i]
  OBVIOUS
<1> HIDE DEF a
<1>2. SUFFICES ASSUME NEW i \in 1 .. Len(s) + 1
               PROVE  IF i % 2 = 1
                      THEN a[i].part = "header"
                      ELSE a[i] = [a[i - 1] EXCEPT !.part = "frame"]
  BY <1>1 DEF Whole, a
<1>3. CASE i = Len(s) + 1
  <2>1. i % 2 = 1 <=> Len(s) % 2 = 0
    BY <1>1, <1>3, Parity
  <2>2. CASE i % 2 = 1
    BY <1>1, <1>3, <2>1, <2>2, Parity
  <2>3. CASE i % 2 # 1
    <3>1. Len(s) % 2 = 1 /\ w = [s[Len(s)] EXCEPT !.part = "frame"]
      BY <1>1, <2>1, <2>3, Parity
    <3>2. Len(s) \in 1 .. Len(s) /\ i - 1 = Len(s)
      BY <1>1, <1>3, <3>1
    <3> QED
      BY <1>1, <1>3, <2>3, <3>1, <3>2
  <2> QED
    BY <2>2, <2>3
<1>4. CASE i \in 1 .. Len(s)
  <2>1. IF i % 2 = 1
        THEN s[i].part = "header"
        ELSE s[i] = [s[i - 1] EXCEPT !.part = "frame"]
    BY <1>1, <1>4 DEF Whole
  <2>2. i % 2 # 1 => i - 1 \in 1 .. Len(s)
    BY <1>1, <1>4
  <2> QED
    BY <1>1, <1>4, <2>1, <2>2
<1> QED
  BY <1>1, <1>3, <1>4

LEMMA StreamsStep ==
    TypeOK /\ Floods /\ Ports /\ Locks /\ Streams /\ [Next]_vars => Streams'
<1> SUFFICES ASSUME TypeOK, Floods, Ports, Locks, Streams, [Next]_vars  PROVE Streams'
  OBVIOUS
<1> DEFINE Sent(h) ==
      /\ Whole(stream[h])
      /\ conn[h] # "open" => stream[h] = << >> /\ got[h] = 0
      /\ conn[h] = "open" /\ locked[h] = None => Len(stream[h]) % 2 = 0
      /\ conn[h] = "open" /\ locked[h] # None =>
            /\ Len(stream[h]) % 2 = 1
            /\ stream[h][Len(stream[h])] =
                  [part |-> "header", from |-> locked[h], n |-> serve[locked[h]].taken]
<1>0. /\ \A h \in Guests : Sent(h)
      /\ \A h \in Guests : locked[h] # None =>
            locked[h] \in Guests /\ serve[locked[h]].at = "frame" /\ To(locked[h]) = h
  BY DEF Streams, Locks, TypeOK
<1>1. SUFFICES ASSUME NEW h \in Guests  PROVE Sent(h)'
  BY DEF Streams
<1>2. ASSUME stream'[h] = stream[h], conn'[h] = conn[h], locked'[h] = locked[h],
             conn[h] # "open" => got'[h] = got[h],
             \A k \in Guests : serve[k].at = "frame" => serve'[k].taken = serve[k].taken
      PROVE  Sent(h)'
  <2>1. locked[h] # None => serve'[locked[h]].taken = serve[locked[h]].taken
    BY <1>0, <1>2
  <2>2. Sent(h)
    BY <1>0
  <2>3. CASE conn[h] # "open"
    BY <1>2, <2>2, <2>3
  <2>4. CASE conn[h] = "open" /\ locked[h] = None
    BY <1>2, <2>2, <2>4
  <2>5. CASE conn[h] = "open" /\ locked[h] # None
    BY <1>2, <2>1, <2>2, <2>5
  <2> QED
    BY <2>3, <2>4, <2>5
<1>3. CASE AcceptEnds \/ CloseBegins \/ CloseListener \/ Wait \/ UNCHANGED vars
  BY <1>2, <1>3 DEF AcceptEnds, CloseBegins, CloseListener, Wait, vars
\* The port of a connection that has ended, or is only just accepted, is not locked.
<1>4. ASSUME conn'[h] # "open", stream'[h] = << >>, got'[h] = 0  PROVE Sent(h)'
  <2>1. Whole(<< >>)
    BY DEF Whole
  <2> QED
    BY <1>4, <2>1
<1>5. CASE Register
  <2> DEFINE a == accept.conn
  <2>1. a \in Guests /\ conn[a] = "accepted" /\ serve[a].at = "off"
    BY <1>5 DEF Register, Ports, Outside
  <2>2. UNCHANGED <<locked, stream, got>>
    BY <1>5 DEF Register
  <2>3. \A k \in Guests : serve'[k].taken = serve[k].taken
    <3>1. CASE UNCHANGED serve
      BY <3>1
    <3>2. CASE serve' = [serve EXCEPT ![a].at = "read"]
      BY <2>1, <3>2, Moving
    <3> QED
      BY <1>5, <3>1, <3>2 DEF Register, Registered
  <2>4. conn'[a] \in {"open", "closed"} /\ \A k \in Guests \ {a} : conn'[k] = conn[k]
    BY <1>5, <2>1 DEF Register, Registered, TypeOK
  <2>5. stream[a] = << >> /\ got[a] = 0
    BY <1>0, <2>1
  <2>6. locked[a] = None
    <3>1. ASSUME locked[a] # None  PROVE FALSE
      <4>1. /\ locked[a] \in Guests /\ serve[locked[a]].at = "frame"
            /\ To(locked[a]) = a
        BY <1>0, <2>1, <3>1
      <4>2. conn[a] \notin Outside
        BY <4>1, Addressee
      <4> QED
        BY <2>1, <4>2 DEF Outside
    <3> QED
      BY <3>1
  <2> HIDE DEF a
  <2>7. CASE h # a
    BY <1>2, <2>2, <2>3, <2>4, <2>7
  <2>8. CASE h = a
    <3>1. Whole(<< >>) /\ Len(<< >>) % 2 = 0
      BY DEF Whole
    <3> QED
      BY <2>2, <2>4, <2>5, <2>6, <2>8, <3>1
  <2> QED
    BY <2>7, <2>8
<1>6. ASSUME NEW g \in Guests, NEW how \in {"gone", "closed"}, End(g, how), UNCHANGED locked,
             \A k \in Guests : serve[k].at = "frame" => serve'[k].taken = serve[k].taken
      PROVE  Sent(h)'
  <2>1. CASE h = g
    BY <1>4, <1>6, <2>1, Ending
  <2>2. CASE h # g
    BY <1>2, <1>6, <2>2, Ending
  <2> QED
    BY <2>1, <2>2
<1>7. ASSUME NEW g \in Guests, ClosePort(g) \/ Leave(g)  PROVE Sent(h)'
  <2>1. UNCHANGED <<serve, locked>> /\ \E how \in {"gone", "closed"} : End(g, how)
    BY <1>7 DEF ClosePort, Leave
  <2> QED
    BY <1>6, <2>1
<1>8. ASSUME NEW g \in Guests, BadLength(g) \/ ReadEnds(g)  PROVE Sent(h)'
  <2>1. PortEnds(g)
    BY <1>8 DEF BadLength, ReadEnds
  <2>2. \A k \in Guests : serve'[k].taken = serve[k].taken
    BY <2>1, Moving DEF PortEnds
  <2>3. End(g, "closed") /\ UNCHANGED locked
    BY <2>1 DEF PortEnds
  <2> QED
    BY <1>6, <2>2, <2>3
<1>9. ASSUME NEW g \in Guests, Accept(g)  PROVE Sent(h)'
  <2>1. conn' = [conn EXCEPT ![g] = "accepted"] /\ conn[g] = "off"
    BY <1>9, SomeGuests DEF Accept
  <2>2. UNCHANGED <<locked, stream, got, serve>>
    BY <1>9 DEF Accept
  <2>3. CASE h = g
    <3>1. conn'[h] = "accepted" /\ conn[h] = "off"
      BY <2>1, <2>3 DEF TypeOK
    <3> QED
      BY <1>0, <1>4, <2>2, <3>1
  <2>4. CASE h # g
    <3>1. conn'[h] = conn[h]
      BY <2>1, <2>4 DEF TypeOK
    <3> QED
      BY <1>2, <2>2, <3>1
  <2> QED
    BY <2>3, <2>4
<1>10. ASSUME NEW g \in Guests, ReadStream(g)  PROVE Sent(h)'
  <2>1. /\ conn[g] = "open" /\ UNCHANGED <<conn, serve, locked, stream>>
        /\ \A k \in Guests \ {g} : got'[k] = got[k]
    BY <1>10 DEF ReadStream, TypeOK
  <2> QED
    BY <1>2, <2>1
<1>11. ASSUME NEW g \in Guests, ReadFrame(g)  PROVE Sent(h)'
  <2>1. serve[g].at = "read" /\ \E n, others : Flood(g, n, others)
    BY <1>11 DEF ReadFrame
  <2>2. \A k \in Guests \ {g} : serve'[k] = serve[k]
    BY <2>1 DEF Flood, TypeOK
  <2>3. UNCHANGED <<conn, locked, stream, got>>
    BY <1>11 DEF ReadFrame
  <2> QED
    BY <1>2, <2>1, <2>2, <2>3
<1>12. ASSUME NEW g \in Guests, serve[g].at \in {"flood", "frame"},
              Flood(g, serve[g].taken, Tail(serve[g].todo))
       PROVE  \A k \in Guests : serve'[k].taken = serve[k].taken
  <2>1. serve[g].taken \in 0 .. MaxFrames /\ Tail(serve[g].todo) \in Seq(Guests)
    BY <1>12, Addressee, HubAssumptions
  <2>2. /\ serve'[g].taken = serve[g].taken
        /\ \A k \in Guests \ {g} : serve'[k] = serve[k]
    BY <1>12, <2>1, Flooding
  <2> QED
    BY <2>2
<1>13. ASSUME NEW g \in Guests, WriteHeader(g)  PROVE Sent(h)'
  <2> DEFINE t == To(g)
  <2>1. /\ serve[g].at = "flood" /\ t \in Guests /\ locked[t] = None
        /\ serve[g].taken \in 1 .. MaxFrames /\ UNCHANGED <<conn, got>>
    BY <1>13, Addressee DEF WriteHeader
  <2>2. CASE Flood(g, serve[g].taken, Tail(serve[g].todo)) /\ UNCHANGED <<stream, locked>>
    BY <1>2, <1>12, <2>1, <2>2
  <2>3. CASE /\ conn[t] = "open" /\ Write(g, "header")
             /\ locked' = [locked EXCEPT ![t] = g]
             /\ serve' = [serve EXCEPT ![g].at = "frame"]
    <3> DEFINE w == [part |-> "header", from |-> g, n |-> serve[g].taken]
    <3>1. \A k \in Guests : serve'[k].taken = serve[k].taken
      BY <2>3, Moving
    <3>2. locked'[t] = g /\ \A k \in Guests \ {t} : locked'[k] = locked[k]
      BY <2>1, <2>3 DEF TypeOK
    <3>3. /\ stream'[t] = Append(stream[t], w) /\ stream[t] \in Seq(Writes)
          /\ Len(stream'[t]) = Len(stream[t]) + 1
          /\ \A k \in Guests \ {t} : stream'[k] = stream[k]
      BY <2>1, <2>3, Writing
    <3>4. w \in Writes /\ w.part = "header"
      BY <2>1 DEF Writes
    <3>5. Whole(stream[t]) /\ Len(stream[t]) % 2 = 0 /\ Len(stream[t]) \in Nat
      <4>1. Sent(t)
        BY <1>0, <2>1
      <4>2. Len(stream[t]) \in Nat
        BY <3>3
      <4> HIDE DEF t
      <4> QED
        BY <2>1, <2>3, <4>1, <4>2
    <3> HIDE DEF t, w
    <3>6. Whole(stream'[t])
      BY <3>3, <3>4, <3>5, WholeAppend
    <3>7. Len(stream'[t]) % 2 = 1 /\ stream'[t][Len(stream'[t])] = w
      <4>1. Len(stream'[t]) % 2 = 1
        BY <3>3, <3>5, Parity
      <4>2. Append(stream[t], w)[Len(stream[t]) + 1] = w
        BY <3>3, <3>4
      <4> QED
        BY <3>3, <4>1, <4>2
    <3>8. CASE h # t
      BY <1>2, <2>1, <3>1, <3>2, <3>3, <3>8
    <3>9. CASE h = t
      <4>1. w = [part |-> "header", from |-> locked'[h], n |-> serve'[locked'[h]].taken]
        BY <3>1, <3>2, <3>9 DEF w
      <4>2. conn'[h] = "open" /\ locked'[h] # None
        BY <2>1, <2>3, <3>2, <3>9, SomeGuests DEF t
      <4> QED
        BY <3>6, <3>7, <3>9, <4>1, <4>2
    <3> QED
      BY <3>8, <3>9
  <2> QED
    BY <1>13, <2>2, <2>3 DEF WriteHeader
<1>14. ASSUME NEW g \in Guests, WriteFrame(g)  PROVE Sent(h)'
  <2> DEFINE t == To(g)
  <2>1. /\ serve[g].at = "frame" /\ t \in Guests /\ locked[t] = g /\ g # None
        /\ serve[g].taken \in 1 .. MaxFrames /\ UNCHANGED <<conn, got>>
    BY <1>14, Addressee, SomeGuests DEF WriteFrame, Locks
  <2>2. locked'[t] = None /\ \A k \in Guests \ {t} : locked'[k] = locked[k]
    BY <1>14, <2>1 DEF WriteFrame, TypeOK
  <2>3. \A k \in Guests : serve'[k].taken = serve[k].taken
    BY <1>12, <1>14 DEF WriteFrame
  <2>4. CASE conn[t] # "open" /\ UNCHANGED stream
    <3>1. CASE h # t
      BY <1>2, <2>1, <2>2, <2>3, <2>4, <3>1
    <3>2. CASE h = t
      BY <1>0, <1>4, <2>1, <2>4, <3>2
    <3> QED
      BY <3>1, <3>2
  <2>5. CASE conn[t] = "open" /\ Write(g, "frame")
    <3> DEFINE w == [part |-> "frame", from |-> g, n |-> serve[g].taken]
               last == [part |-> "header", from |-> g, n |-> serve[g].taken]
    <3>1. /\ stream'[t] = Append(stream[t], w) /\ stream[t] \in Seq(Writes)
          /\ Len(stream'[t]) = Len(stream[t]) + 1
          /\ \A k \in Guests \ {t} : stream'[k] = stream[k]
      BY <2>1, <2>5, Writing
    <3>2. w \in Writes /\ w = [last EXCEPT !.part = "frame"]
      BY <2>1 DEF Writes
    <3>3. /\ Whole(stream[t]) /\ Len(stream[t]) % 2 = 1 /\ Len(stream[t]) \in Nat
          /\ stream[t][Len(stream[t])] = last
      <4>1. Sent(t)
        BY <1>0, <2>1
      <4>2. Len(stream[t]) \in Nat
        BY <3>1
      <4> HIDE DEF t
      <4> QED
        BY <2>1, <2>5, <4>1, <4>2
    <3> HIDE DEF t, w, last
    <3>4. Whole(stream'[t])
      BY <3>1, <3>2, <3>3, WholeAppend
    <3>5. Len(stream'[t]) % 2 = 0
      BY <3>1, <3>3, Parity
    <3>6. CASE h # t
      BY <1>2, <2>1, <2>2, <2>3, <3>1, <3>6
    <3>7. CASE h = t
      <4>1. conn'[h] = "open" /\ locked'[h] = None
        BY <2>1, <2>2, <2>5, <3>7
      <4> QED
        BY <3>4, <3>5, <3>7, <4>1
    <3> QED
      BY <3>6, <3>7
  <2> QED
    BY <1>14, <2>4, <2>5 DEF WriteFrame
<1> QED
  BY <1>3, <1>5, <1>7, <1>8, <1>9, <1>10, <1>11, <1>13, <1>14
     DEF Next, Acceptor, Close, Guest, Serve

LEMMA ClosesStep == TypeOK /\ Floods /\ Ports /\ Closes /\ [Next]_vars => Closes'
<1> SUFFICES ASSUME TypeOK, Floods, Ports, Closes, [Next]_vars  PROVE Closes'
  OBVIOUS
<1> DEFINE Over == /\ ports = {}
                   /\ \A g \in Guests : /\ conn[g] \in {"off", "closed"}
                                       /\ serve[g].at \in {"off", "done"}
<1>0. (closed <=> closer # "off") /\ (closer = "returned" => accept.at = "done" /\ Over)
  BY DEF Closes, NothingLeft
<1>1. ASSUME UNCHANGED <<closed, closer>>, closer # "returned"  PROVE Closes'
  BY <1>0, <1>1 DEF Closes, NothingLeft
<1>2. CASE UNCHANGED vars
  BY <1>0, <1>2 DEF Closes, NothingLeft, vars
<1>3. CASE AcceptEnds \/ Register
  BY <1>0, <1>1, <1>3 DEF AcceptEnds, Register, closeVars
<1>4. CASE CloseBegins
  BY <1>0, <1>4 DEF CloseBegins, Closes, NothingLeft
<1>5. CASE CloseListener
  BY <1>0, <1>5 DEF CloseListener, Closes, NothingLeft
<1>6. CASE Wait
  <2>1. /\ accept.at = "done" /\ \A g \in Guests : serve[g].at \in {"off", "done"}
        /\ UNCHANGED <<closed, ports, accept, conn, serve>>
        /\ closer = "ports" /\ closer' = "returned"
    BY <1>6 DEF Wait
  <2>2. ports = {}
    BY <2>1 DEF Ports, TypeOK
  <2>3. ASSUME NEW g \in Guests  PROVE conn[g] \in {"off", "closed"}
    <3>1. conn[g] \in {"off", "accepted", "open", "gone", "closed"}
      BY DEF TypeOK
    <3>2. conn[g] \notin {"accepted", "open", "gone"}
      BY <2>1, <2>2 DEF Ports
    <3> QED
      BY <3>1, <3>2
  <2> QED
    BY <1>0, <2>1, <2>2, <2>3 DEF Closes, NothingLeft
<1>7. ASSUME NEW g \in Guests, ClosePort(g)  PROVE Closes'
  BY <1>1, <1>7 DEF ClosePort
<1>8. ASSUME NEW g \in Guests,
             \/ Accept(g) \/ ReadStream(g) \/ Leave(g) \/ ReadFrame(g) \/ BadLength(g)
             \/ ReadEnds(g) \/ WriteHeader(g) \/ WriteFrame(g)
      PROVE  Closes'
  <2>1. UNCHANGED <<closed, closer>>
    BY <1>8 DEF Accept, ReadStream, Leave, ReadFrame, BadLength, ReadEnds, PortEnds, WriteHeader,
                WriteFrame, closeVars
  <2>2. \/ accept.at = "accept" \/ conn[g] = "open"
        \/ serve[g].at \in {"read", "flood", "frame"}
    BY <1>8 DEF Accept, ReadStream, Leave, ReadFrame, BadLength, ReadEnds, WriteHeader, WriteFrame
  <2> QED
    BY <1>0, <1>1, <2>1, <2>2
<1> QED
  BY <1>2, <1>3, <1>4, <1>5, <1>6, <1>7, <1>8 DEF Next, Acceptor, Close, Guest, Serve

\* What a sequence has left behind its first element.
LEMMA InTail ==
    ASSUME NEW s \in Seq(Guests), s # << >>, NEW h
    PROVE  (\E i \in DOMAIN Tail(s) : Tail(s)[i] = h) <=> (\E i \in DOMAIN s : i # 1 /\ s[i] = h)
<1>1. /\ Len(s) \in Nat /\ DOMAIN s = 1 .. Len(s)
      /\ DOMAIN Tail(s) = 1 .. Len(s) - 1
      /\ \A i \in 1 .. Len(s) - 1 : Tail(s)[i] = s[i + 1]
  OBVIOUS
<1>2. ASSUME NEW i \in DOMAIN Tail(s), Tail(s)[i] = h
      PROVE  \E j \in DOMAIN s : j # 1 /\ s[j] = h
  <2>1. i + 1 \in DOMAIN s /\ i + 1 # 1 /\ s[i + 1] = h
    BY <1>1, <1>2
  <2> QED
    BY <2>1
<1>3. ASSUME NEW i \in DOMAIN s, i # 1, s[i] = h
      PROVE  \E j \in DOMAIN Tail(s) : Tail(s)[j] = h
  <2>1. i - 1 \in DOMAIN Tail(s) /\ Tail(s)[i - 1] = s[(i - 1) + 1] /\ (i - 1) + 1 = i
    BY <1>1, <1>3
  <2> QED
    BY <1>3, <2>1
<1> QED
  BY <1>2, <1>3

LEMMA OnceStep == TypeOK /\ Floods /\ Ports /\ Once /\ [Next]_vars => Once'
<1> SUFFICES ASSUME TypeOK, Floods, Ports, Once, [Next]_vars  PROVE Once'
  OBVIOUS
<1> DEFINE Each(g) ==
      /\ serve[g].at \notin {"flood", "frame"} => serve[g].todo = << >>
      /\ \A i, j \in DOMAIN serve[g].todo : serve[g].todo[i] = serve[g].todo[j] => i = j
<1>0. \A g \in Guests : Each(g)
  BY DEF Once
<1>1. SUFFICES ASSUME NEW g \in Guests  PROVE Each(g)'
  BY DEF Once
<1>2. ASSUME serve'[g] = serve[g]  PROVE Each(g)'
  BY <1>0, <1>2
<1>3. ASSUME serve'[g].todo = serve[g].todo,
             serve[g].at \in {"flood", "frame"} => serve'[g].at \in {"flood", "frame"}
      PROVE  Each(g)'
  BY <1>0, <1>3
<1>4. CASE UNCHANGED serve
  BY <1>2, <1>4
<1>5. CASE AcceptEnds \/ CloseBegins \/ CloseListener \/ Wait \/ UNCHANGED vars
  BY <1>4, <1>5 DEF AcceptEnds, CloseBegins, CloseListener, Wait, vars
<1>6. CASE Register
  <2> DEFINE a == accept.conn
  <2>1. a \in Guests /\ serve[a].at = "off"
    BY <1>6 DEF Register, Ports, Outside
  <2>2. CASE serve' = [serve EXCEPT ![a].at = "read"]
    <3>1. /\ serve'[a].todo = serve[a].todo
          /\ \A k \in Guests \ {a} : serve'[k] = serve[k]
      BY <2>1, <2>2, Moving
    <3> HIDE DEF a
    <3>2. CASE g = a
      BY <1>3, <2>1, <3>1, <3>2
    <3>3. CASE g # a
      BY <1>2, <3>1, <3>3
    <3> QED
      BY <3>2, <3>3
  <2> QED
    BY <1>4, <1>6, <2>2 DEF Register, Registered
<1>7. ASSUME NEW h \in Guests, ClosePort(h) \/ Leave(h) \/ Accept(h) \/ ReadStream(h)
      PROVE  Each(g)'
  BY <1>4, <1>7 DEF ClosePort, Leave, Accept, ReadStream
<1>8. ASSUME NEW h \in Guests, ReadFrame(h)  PROVE Each(g)'
  <2>1. PICK others \in Orders(ports \ {h}) : Flood(h, serve[h].taken + 1, others)
    BY <1>8 DEF ReadFrame
  <2>2. ports \ {h} \subseteq Guests
    BY DEF TypeOK
  <2>3. /\ others \in Seq(ports \ {h}) /\ others \in Seq(Guests)
        /\ \A i, j \in DOMAIN others : others[i] = others[j] => i = j
    BY <2>2, OrdersGive
  <2>4. serve[h].taken + 1 \in 0 .. MaxFrames
    BY <1>8, FrameLeft, HubAssumptions DEF ReadFrame
  <2>5. /\ serve'[h].at = IF others = << >> THEN "read" ELSE "flood"
        /\ serve'[h].todo = others
        /\ \A k \in Guests \ {h} : serve'[k] = serve[k]
    BY <2>1, <2>3, <2>4, Flooding
  <2>6. CASE g = h
    BY <2>3, <2>5, <2>6
  <2>7. CASE g # h
    BY <1>2, <2>5, <2>7
  <2> QED
    BY <2>6, <2>7
<1>9. ASSUME NEW h \in Guests, BadLength(h) \/ ReadEnds(h)  PROVE Each(g)'
  <2>1. PortEnds(h) /\ serve[h].at = "read"
    BY <1>9 DEF BadLength, ReadEnds
  <2>2. serve'[h].todo = serve[h].todo /\ \A k \in Guests \ {h} : serve'[k] = serve[k]
    BY <2>1, Moving DEF PortEnds
  <2>3. CASE g = h
    BY <1>3, <2>1, <2>2, <2>3
  <2>4. CASE g # h
    BY <1>2, <2>2, <2>4
  <2> QED
    BY <2>3, <2>4
<1>10. ASSUME NEW h \in Guests, serve[h].at \in {"flood", "frame"},
              Flood(h, serve[h].taken, Tail(serve[h].todo))
       PROVE  Each(g)'
  <2> DEFINE s == serve[h].todo
  <2>1. /\ serve[h].taken \in 0 .. MaxFrames /\ Tail(s) \in Seq(Guests)
        /\ \A i \in DOMAIN Tail(s) : i + 1 \in DOMAIN s /\ Tail(s)[i] = s[i + 1]
    BY <1>10, Addressee, HubAssumptions
  <2>2. /\ serve'[h].at = IF Tail(s) = << >> THEN "read" ELSE "flood"
        /\ serve'[h].todo = Tail(s)
        /\ \A k \in Guests \ {h} : serve'[k] = serve[k]
    BY <1>10, <2>1, Flooding
  <2>3. \A i, j \in DOMAIN s : s[i] = s[j] => i = j
    BY <1>0
  <2> HIDE DEF s
  <2>4. ASSUME NEW i \in DOMAIN Tail(s), NEW j \in DOMAIN Tail(s), Tail(s)[i] = Tail(s)[j]
        PROVE  i = j
    <3>1. i \in Nat /\ j \in Nat
      BY <2>1
    <3>2. i + 1 = j + 1
      BY <2>1, <2>3, <2>4
    <3> QED
      BY <3>1, <3>2
  <2>5. CASE g = h
    <3>1. serve'[g].todo = Tail(s)
      BY <2>2, <2>5
    <3>2. serve'[g].todo # << >> => serve'[g].at = "flood"
      BY <2>2, <2>5
    <3> QED
      BY <2>4, <3>1, <3>2
  <2>6. CASE g # h
    BY <1>2, <2>2, <2>6
  <2> QED
    BY <2>5, <2>6
<1>11. ASSUME NEW h \in Guests, WriteHeader(h)  PROVE Each(g)'
  <2>1. CASE Flood(h, serve[h].taken, Tail(serve[h].todo))
    BY <1>10, <1>11, <2>1 DEF WriteHeader
  <2>2. CASE serve' = [serve EXCEPT ![h].at = "frame"]
    <3>1. /\ serve'[h].at = "frame" /\ serve'[h].todo = serve[h].todo
          /\ \A k \in Guests \ {h} : serve'[k] = serve[k]
      BY <2>2, Moving
    <3>2. CASE g = h
      BY <1>3, <3>1, <3>2
    <3>3. CASE g # h
      BY <1>2, <3>1, <3>3
    <3> QED
      BY <3>2, <3>3
  <2> QED
    BY <1>11, <2>1, <2>2 DEF WriteHeader
<1>12. ASSUME NEW h \in Guests, WriteFrame(h)  PROVE Each(g)'
  BY <1>10, <1>12 DEF WriteFrame
<1> QED
  BY <1>5, <1>6, <1>7, <1>8, <1>9, <1>11, <1>12 DEF Next, Acceptor, Close, Guest, Serve

\* The last frame of a goroutine has got past a port but for those still to come.
LEMMA PassedIs ==
    ASSUME NEW g, NEW h
    PROVE  Passed(g, h) = IF Pending(g, h) THEN serve[g].taken - 1 ELSE serve[g].taken
BY DEF Passed, Pending

\* Going on to the next port leaves what is pending for the others as it is; when
\* the frame has been written, it is past the port as it was before.
LEMMA PassingOn ==
    ASSUME TypeOK, Floods, Once, NEW g \in Guests, serve[g].at \in {"flood", "frame"},
           Flood(g, serve[g].taken, Tail(serve[g].todo))
    PROVE  /\ \A k \in Guests \ {g} : serve'[k] = serve[k]
           /\ \A h \in Guests :
                 serve[g].at = "frame" \/ h # To(g) => Passed(g, h)' = Passed(g, h)
<1> DEFINE s == serve[g].todo
<1>1. /\ serve[g].taken \in 0 .. MaxFrames /\ Tail(s) \in Seq(Guests)
  BY Addressee, HubAssumptions
<1>2. /\ serve'[g].at = IF Tail(s) = << >> THEN "read" ELSE "flood"
      /\ serve'[g].taken = serve[g].taken /\ serve'[g].todo = Tail(s)
      /\ \A k \in Guests \ {g} : serve'[k] = serve[k]
  BY <1>1, Flooding
<1>3. s \in Seq(Guests) /\ s # << >> /\ s[1] = To(g) /\ 1 \in DOMAIN s
  <2>1. s \in Seq(Guests) /\ s # << >>
    BY DEF TypeOK, Floods
  <2> QED
    BY <2>1 DEF To
<1>4. \A i, j \in DOMAIN s : s[i] = s[j] => i = j
  BY DEF Once
<1> HIDE DEF s
<1>5. ASSUME NEW h \in Guests, serve[g].at = "frame" \/ h # To(g)
      PROVE  Passed(g, h)' = Passed(g, h)
  <2>1. Pending(g, h)' <=> \E i \in DOMAIN Tail(s) : Tail(s)[i] = h
    BY <1>2 DEF Pending
  <2>2. Pending(g, h) <=> \E i \in DOMAIN s : i # 1 /\ s[i] = h
    <3>1. CASE serve[g].at = "frame"
      BY <3>1 DEF Pending, s
    <3>2. CASE h # To(g)
      BY <1>3, <3>2 DEF Pending, s
    <3> QED
      BY <1>5, <3>1, <3>2
  <2>3. Pending(g, h)' <=> Pending(g, h)
    BY <1>3, <2>1, <2>2, InTail
  <2> QED
    BY <1>2, <2>3 DEF Passed, Pending
<1> QED
  BY <1>2, <1>5

LEMMA InOrderStep ==
    TypeOK /\ Floods /\ Ports /\ Locks /\ Streams /\ Once /\ InOrder /\ [Next]_vars => InOrder'
<1> SUFFICES ASSUME TypeOK, Floods, Ports, Locks, Streams, Once, InOrder, [Next]_vars
             PROVE  InOrder'
  OBVIOUS
<1>0. \A g, h \in Guests : Ordered(g, h)
  BY DEF InOrder
<1>1. SUFFICES ASSUME NEW g \in Guests, NEW h \in Guests  PROVE Ordered(g, h)'
  BY DEF InOrder
<1>2. ASSUME Headers(g, h)' = Headers(g, h),
             \A i \in Headers(g, h) : stream'[h][i].n = stream[h][i].n,
             Headers(g, h) # {} => Passed(g, h)' = Passed(g, h)
      PROVE  Ordered(g, h)'
  <2>1. Ordered(g, h)
    BY <1>0
  <2>2. CASE Headers(g, h) = {}
    BY <1>2, <2>2 DEF Ordered
  <2>3. CASE Headers(g, h) # {}
    BY <1>2, <2>1, <2>3 DEF Ordered
  <2> QED
    BY <2>2, <2>3
<1>3. ASSUME stream'[h] = stream[h], Headers(g, h) # {} => Passed(g, h)' = Passed(g, h)
      PROVE  Ordered(g, h)'
  <2>1. Headers(g, h)' = Headers(g, h)
    BY <1>3 DEF Headers
  <2> QED
    BY <1>2, <1>3, <2>1
<1>4. ASSUME stream'[h] = << >>  PROVE Ordered(g, h)'
  <2>1. Headers(g, h)' = {}
    BY <1>4 DEF Headers
  <2> QED
    BY <2>1 DEF Ordered
\* What has been sent to one that is not connected is forgotten.
<1>5. conn[h] # "open" => Headers(g, h) = {}
  <2>1. conn[h] # "open" => stream[h] = << >>
    BY DEF Streams
  <2> QED
    BY <2>1 DEF Headers
<1>6. ASSUME serve'[g] = serve[g]  PROVE Passed(g, h)' = Passed(g, h)
  BY <1>6 DEF Passed
<1>7. CASE UNCHANGED <<serve, stream>>
  BY <1>3, <1>6, <1>7
<1>8. CASE AcceptEnds \/ CloseBegins \/ CloseListener \/ Wait \/ UNCHANGED vars
  BY <1>7, <1>8 DEF AcceptEnds, CloseBegins, CloseListener, Wait, vars
\* A goroutine that starts or ends has nothing pending.
<1>9. ASSUME NEW a \in Guests, serve[a].at \notin {"flood", "frame"},
             NEW at \in {"read", "done"}, serve' = [serve EXCEPT ![a].at = at]
      PROVE  Passed(g, h)' = Passed(g, h)
  <2>1. /\ serve'[a].todo = serve[a].todo /\ serve'[a].taken = serve[a].taken
        /\ \A k \in Guests \ {a} : serve'[k] = serve[k]
    BY <1>9, Moving
  <2>2. CASE g = a
    <3>1. serve[a].todo = << >>
      BY <1>9 DEF Once
    <3> QED
      BY <2>1, <2>2, <3>1 DEF Passed
  <2>3. CASE g # a
    BY <1>6, <2>1, <2>3
  <2> QED
    BY <2>2, <2>3
<1>10. CASE Register
  <2> DEFINE a == accept.conn
  <2>1. a \in Guests /\ serve[a].at = "off" /\ UNCHANGED stream
    BY <1>10 DEF Register, Ports, Outside
  <2>2. CASE serve' = [serve EXCEPT ![a].at = "read"]
    BY <1>3, <1>9, <2>1, <2>2
  <2> QED
    BY <1>7, <1>10, <2>1, <2>2 DEF Register, Registered
<1>11. ASSUME NEW a \in Guests, NEW how \in {"gone", "closed"}, End(a, how),
              Passed(g, h)' = Passed(g, h)
       PROVE  Ordered(g, h)'
  <2>1. CASE h = a
    BY <1>4, <1>11, <2>1, Ending
  <2>2. CASE h # a
    BY <1>3, <1>11, <2>2, Ending
  <2> QED
    BY <2>1, <2>2
<1>12. ASSUME NEW a \in Guests, ClosePort(a) \/ Leave(a)  PROVE Ordered(g, h)'
  <2>1. UNCHANGED serve /\ \E how \in {"gone", "closed"} : End(a, how)
    BY <1>12 DEF ClosePort, Leave
  <2>2. Passed(g, h)' = Passed(g, h)
    BY <1>6, <2>1
  <2> QED
    BY <1>11, <2>1, <2>2
<1>13. ASSUME NEW a \in Guests, BadLength(a) \/ ReadEnds(a)  PROVE Ordered(g, h)'
  <2>1. PortEnds(a) /\ serve[a].at = "read"
    BY <1>13 DEF BadLength, ReadEnds
  <2>2. Passed(g, h)' = Passed(g, h)
    BY <1>9, <2>1 DEF PortEnds
  <2> QED
    BY <1>11, <2>1, <2>2 DEF PortEnds
<1>14. ASSUME NEW a \in Guests, Accept(a) \/ ReadStream(a)  PROVE Ordered(g, h)'
  BY <1>7, <1>14 DEF Accept, ReadStream
\* A new frame is pending for every port the last one got to.
<1>15. ASSUME NEW a \in Guests, ReadFrame(a)  PROVE Ordered(g, h)'
  <2>1. PICK others \in Orders(ports \ {a}) : Flood(a, serve[a].taken + 1, others)
    BY <1>15 DEF ReadFrame
  <2>2. ports \ {a} \subseteq Guests
    BY DEF TypeOK
  <2>3. /\ others \in Seq(ports \ {a}) /\ others \in Seq(Guests)
        /\ \A k \in ports \ {a} : \E i \in DOMAIN others : others[i] = k
    <3>1. others \in Seq(ports \ {a})
      BY <2>2, OrdersGive
    <3>2. \A k \in ports \ {a} : \E i \in DOMAIN others : others[i] = k
      BY <2>2, OrdersGive
    <3> QED
      BY <2>2, <3>1, <3>2
  <2>4. serve[a].taken + 1 \in 0 .. MaxFrames /\ serve[a].taken \in 0 .. MaxFrames
    <3>1. serve[a].taken + 1 \in 1 .. MaxFrames
      BY <1>15, FrameLeft DEF ReadFrame
    <3>2. serve[a].taken \in 0 .. MaxFrames
      BY DEF TypeOK
    <3> QED
      BY <3>1, <3>2, HubAssumptions
  <2>5. /\ serve'[a].at = IF others = << >> THEN "read" ELSE "flood"
        /\ serve'[a].taken = serve[a].taken + 1 /\ serve'[a].todo = others
        /\ \A k \in Guests \ {a} : serve'[k] = serve[k]
    BY <2>1, <2>3, <2>4, Flooding
  <2>6. UNCHANGED stream /\ serve[a].at = "read"
    BY <1>15 DEF ReadFrame
  <2>7. CASE g # a
    BY <1>3, <1>6, <2>5, <2>6, <2>7
  <2>8. CASE g = a
    <3>1. ASSUME Headers(g, h) # {}  PROVE Passed(g, h)' = Passed(g, h)
      <4>1. h \in ports \ {a}
        BY <1>0, <1>5, <2>8, <3>1 DEF Ports, Ordered
      <4>2. Pending(g, h)'
        BY <2>3, <2>5, <2>8, <4>1 DEF Pending
      <4>3. ~Pending(g, h)
        <5>1. serve[a].todo = << >>
          BY <2>6 DEF Once
        <5> QED
          BY <2>8, <5>1 DEF Pending
      <4>4. Passed(g, h)' = serve'[a].taken - 1 /\ Passed(g, h) = serve[a].taken
        BY <2>8, <4>2, <4>3 DEF Passed, Pending
      <4> QED
        BY <2>4, <2>5, <4>4
    <3> QED
      BY <1>3, <2>6, <3>1
  <2> QED
    BY <2>7, <2>8
<1>16. ASSUME NEW a \in Guests, WriteHeader(a)  PROVE Ordered(g, h)'
  <2> DEFINE t == To(a)
  <2>1. /\ serve[a].at = "flood" /\ t \in Guests /\ t # a /\ UNCHANGED conn
        /\ serve[a].taken \in 1 .. MaxFrames
    BY <1>16, Addressee DEF WriteHeader
  <2>2. CASE /\ conn[t] # "open" /\ Flood(a, serve[a].taken, Tail(serve[a].todo))
             /\ UNCHANGED stream
    <3>1. \A k \in Guests \ {a} : serve'[k] = serve[k]
      BY <2>1, <2>2, PassingOn
    <3>2. h # t => Passed(a, h)' = Passed(a, h)
      BY <2>1, <2>2, PassingOn
    <3>3. CASE g # a
      BY <1>3, <1>6, <2>2, <3>1, <3>3
    <3>4. CASE g = a
      BY <1>3, <1>5, <2>2, <3>2, <3>4
    <3> QED
      BY <3>3, <3>4
  <2>3. CASE Write(a, "header") /\ serve' = [serve EXCEPT ![a].at = "frame"]
    <3> DEFINE w == [part |-> "header", from |-> a, n |-> serve[a].taken]
               s == serve[a].todo
               new == Len(stream[t]) + 1
    <3>1. /\ stream'[t] = Append(stream[t], w) /\ stream[t] \in Seq(Writes)
          /\ \A k \in Guests \ {t} : stream'[k] = stream[k]
      BY <2>1, <2>3, Writing
    <3>2. /\ serve'[a].at = "frame" /\ serve'[a].todo = s /\ serve'[a].taken = serve[a].taken
          /\ \A k \in Guests \ {a} : serve'[k] = serve[k]
      BY <2>3, Moving
    <3>3. s \in Seq(Guests) /\ s # << >> /\ s[1] = t /\ 1 \in DOMAIN s
      <4>1. s \in Seq(Guests) /\ s # << >>
        BY <2>1 DEF TypeOK, Floods
      <4> QED
        BY <4>1 DEF To
    <3>4. \A i, j \in DOMAIN s : s[i] = s[j] => i = j
      BY DEF Once
    <3>5. /\ Len(stream[t]) \in Nat /\ DOMAIN stream[t] = 1 .. Len(stream[t])
          /\ DOMAIN stream'[t] = 1 .. new
          /\ stream'[t][new] = w
          /\ \A i \in 1 .. Len(stream[t]) : stream'[t][i] = stream[t][i]
      BY <3>1
    <3>6. w.part = "header" /\ w.from = a /\ w.n = serve[a].taken
      OBVIOUS
    <3>7. h = t => Headers(g, h)' = Headers(g, h) \cup (IF g = a THEN {new} ELSE {})
      <4> HIDE DEF w, t
      <4>1. ASSUME h = t  PROVE Headers(g, h)' = Headers(g, h) \cup (IF g = a THEN {new} ELSE {})
        <5>1. Headers(g, h)' = {i \in 1 .. new : stream'[t][i].part = "header"
                                                /\ stream'[t][i].from = g}
          BY <3>5, <4>1 DEF Headers
        <5>2. Headers(g, h) = {i \in 1 .. Len(stream[t]) : stream[t][i].part = "header"
                                                          /\ stream[t][i].from = g}
          BY <3>5, <4>1 DEF Headers
        <5>3. \A i \in 1 .. new : i = new \/ i \in 1 .. Len(stream[t])
          BY <3>5
        <5>4. new \in 1 .. new /\ \A i \in 1 .. Len(stream[t]) : i \in 1 .. new
          BY <3>5
        <5> HIDE DEF new
        <5> QED
          BY <3>5, <3>6, <5>1, <5>2, <5>3, <5>4
      <4> QED
        BY <4>1
    <3> HIDE DEF w, s, new, t
    <3>8. CASE h # t
      <4>1. CASE g # a
        BY <1>3, <1>6, <3>1, <3>2, <3>8, <4>1
      <4>2. CASE g = a
        <5>1. Pending(g, h)' <=> Pending(g, h)
          BY <2>1, <3>2, <3>3, <3>8, <4>2 DEF Pending, s
        <5>2. Passed(g, h)' = Passed(g, h)
          BY <3>2, <4>2, <5>1 DEF Passed, Pending
        <5> QED
          BY <1>3, <3>1, <3>8, <5>2
      <4> QED
        BY <4>1, <4>2
    <3>9. CASE h = t /\ g # a
      <4>1. Headers(g, h)' = Headers(g, h)
        BY <3>7, <3>9
      <4>2. \A i \in Headers(g, h) : stream'[h][i].n = stream[h][i].n
        BY <3>5, <3>9 DEF Headers
      <4> QED
        BY <1>2, <1>6, <3>2, <3>9, <4>1, <4>2
    <3>10. CASE h = t /\ g = a
      <4>1. Passed(g, h) = serve[a].taken - 1
        <5>1. Pending(g, h)
          BY <2>1, <3>3, <3>10 DEF Pending, s
        <5> QED
          BY <3>10, <5>1, PassedIs
      <4>2. Passed(g, h)' = serve[a].taken
        <5>1. ~Pending(g, h)'
          BY <3>2, <3>3, <3>4, <3>10 DEF Pending
        <5> QED
          BY <3>2, <3>10, <5>1 DEF Passed, Pending
      <4>3. /\ Headers(g, h)' = Headers(g, h) \cup {new} /\ new \notin Headers(g, h)
            /\ \A i \in Headers(g, h) : i < new /\ stream'[h][i].n = stream[h][i].n
            /\ \A i \in Headers(g, h) : i \in Nat
            /\ new \in Nat /\ stream'[h][new].n = serve[a].taken
        BY <3>5, <3>6, <3>7, <3>10 DEF Headers, new
      <4>4. g # h
        BY <2>1, <3>10
      <4>5. Ordered(g, h)
        BY <1>0
      <4>6. CASE Headers(g, h) = {}
        <5>1. \A i, j \in Headers(g, h)' : i < j => stream'[h][i].n < stream'[h][j].n
          BY <4>3, <4>6
        <5>2. \A i \in Headers(g, h)' : stream'[h][i].n \in serve[a].taken .. Passed(g, h)'
          BY <2>1, <4>2, <4>3, <4>6
        <5>3. \A n \in serve[a].taken .. Passed(g, h)' :
                 \E i \in Headers(g, h)' : stream'[h][i].n = n
          BY <2>1, <4>2, <4>3, <4>6
        <5> QED
          BY <2>1, <4>4, <5>1, <5>2, <5>3 DEF Ordered
      <4>7. CASE Headers(g, h) # {}
        <5>1. PICK first \in 1 .. MaxFrames :
                 /\ \A i \in Headers(g, h) : stream[h][i].n \in first .. Passed(g, h)
                 /\ \A n \in first .. Passed(g, h) :
                       \E i \in Headers(g, h) : stream[h][i].n = n
          BY <4>5, <4>7 DEF Ordered
        <5>2. first <= serve[a].taken
          BY <2>1, <4>1, <4>7, <5>1
        <5>3. \A i, j \in Headers(g, h)' : i < j => stream'[h][i].n < stream'[h][j].n
          <6>1. \A i, j \in Headers(g, h) : i < j => stream[h][i].n < stream[h][j].n
            BY <4>5 DEF Ordered
          <6>2. \A i \in Headers(g, h) : stream[h][i].n < serve[a].taken
            BY <2>1, <4>1, <5>1
          <6> QED
            BY <4>3, <6>1, <6>2
        <5>4. \A i \in Headers(g, h)' : stream'[h][i].n \in first .. Passed(g, h)'
          BY <2>1, <4>1, <4>2, <4>3, <5>1, <5>2
        <5>5. \A n \in first .. Passed(g, h)' :
                 \E i \in Headers(g, h)' : stream'[h][i].n = n
          <6> SUFFICES ASSUME NEW n \in first .. serve[a].taken
                       PROVE  \E i \in Headers(g, h)' : stream'[h][i].n = n
            BY <4>2
          <6>1. CASE n = serve[a].taken
            BY <4>3, <6>1
          <6>2. CASE n # serve[a].taken
            <7>1. n \in first .. Passed(g, h)
              BY <2>1, <4>1, <6>2
            <7> QED
              BY <4>3, <5>1, <7>1
          <6> QED
            BY <6>1, <6>2
        <5> QED
          BY <4>4, <5>3, <5>4, <5>5 DEF Ordered
      <4> QED
        BY <4>6, <4>7
    <3> QED
      BY <3>8, <3>9, <3>10
  <2> QED
    BY <1>16, <2>2, <2>3 DEF WriteHeader
<1>17. ASSUME NEW a \in Guests, WriteFrame(a)  PROVE Ordered(g, h)'
  <2> DEFINE t == To(a)
  <2>1. serve[a].at = "frame" /\ t \in Guests /\ serve[a].taken \in 1 .. MaxFrames
    BY <1>17, Addressee DEF WriteFrame
  <2>2. Passed(g, h)' = Passed(g, h)
    <3>1. /\ \A k \in Guests \ {a} : serve'[k] = serve[k]
          /\ Passed(a, h)' = Passed(a, h)
      BY <1>17, <2>1, PassingOn DEF WriteFrame
    <3>2. CASE g = a
      BY <3>1, <3>2
    <3>3. CASE g # a
      BY <1>6, <3>1, <3>3
    <3> QED
      BY <3>2, <3>3
  <2>3. CASE UNCHANGED stream
    BY <1>3, <2>2, <2>3
  <2>4. CASE Write(a, "frame")
    <3> DEFINE w == [part |-> "frame", from |-> a, n |-> serve[a].taken]
    <3>1. /\ stream'[t] = Append(stream[t], w) /\ stream[t] \in Seq(Writes)
          /\ \A k \in Guests \ {t} : stream'[k] = stream[k]
      BY <2>1, <2>4, Writing
    <3>2. /\ Len(stream[t]) \in Nat /\ DOMAIN stream[t] = 1 .. Len(stream[t])
          /\ DOMAIN stream'[t] = 1 .. Len(stream[t]) + 1
          /\ stream'[t][Len(stream[t]) + 1] = w
          /\ \A i \in 1 .. Len(stream[t]) : stream'[t][i] = stream[t][i]
      BY <3>1
    <3>3. w.part # "header"
      OBVIOUS
    <3> HIDE DEF w, t
    <3>4. CASE h # t
      BY <1>3, <2>2, <3>1, <3>4
    <3>5. CASE h = t
      <4>1. Headers(g, h)' = Headers(g, h)
        BY <3>2, <3>3, <3>5 DEF Headers
      <4>2. \A i \in Headers(g, h) : stream'[h][i].n = stream[h][i].n
        BY <3>2, <3>5 DEF Headers
      <4> QED
        BY <1>2, <2>2, <4>1, <4>2
    <3> QED
      BY <3>4, <3>5
  <2> QED
    BY <1>17, <2>3, <2>4 DEF WriteFrame
<1> QED
  BY <1>8, <1>10, <1>12, <1>13, <1>14, <1>15, <1>16, <1>17
     DEF Next, Acceptor, Close, Guest, Serve

-----------------------------------------------------------------------------
\* The inductive invariant: frames being flooded, ports and their connections,
\* who holds which port.mu, and what has been written where go together.
THEOREM Invariant == Spec => []IInv
<1>1. IInv /\ [Next]_vars => IInv'
  BY TypesStep, FloodsStep, PortsStep, LocksStep, StreamsStep, ClosesStep,
     OnceStep, InOrderStep DEF IInv
<1> QED
  BY InvInit, <1>1, PTL DEF Spec

\* Hub.flood writes a header and its frame under port.mu: what a guest is sent
\* is whole frames, whoever floods at the same time.
THEOREM AlwaysWholeFrames == Spec => []WholeFrames
<1>1. IInv => WholeFrames
  BY DEF IInv, Streams, Whole, WholeFrames
<1> QED
  BY Invariant, <1>1, PTL

\* What Hub.flood sends on is every frame of a guest, once and in order, from the
\* first that a connected port gets.
THEOREM AlwaysNothingDropped == Spec => []NothingDropped
<1>1. IInv => NothingDropped
  <2> SUFFICES ASSUME IInv, NEW g \in Guests, NEW h \in ports, From(g, h) # {}
               PROVE  /\ \A p, q \in From(g, h) : p[1] < q[1] => p[2] < q[2]
                      /\ \E first \in 1 .. MaxFrames :
                            {p[2] : p \in From(g, h)} = first .. Passed(g, h)
    BY DEF NothingDropped
  <2>1. From(g, h) = {<<i, stream[h][i].n>> : i \in Headers(g, h)}
    BY DEF From, Headers
  <2>2. h \in Guests
    BY DEF IInv, TypeOK
  <2>3. Ordered(g, h)
    BY <2>2 DEF IInv, InOrder
  <2>4. Headers(g, h) # {}
    BY <2>1
  <2>5. \A p, q \in From(g, h) : p[1] < q[1] => p[2] < q[2]
    BY <2>1, <2>3 DEF Ordered
  <2>6. PICK first \in 1 .. MaxFrames :
           /\ \A i \in Headers(g, h) : stream[h][i].n \in first .. Passed(g, h)
           /\ \A n \in first .. Passed(g, h) : \E i \in Headers(g, h) : stream[h][i].n = n
    BY <2>3, <2>4 DEF Ordered
  <2>7. {p[2] : p \in From(g, h)} = {stream[h][i].n : i \in Headers(g, h)}
    <3>1. \A p \in From(g, h) : \E i \in Headers(g, h) : p[2] = stream[h][i].n
      BY <2>1
    <3>2. \A i \in Headers(g, h) : \E p \in From(g, h) : p[2] = stream[h][i].n
      <4> SUFFICES ASSUME NEW i \in Headers(g, h)
                   PROVE  \E p \in From(g, h) : p[2] = stream[h][i].n
        OBVIOUS
      <4>1. <<i, stream[h][i].n>> \in From(g, h) /\ <<i, stream[h][i].n>>[2] = stream[h][i].n
        BY <2>1
      <4> QED
        BY <4>1
    <3> QED
      BY <3>1, <3>2
  <2>8. {stream[h][i].n : i \in Headers(g, h)} = first .. Passed(g, h)
    BY <2>6
  <2> QED
    BY <2>5, <2>7, <2>8
<1> QED
  BY Invariant, <1>1, PTL

\* Hub.Close returns with every connection closed and every goroutine gone.
THEOREM AlwaysNothingLeft == Spec => []NothingLeft
<1>1. IInv => NothingLeft
  BY DEF IInv, Closes
<1> QED
  BY Invariant, <1>1, PTL
=============================================================================
