------------------------------- MODULE NetHub -------------------------------
(***************************************************************************)
(* The Ethernet hub QEMU guests of a cluster share (internal/nethub), run  *)
(* by `k0smosctl __hub`: the accept loop, one serve goroutine for each     *)
(* port, the floods they make, and Close.                                  *)
(*                                                                         *)
(* Guests and sockets are external. A guest connects once, always has      *)
(* another frame to send, reads when it likes, and may go away. A socket   *)
(* holds SockBuf writes that the guest has not read; a write to a full one *)
(* blocks until the guest reads or the connection is closed. Critical      *)
(* sections of Hub.mu are one step each; port.mu is held from the write of *)
(* a header to that of its frame and is explicit.                          *)
(***************************************************************************)
EXTENDS Naturals, Sequences, FiniteSets

CONSTANTS
    N,          \* QEMU processes that may connect
    SockBuf,    \* writes a socket takes before the guest has to read
    MaxFrames,  \* bound: frames the guests send, all together
    MaxLost     \* bound: guests that leave or send a length that is none

Guests == 1 .. N  \* numbered in the order the hub accepts them
None == 0

ASSUME HubAssumptions ==
    /\ N \in Nat
    /\ SockBuf \in Nat \ {0}
    /\ MaxFrames \in Nat /\ MaxLost \in Nat

VARIABLES
    listening,  \* the listener is open
    closed,     \* Hub.closed
    ports,      \* Hub.ports
    accept,     \* the accept goroutine: [at, conn]
    conn,       \* conn[g]: the connection of guest g
    serve,      \* serve[g]: the goroutine of g's port: [at, taken, todo]
    locked,     \* locked[g]: the goroutine that holds port.mu of g's port
    stream,     \* stream[g]: history: what has been written to g, while connected
    got,        \* got[g]: how much of it g has read
    closer,     \* where Close is
    closing,    \* the ports it has still to close
    lost        \* guests that have left or sent a length that is none

vars == <<listening, closed, ports, accept, conn, serve, locked, stream, got, closer,
          closing, lost>>
closeVars == <<listening, closed, closer, closing>>

Writes == [part : {"header", "frame"}, from : Guests, n : 1 .. MaxFrames]

TypeOK ==
    /\ listening \in BOOLEAN /\ closed \in BOOLEAN
    /\ ports \subseteq Guests
    /\ accept \in [at : {"accept", "register", "done"}, conn : Guests \cup {None}]
    /\ conn \in [Guests -> {"off", "accepted", "open", "gone", "closed"}]
    /\ serve \in [Guests -> [at : {"off", "read", "flood", "frame", "done"},
                            taken : 0 .. MaxFrames, todo : Seq(Guests)]]
    /\ stream \in [Guests -> Seq(Writes)]
    /\ got \in [Guests -> Nat]
    /\ \A g \in Guests :
          /\ \A i \in DOMAIN serve[g].todo : serve[g].todo[i] # g
          /\ got[g] <= Len(stream[g])
          /\ Len(stream[g]) - got[g] <= SockBuf
    /\ locked \in [Guests -> Guests \cup {None}]
    /\ closer \in {"off", "listener", "ports", "returned"}
    /\ closing \subseteq Guests
    /\ lost \in 0 .. MaxLost

Init ==
    /\ listening = TRUE
    /\ closed = FALSE
    /\ ports = {}
    /\ accept = [at |-> "accept", conn |-> None]
    /\ conn = [g \in Guests |-> "off"]
    /\ serve = [g \in Guests |-> [at |-> "off", taken |-> 0, todo |-> << >>]]
    /\ locked = [g \in Guests |-> None]
    /\ stream = [g \in Guests |-> << >>]
    /\ got = [g \in Guests |-> 0]
    /\ closer = "off"
    /\ closing = {}
    /\ lost = 0

-----------------------------------------------------------------------------
(* The guests.                                                             *)

ReadStream(g) ==
    /\ conn[g] = "open"
    /\ got[g] < Len(stream[g])
    /\ got' = [got EXCEPT ![g] = @ + 1]
    /\ UNCHANGED <<ports, accept, conn, serve, locked, stream, closeVars, lost>>

Lose == lost < MaxLost /\ lost' = lost + 1

\* A connection ends, and with it what has been written to it.
End(g, how) ==
    /\ conn' = [conn EXCEPT ![g] = how]
    /\ stream' = [stream EXCEPT ![g] = << >>]
    /\ got' = [got EXCEPT ![g] = 0]

\* QEMU exits. What it has sent may still be read.
Leave(g) ==
    /\ conn[g] = "open"
    /\ End(g, "gone")
    /\ Lose
    /\ UNCHANGED <<ports, accept, serve, locked, closeVars>>

-----------------------------------------------------------------------------
(* Hub.accept.                                                             *)

\* The next guest has connected.
Accept(g) ==
    /\ accept.at = "accept"
    /\ listening
    /\ \A h \in Guests : conn[h] = "off" <=> h >= g
    /\ conn' = [conn EXCEPT ![g] = "accepted"]
    /\ accept' = [at |-> "register", conn |-> g]
    /\ UNCHANGED <<ports, serve, locked, stream, got, closeVars, lost>>

AcceptEnds ==
    /\ accept.at = "accept"
    /\ ~listening
    /\ accept' = [accept EXCEPT !.at = "done"]
    /\ UNCHANGED <<ports, conn, serve, locked, stream, got, closeVars, lost>>

Registered(g) ==
    /\ ports' = ports \cup {g}
    /\ conn' = [conn EXCEPT ![g] = "open"]
    /\ serve' = [serve EXCEPT ![g].at = "read"]
    /\ accept' = [at |-> "accept", conn |-> None]

\* Faulty variant of Register: closed is not looked at.
RegisterAlways ==
    /\ accept.at = "register"
    /\ Registered(accept.conn)
    /\ UNCHANGED <<locked, stream, got, closeVars, lost>>

\* A connection accepted while Close began is closed, and the loop ends.
Register ==
    /\ accept.at = "register"
    /\ \/ ~closed /\ Registered(accept.conn)
       \/ /\ closed
          /\ conn' = [conn EXCEPT ![accept.conn] = "closed"]
          /\ accept' = [at |-> "done", conn |-> None]
          /\ UNCHANGED <<ports, serve>>
    /\ UNCHANGED <<locked, stream, got, closeVars, lost>>

-----------------------------------------------------------------------------
(* Hub.serve and Hub.flood, in the goroutine of g's port.                  *)

\* The orders in which a range over the map may give its keys.
Orders(S) ==
    {s \in [1 .. Cardinality(S) -> S] : \A i, j \in DOMAIN s : s[i] = s[j] => i = j}

FramesTaken == {f \in Guests \X (1 .. MaxFrames) : f[2] <= serve[f[1]].taken}

\* With ports left the flood goes on, without it is over.
Flood(g, n, others) ==
    serve' = [serve EXCEPT ![g] = [at |-> IF others = << >> THEN "read" ELSE "flood",
                                   taken |-> n, todo |-> others]]

\* A frame is read whole, and flooded to the ports there are at this moment.
ReadFrame(g) ==
    /\ serve[g].at = "read"
    /\ conn[g] \in {"open", "gone"}
    /\ Cardinality(FramesTaken) < MaxFrames
    /\ \E others \in Orders(ports \ {g}) : Flood(g, serve[g].taken + 1, others)
    /\ UNCHANGED <<ports, accept, conn, locked, stream, got, closeVars, lost>>

\* serve's deferred function: the port is taken off the hub and closed.
PortEnds(g) ==
    /\ ports' = ports \ {g}
    /\ End(g, "closed")
    /\ serve' = [serve EXCEPT ![g].at = "done"]
    /\ UNCHANGED <<accept, locked, closeVars>>

\* A length that is zero or beyond maxFrame is reported, and ends the port.
BadLength(g) ==
    /\ serve[g].at = "read"
    /\ conn[g] = "open"
    /\ Lose
    /\ PortEnds(g)

\* The guest has gone or Close has closed the connection.
ReadEnds(g) ==
    /\ serve[g].at = "read"
    /\ conn[g] \in {"gone", "closed"}
    /\ PortEnds(g)
    /\ UNCHANGED lost

To(g) == Head(serve[g].todo)
Room(h) == Len(stream[h]) - got[h] < SockBuf

Write(g, part) ==
    stream' = [stream EXCEPT ![To(g)] = Append(@, [part |-> part, from |-> g, n |-> serve[g].taken])]

\* Faulty variants of WriteHeader: no lock is taken; a port whose guest is slow
\* is passed over.
WriteHeaderUnlocked(g) ==
    /\ serve[g].at = "flood"
    /\ \/ /\ conn[To(g)] = "open"
          /\ Room(To(g))
          /\ Write(g, "header")
          /\ serve' = [serve EXCEPT ![g].at = "frame"]
       \/ /\ conn[To(g)] # "open"
          /\ Flood(g, serve[g].taken, Tail(serve[g].todo))
          /\ UNCHANGED stream
    /\ UNCHANGED <<ports, accept, conn, locked, got, closeVars, lost>>

WriteHeaderOrSkip(g) ==
    /\ serve[g].at = "flood"
    /\ locked[To(g)] = None
    /\ \/ /\ conn[To(g)] = "open"
          /\ Room(To(g))
          /\ Write(g, "header")
          /\ locked' = [locked EXCEPT ![To(g)] = g]
          /\ serve' = [serve EXCEPT ![g].at = "frame"]
       \/ /\ conn[To(g)] # "open" \/ ~Room(To(g))
          /\ Flood(g, serve[g].taken, Tail(serve[g].todo))
          /\ UNCHANGED <<stream, locked>>
    /\ UNCHANGED <<ports, accept, conn, got, closeVars, lost>>

\* The port is locked and the header written. A write to a connection that has
\* ended fails, and the frame is not written.
WriteHeader(g) ==
    /\ serve[g].at = "flood"
    /\ locked[To(g)] = None
    /\ \/ /\ conn[To(g)] = "open"
          /\ Room(To(g))
          /\ Write(g, "header")
          /\ locked' = [locked EXCEPT ![To(g)] = g]
          /\ serve' = [serve EXCEPT ![g].at = "frame"]
       \/ /\ conn[To(g)] # "open"
          /\ Flood(g, serve[g].taken, Tail(serve[g].todo))
          /\ UNCHANGED <<stream, locked>>
    /\ UNCHANGED <<ports, accept, conn, got, closeVars, lost>>

WriteFrame(g) ==
    /\ serve[g].at = "frame"
    /\ \/ conn[To(g)] = "open" /\ Room(To(g)) /\ Write(g, "frame")
       \/ conn[To(g)] # "open" /\ UNCHANGED stream
    /\ locked' = [locked EXCEPT ![To(g)] = None]
    /\ Flood(g, serve[g].taken, Tail(serve[g].todo))
    /\ UNCHANGED <<ports, accept, conn, got, closeVars, lost>>

-----------------------------------------------------------------------------
(* Hub.Close, which `k0smosctl __hub` calls when it is told to end.        *)

CloseBegins ==
    /\ ~closed
    /\ closed' = TRUE
    /\ closing' = ports
    /\ closer' = "listener"
    /\ UNCHANGED <<listening, ports, accept, conn, serve, locked, stream, got, lost>>

CloseListener ==
    /\ closer = "listener"
    /\ listening' = FALSE
    /\ closer' = "ports"
    /\ UNCHANGED <<closed, closing, ports, accept, conn, serve, locked, stream, got, lost>>

ClosePort(g) ==
    /\ closer = "ports"
    /\ g \in closing
    /\ closing' = closing \ {g}
    /\ End(g, "closed")
    /\ UNCHANGED <<listening, closed, closer, ports, accept, serve, locked, lost>>

\* Faulty variant of Wait: only the accept loop is waited for.
WaitAcceptOnly ==
    /\ closer = "ports"
    /\ closing = {}
    /\ accept.at = "done"
    /\ closer' = "returned"
    /\ UNCHANGED <<listening, closed, closing, ports, accept, conn, serve, locked, stream, got,
                   lost>>

\* wg.Wait: the accept loop and every serve goroutine have returned.
Wait ==
    /\ closer = "ports"
    /\ closing = {}
    /\ accept.at = "done"
    /\ \A g \in Guests : serve[g].at \in {"off", "done"}
    /\ closer' = "returned"
    /\ UNCHANGED <<listening, closed, closing, ports, accept, conn, serve, locked, stream, got,
                   lost>>

-----------------------------------------------------------------------------
Guest(g) == Accept(g) \/ ReadStream(g) \/ Leave(g) \/ ReadFrame(g) \/ BadLength(g)

Acceptor == AcceptEnds \/ Register

Serve(g) == ReadEnds(g) \/ WriteHeader(g) \/ WriteFrame(g)

Close == CloseListener \/ Wait \/ \E g \in Guests : ClosePort(g)

Next == Acceptor \/ CloseBegins \/ Close \/ \E g \in Guests : Guest(g) \/ Serve(g)

(***************************************************************************)
(* Fairness: goroutines run, and a goroutine waiting for port.mu gets it   *)
(* in the end (sync.Mutex hands itself to a waiter that starves). Nothing  *)
(* is assumed of the guests, which need not connect, send, read or leave,  *)
(* nor that the hub is ever told to end.                                   *)
(***************************************************************************)
Fairness ==
    /\ WF_vars(Acceptor) /\ WF_vars(Close)
    /\ \A g \in Guests : WF_vars(Serve(g)) /\ SF_vars(WriteHeader(g))

Spec == Init /\ [][Next]_vars /\ Fairness

-----------------------------------------------------------------------------
(* Properties.                                                             *)

\* What a guest is sent is a sequence of whole frames, each header followed by
\* its own frame, however many goroutines flood at once: the stream has nothing
\* to resynchronise on. (And every state is well typed.)
WholeFrames ==
    /\ TypeOK
    /\ \A g \in Guests : \A i \in DOMAIN stream[g] :
          IF i % 2 = 1
          THEN stream[g][i].part = "header"
          ELSE stream[g][i] = [stream[g][i - 1] EXCEPT !.part = "frame"]

\* The frames of g that h has been sent, with their places in what it was sent.
From(g, h) ==
    LET mine == {i \in DOMAIN stream[h] : stream[h][i].part = "header" /\ stream[h][i].from = g}
    IN  {<<i, stream[h][i].n>> : i \in mine}

\* The last frame of g whose flood has got past h.
Passed(g, h) ==
    IF \E i \in DOMAIN serve[g].todo : serve[g].todo[i] = h /\ ~(i = 1 /\ serve[g].at = "frame")
    THEN serve[g].taken - 1
    ELSE serve[g].taken

\* nethub.go: the hub "cannot drop traffic": from the first frame of g that h
\* gets, h gets every frame of g, once and in order, for as long as it is a port
\* and connected, whatever other ports come, go or are slow.
NothingDropped ==
    \A g \in Guests, h \in ports : conn[h] = "open" /\ From(g, h) # {} =>
        /\ \A p, q \in From(g, h) : p[1] < q[1] => p[2] < q[2]
        /\ \E first \in 1 .. MaxFrames : {p[2] : p \in From(g, h)} = first .. Passed(g, h)

\* When Close has returned, no connection is open and no goroutine is left that
\* could touch one, not even for a guest that was being accepted meanwhile.
NothingLeft ==
    closer = "returned" =>
        /\ ports = {}
        /\ \A g \in Guests : conn[g] \in {"off", "closed"} /\ serve[g].at \in {"off", "done"}

\* Close always returns, though floods may be blocked on guests that do not
\* read, and guests connect while it closes.
CloseReturns == closed ~> closer = "returned"

=============================================================================
