---------------------------- MODULE ControlPort ----------------------------
(***************************************************************************)
(* The control port between k0smosctl and a node: the host side (request   *)
(* in cmd/k0smosctl/control.go and Request in internal/control), the       *)
(* virtio-serial port as QEMU and the guest kernel carry it, and the node  *)
(* side (WatchReopen, readOnce, watchEvents, serveRequest and              *)
(* serveCommandAck in internal/control, answerRequest in init_linux.go).   *)
(*                                                                         *)
(* The port is external and modelled from what the code says of it: QEMU   *)
(* relays one client at a time, a line is handed over only while the guest *)
(* has the port open, closing the port discards what was not read, reading *)
(* without a client is EOF, and writing without a client blocks. A reply   *)
(* carries no mark of the request it answers.                              *)
(***************************************************************************)
EXTENDS Naturals, Sequences, FiniteSets

CONSTANTS
    Clients,    \* k0smosctl processes
    Lines,      \* lines they may send: [verb, arg]
    Lower,      \* strings.ToLower on the arguments of Lines
    MaxTries    \* bound: requests each client makes

Requests == {"kubeconfig", "token", "status", "cat", "dmesg"}
Powers == {"poweroff", "reboot"}
None == "none"

ASSUME ControlAssumptions ==
    /\ Lines # {} /\ Lines \subseteq [verb : STRING, arg : DOMAIN Lower]
    /\ MaxTries \in Nat
    /\ None \notin Clients

VARIABLES
    client,  \* client[c]: [at, line, got]
    tries,   \* tries[c]: requests made so far
    conn,    \* the client QEMU is relaying, or None
    sock,    \* its line, still on the host side (0 or 1 of them)
    port,    \* lines in the guest kernel, not read yet
    scan,    \* watchEvents' goroutine: [at, line]
    guest,   \* readOnce and WatchReopen: [at, line, reply]
    wire,    \* replies on their way to the relayed client
    pid1,    \* "waiting" in boot's loop, "stopping", or "cancelled" runCtx
    obeyed,  \* the power command PID1 took, as a set of at most one
    gaveUp   \* history: a client gave up while the node was at work for it

vars == <<client, tries, conn, sock, port, scan, guest, wire, pid1, obeyed, gaveUp>>
hostVars == <<client, tries, conn, sock, gaveUp>>
nodeVars == <<port, scan, guest, pid1, obeyed>>

\* What reaches the responder: watchEvents lower-cases the whole line.
Heard(l) == [l EXCEPT !.arg = Lower[l.arg]]

LinesHeard == Lines \cup {Heard(l) : l \in Lines}
Replies == [kind : {"ok", "error", "ack"}, of : LinesHeard]
NoLine == CHOOSE l \in Lines : TRUE
NoReply == [kind |-> "error", of |-> NoLine]
Listening == [at |-> "range", line |-> NoLine, reply |-> NoReply]

TypeOK ==
    /\ client \in [Clients -> [at : {"idle", "queued", "waiting", "done", "failed"},
                               line : Lines, got : Replies]]
    /\ tries \in [Clients -> 0 .. MaxTries]
    /\ conn \in Clients \cup {None}
    /\ sock \in Seq(Lines) /\ Len(sock) <= 1
    /\ port \in Seq(Lines)
    /\ scan \in [at : {"off", "read", "have", "eof"}, line : LinesHeard]
    /\ guest \in [at : {"closed", "range", "serve", "reply", "ack", "hand", "done"},
                  line : LinesHeard, reply : Replies]
    /\ wire \in Seq(Replies)
    /\ pid1 \in {"waiting", "stopping", "cancelled"}
    /\ obeyed \subseteq Powers
    /\ gaveUp \in BOOLEAN

Init ==
    /\ client = [c \in Clients |-> [at |-> "idle", line |-> NoLine, got |-> NoReply]]
    /\ tries = [c \in Clients |-> 0]
    /\ conn = None
    /\ sock = << >>
    /\ port = << >>
    /\ scan = [at |-> "off", line |-> NoLine]
    /\ guest = [at |-> "closed", line |-> NoLine, reply |-> NoReply]
    /\ wire = << >>
    /\ pid1 = "waiting"
    /\ obeyed = {}
    /\ gaveUp = FALSE

-----------------------------------------------------------------------------
(* The host.                                                               *)

\* request: dial succeeds as soon as QEMU listens, and the line is written.
Dial(c, l) ==
    /\ client[c].at \in {"idle", "done", "failed"}
    /\ tries[c] < MaxTries
    /\ tries' = [tries EXCEPT ![c] = @ + 1]
    /\ client' = [client EXCEPT ![c] = [at |-> "queued", line |-> l, got |-> NoReply]]
    /\ UNCHANGED <<conn, sock, gaveUp, wire, nodeVars>>

\* QEMU takes the next connection once the last one is gone.
Accept(c) ==
    /\ conn = None
    /\ client[c].at = "queued"
    /\ conn' = c
    /\ sock' = <<client[c].line>>
    /\ client' = [client EXCEPT ![c].at = "waiting"]
    /\ UNCHANGED <<tries, gaveUp, wire, nodeVars>>

\* QEMU passes the line on while the guest has the port open.
Deliver ==
    /\ sock # << >>
    /\ guest.at \notin {"closed", "done"}
    /\ port' = Append(port, Head(sock))
    /\ sock' = << >>
    /\ UNCHANGED <<client, tries, conn, gaveUp, scan, guest, wire, pid1, obeyed>>

\* The connection goes away and with it what was still on its way.
Disconnect(c) ==
    IF conn = c THEN conn' = None /\ sock' = << >> /\ wire' = << >>
                ELSE UNCHANGED <<conn, sock, wire>>

\* Request returns with the first reply that arrives on its connection.
Receive(c) ==
    /\ conn = c
    /\ wire # << >>
    /\ client' = [client EXCEPT ![c].at = "done", ![c].got = Head(wire)]
    /\ Disconnect(c)
    /\ UNCHANGED <<tries, gaveUp, nodeVars>>

\* The node, or the path to it, may still come up with an answer.
NodeAtWork ==
    \/ sock # << >> \/ port # << >> \/ wire # << >>
    \/ scan.at = "have"
    \/ guest.at \in {"serve", "reply", "ack"}

\* The connection's deadline passes, whatever the node is doing.
Deadline(c) ==
    /\ client[c].at \in {"queued", "waiting"}
    /\ gaveUp' = (gaveUp \/ (client[c].at = "waiting" /\ NodeAtWork))
    /\ client' = [client EXCEPT ![c].at = "failed"]
    /\ Disconnect(c)
    /\ UNCHANGED <<tries, nodeVars>>

-----------------------------------------------------------------------------
(* The node: watchEvents' goroutine.                                       *)

\* A line that is neither a request nor a power command is skipped.
ScanLine ==
    /\ scan.at = "read"
    /\ port # << >>
    /\ LET l == Heard(Head(port))
       IN scan' = IF l.verb \in Requests \cup Powers THEN [at |-> "have", line |-> l] ELSE scan
    /\ port' = Tail(port)
    /\ UNCHANGED <<hostVars, guest, wire, pid1, obeyed>>

\* With no client attached the port reads EOF.
ScanEOF ==
    /\ scan.at = "read"
    /\ port = << >>
    /\ conn = None
    /\ scan' = [scan EXCEPT !.at = "eof"]
    /\ UNCHANGED <<hostVars, port, guest, wire, pid1, obeyed>>

\* A goroutine with an event to send may see the cancellation instead.
ScanCancelled ==
    /\ scan.at = "have"
    /\ pid1 = "cancelled"
    /\ scan' = [scan EXCEPT !.at = "eof"]
    /\ UNCHANGED <<hostVars, port, guest, wire, pid1, obeyed>>

-----------------------------------------------------------------------------
(* The node: WatchReopen and readOnce.                                     *)

Open ==
    /\ guest.at = "closed"
    /\ pid1 # "cancelled"
    /\ guest' = Listening
    /\ scan' = [scan EXCEPT !.at = "read"]
    /\ UNCHANGED <<hostVars, port, wire, pid1, obeyed>>

\* readOnce receives an event: a request to serve or a command to acknowledge.
Range ==
    /\ guest.at = "range"
    /\ scan.at = "have"
    /\ guest' = [guest EXCEPT !.at = IF scan.line.verb \in Powers THEN "ack" ELSE "serve",
                              !.line = scan.line]
    /\ scan' = [at |-> "read", line |-> NoLine]
    /\ UNCHANGED <<hostVars, port, wire, pid1, obeyed>>

\* Faulty variant of RangeEnd: the port is not reopened.
RangeEndForGood ==
    /\ guest.at = "range"
    /\ scan.at = "eof"
    /\ guest' = [guest EXCEPT !.at = "done"]
    /\ scan' = [scan EXCEPT !.at = "off"]
    /\ port' = << >>
    /\ UNCHANGED <<hostVars, wire, pid1, obeyed>>

\* The event channel is closed: the port is closed, and reopened unless runCtx
\* is done. Closing it discards what was not read.
RangeEnd ==
    /\ guest.at = "range"
    /\ scan.at = "eof"
    /\ guest' = [guest EXCEPT !.at = IF pid1 = "cancelled" THEN "done" ELSE "closed"]
    /\ scan' = [scan EXCEPT !.at = "off"]
    /\ port' = << >>
    /\ UNCHANGED <<hostVars, wire, pid1, obeyed>>

\* Faulty variant of Serve: the same answer whatever was asked.
ServeCached ==
    /\ guest.at = "serve"
    /\ guest' = [guest EXCEPT !.at = "reply", !.reply = [kind |-> "ok", of |-> NoLine]]
    /\ UNCHANGED <<hostVars, port, scan, wire, pid1, obeyed>>

\* The responder answers or fails; minting a token may take minutes.
Serve ==
    /\ guest.at = "serve"
    /\ \E k \in {"ok", "error"} :
          guest' = [guest EXCEPT !.at = "reply", !.reply = [kind |-> k, of |-> guest.line]]
    /\ UNCHANGED <<hostVars, port, scan, wire, pid1, obeyed>>

\* Writing blocks until some client is attached.
Reply ==
    /\ guest.at = "reply"
    /\ conn # None
    /\ wire' = Append(wire, guest.reply)
    /\ guest' = Listening
    /\ UNCHANGED <<hostVars, port, scan, pid1, obeyed>>

\* A power command is acknowledged before PID1 is given it ...
Ack ==
    /\ guest.at = "ack"
    /\ conn # None
    /\ wire' = Append(wire, [kind |-> "ack", of |-> guest.line])
    /\ guest' = [guest EXCEPT !.at = "hand"]
    /\ UNCHANGED <<hostVars, port, scan, pid1, obeyed>>

\* Faulty variants of Hand: the command is offered without blocking, and lost
\* when PID1 is not at its select that instant; any event is taken for one.
HandDropped ==
    /\ guest.at = "hand"
    /\ guest' = Listening
    /\ UNCHANGED <<hostVars, port, scan, wire, pid1, obeyed>>

\* ... and then handed over, if boot's loop is still waiting for one.
Hand ==
    /\ guest.at = "hand"
    /\ pid1 = "waiting"
    /\ pid1' = "stopping"
    /\ obeyed' = {guest.line.verb}
    /\ guest' = Listening
    /\ UNCHANGED <<hostVars, port, scan, wire>>

\* A command behind the first is given up when stopChild cancels runCtx.
HandCancelled ==
    /\ guest.at = "hand"
    /\ pid1 = "cancelled"
    /\ guest' = [guest EXCEPT !.at = "done"]
    /\ scan' = [scan EXCEPT !.at = "off"]
    /\ port' = << >>
    /\ UNCHANGED <<hostVars, wire, pid1, obeyed>>

\* boot has left etcd and calls stopChild.
StopChild ==
    /\ pid1 = "stopping"
    /\ pid1' = "cancelled"
    /\ UNCHANGED <<hostVars, port, scan, guest, wire, obeyed>>

-----------------------------------------------------------------------------
Host ==
    \E c \in Clients : Accept(c) \/ Receive(c) \/ Deadline(c) \/ \E l \in Lines : Dial(c, l)

Scanner == ScanLine \/ ScanEOF \/ ScanCancelled

Watcher == Open \/ Range \/ RangeEnd \/ Serve \/ Reply \/ Ack \/ Hand \/ HandCancelled

Next == Host \/ Deliver \/ Scanner \/ Watcher \/ StopChild

(***************************************************************************)
(* Fairness: the node's goroutines are scheduled, QEMU relays, replies and *)
(* deadlines are noticed. No client is obliged to ask for anything.        *)
(***************************************************************************)
Fairness ==
    /\ WF_vars(Deliver) /\ WF_vars(Scanner) /\ WF_vars(Watcher) /\ WF_vars(StopChild)
    /\ \A c \in Clients : WF_vars(Accept(c) \/ Receive(c) \/ Deadline(c))

Spec == Init /\ [][Next]_vars /\ Fairness

-----------------------------------------------------------------------------
(* Properties.                                                             *)

\* The answer to line l, verb and argument, as the node heard l: lower-cased.
Answers(reply, l) ==
    /\ reply.of = Heard(l)
    /\ reply.kind = "ack" <=> l.verb \in Powers

\* However two clients share the port, what one is given as its answer is the
\* answer to the line it sent itself, its argument included, as the node heard
\* that line, as long as nobody has given up on a request that the node was
\* still at work on. What hearing does to a line is CatAsAsked's concern. (The
\* type invariant is a conjunct of it.)
ReplyMatches ==
    /\ TypeOK
    /\ ~gaveUp =>
        \A c \in Clients : client[c].at = "done" => Answers(client[c].got, client[c].line)

\* "RequestCat asks for a file from the node, as "cat /path"" (control.go): a
\* client that got an answer got it for the path it named. The code does not keep
\* this: the path is lower-cased with its line.
CatAsAsked ==
    \A c \in Clients :
        client[c].at = "done" /\ client[c].line.verb = "cat" /\ client[c].got.kind = "ok" =>
            gaveUp \/ client[c].got.of.arg = client[c].line.arg

\* An acknowledged power command always gets to PID1, unless PID1 is already on
\* its way down: the acknowledgement that precedes it is not an empty promise.
AckObeyed == guest.at = "hand" ~> obeyed # {}

\* Whatever happens to clients and their connections, the node is back
\* listening, or blocked only for want of a client to write to, until the node
\* is being stopped.
PortRecovers ==
    guest.at # "range" ~> \/ guest.at = "range"
                          \/ guest.at \in {"reply", "ack"} /\ conn = None
                          \/ pid1 = "cancelled"
=============================================================================
