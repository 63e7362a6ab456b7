-------------------------- MODULE Goroutines_proofs --------------------------
(***************************************************************************)
(* Two of PID1's goroutines that module Pid1 takes in one step: the reaper *)
(* and the watcher of the control port.                                    *)
(*                                                                         *)
(* For any processes PID1 started and any orphans it adopted, the          *)
(* coalescing SIGCHLD path loses no wakeup and cmd.Wait never leaves a     *)
(* process behind.                                                         *)
(*                                                                         *)
(* For any clients and any lines they send, however often the port is      *)
(* dialled, closed and reopened: a k0smosctl that gets an answer gets the  *)
(* answer to its own request, as long as no client gave up waiting.        *)
(***************************************************************************)
EXTENDS Reaper, ControlPort, TLAPS

-----------------------------------------------------------------------------
(* The reaper.                                                             *)


\* The wakeup argument needs no other invariant than the type: a zombie
\* appears together with SIGCHLD, each hop hands the wakeup on before letting
\* go of its own, and the drain ends only in a state without zombies.
ReaperInv == ReaperTypeOK /\ NoLostWakeup /\ WaitedFor

\* The type invariant is preserved by every step of PID1 and the kernel.
LEMMA ReaperTypeStep == ReaperTypeOK /\ [ReaperNext]_reaperVars => ReaperTypeOK'
<1> SUFFICES ASSUME ReaperTypeOK, [ReaperNext]_reaperVars PROVE ReaperTypeOK'
  OBVIOUS
<1>a. Kids \subseteq Procs /\ Orphans \subseteq Procs
  BY DEF Procs
<1>1. CASE UNCHANGED reaperVars
  BY <1>1 DEF reaperVars, ReaperTypeOK
<1>2. ASSUME NEW p \in Procs, Exit(p) PROVE ReaperTypeOK'
  <2>1. sigchld' \in BOOLEAN
    BY <1>2 DEF Exit
  <2> QED BY <1>2, <2>1 DEF Exit, ReaperTypeOK
<1>3. ASSUME NEW p \in Procs, Reap(p) PROVE ReaperTypeOK'
  BY <1>3 DEF Reap, ReaperTypeOK
<1>4. ASSUME NEW o \in Orphans, Adopt(o) PROVE ReaperTypeOK'
  BY <1>4, <1>a DEF Adopt, ReaperTypeOK
<1>5. ASSUME NEW k \in Kids, CmdStart(k) \/ CmdWait(k) \/ CmdWaitECHILD(k) PROVE ReaperTypeOK'
  BY <1>5, <1>a DEF CmdStart, CmdWait, CmdWaitECHILD, ReaperTypeOK
<1>6. CASE Notify
  <2>1. sigchld' \in BOOLEAN /\ chld' \in BOOLEAN
    BY <1>6 DEF Notify
  <2> QED BY <1>6, <2>1 DEF Notify, ReaperTypeOK
<1>7. CASE PumpRecv \/ PumpSend
  <2>1. chld' \in BOOLEAN /\ trigger' \in BOOLEAN
    BY <1>7, Zenon DEF PumpRecv, PumpSend, ReaperTypeOK
  <2> QED BY <1>7, <2>1 DEF PumpRecv, PumpSend, ReaperTypeOK
<1>8. CASE ReaperWake
  <2>1. trigger' \in BOOLEAN
    BY <1>8 DEF ReaperWake
  <2> QED BY <1>8, <2>1 DEF ReaperWake, ReaperTypeOK
<1>9. CASE DrainEnd \/ ReaperStop
  BY <1>9 DEF DrainEnd, ReaperStop, ReaperTypeOK
<1>10. CASE CancelRun
  <2>1. ctxDone' \in BOOLEAN
    BY <1>10 DEF CancelRun
  <2> QED BY <1>10, <2>1 DEF CancelRun, ReaperTypeOK
<1> QED
  BY <1>1, <1>2, <1>3, <1>4, <1>5, <1>6, <1>7, <1>8, <1>9, <1>10 DEF ReaperNext

\* No step lets go of the last wakeup while a zombie is left.
LEMMA WakeupStep ==
  ASSUME ReaperTypeOK, NoLostWakeup, ReaperNext
  PROVE  NoLostWakeup'
<1> USE DEF NoLostWakeup, Wakeup
<1>a. Kids \subseteq Procs /\ Orphans \subseteq Procs
  BY DEF Procs
<1>1. ASSUME NEW p \in Procs, Exit(p) PROVE NoLostWakeup'
  BY <1>1 DEF Exit
<1>2. ASSUME NEW p \in Procs, Reap(p) PROVE NoLostWakeup'
  BY <1>2 DEF Reap
<1>3. ASSUME NEW o \in Orphans, Adopt(o) PROVE NoLostWakeup'
  BY <1>3, <1>a DEF Adopt, ReaperTypeOK
<1>4. ASSUME NEW k \in Kids, CmdStart(k) \/ CmdWait(k) \/ CmdWaitECHILD(k)
      PROVE  NoLostWakeup'
  BY <1>4, <1>a DEF CmdStart, CmdWait, CmdWaitECHILD, ReaperTypeOK
<1>5. CASE Notify \/ PumpRecv \/ PumpSend \/ ReaperWake
  BY <1>5 DEF Notify, PumpRecv, PumpSend, ReaperWake
<1>6. CASE DrainEnd \/ ReaperStop \/ CancelRun
  BY <1>6 DEF DrainEnd, ReaperStop, CancelRun
<1> QED BY <1>1, <1>2, <1>3, <1>4, <1>5, <1>6 DEF ReaperNext

\* cmd.Wait returns only when its process is out of the process table.
LEMMA WaitedStep ==
  ASSUME ReaperTypeOK, WaitedFor, ReaperNext
  PROVE  WaitedFor'
<1> USE DEF WaitedFor
<1>a. Kids \subseteq Procs /\ Orphans \subseteq Procs
  BY DEF Procs
<1>1. ASSUME NEW p \in Procs, Exit(p) \/ Reap(p) PROVE WaitedFor'
  BY <1>1, <1>a DEF Exit, Reap, ReaperTypeOK
<1>2. ASSUME NEW o \in Orphans, Adopt(o) PROVE WaitedFor'
  BY <1>2, <1>a, DisjointProcs DEF Adopt, ReaperTypeOK
<1>3. ASSUME NEW k \in Kids, CmdStart(k) \/ CmdWait(k) \/ CmdWaitECHILD(k)
      PROVE  WaitedFor'
  BY <1>3, <1>a DEF CmdStart, CmdWait, CmdWaitECHILD, ReaperTypeOK
<1>4. CASE Notify \/ PumpRecv \/ PumpSend \/ ReaperWake \/ DrainEnd \/ ReaperStop \/ CancelRun
  BY <1>4 DEF Notify, PumpRecv, PumpSend, ReaperWake, DrainEnd, ReaperStop, CancelRun
<1> QED BY <1>1, <1>2, <1>3, <1>4 DEF ReaperNext

\* The inductive invariant holds in every reachable state.
THEOREM ReaperInvariance == ReaperSpec => []ReaperInv
<1>1. ReaperInit => ReaperInv
  <2> SUFFICES ASSUME ReaperInit PROVE ReaperInv
    OBVIOUS
  <2>1. sigchld \in BOOLEAN /\ chld \in BOOLEAN /\ trigger \in BOOLEAN /\ ctxDone \in BOOLEAN
    BY DEF ReaperInit
  <2>2. ReaperTypeOK
    BY <2>1 DEF ReaperInit, ReaperTypeOK
  <2>3. NoLostWakeup /\ WaitedFor
    BY DEF ReaperInit, NoLostWakeup, WaitedFor, Procs
  <2> QED BY <2>2, <2>3 DEF ReaperInv
<1>2. ReaperInv /\ [ReaperNext]_reaperVars => ReaperInv'
  <2> SUFFICES ASSUME ReaperInv, [ReaperNext]_reaperVars PROVE ReaperInv'
    OBVIOUS
  <2>1. ReaperTypeOK'
    BY ReaperTypeStep DEF ReaperInv
  <2>2. CASE ReaperNext
    BY <2>1, <2>2, WakeupStep, WaitedStep DEF ReaperInv
  <2>3. CASE UNCHANGED reaperVars
    BY <2>1, <2>3 DEF reaperVars, ReaperInv, NoLostWakeup, Wakeup, WaitedFor
  <2> QED BY <2>2, <2>3
<1> QED BY <1>1, <1>2, PTL DEF ReaperSpec

\* A zombie always has a wakeup on its way until the reaper is stopped.
THEOREM WakeupsKept == ReaperSpec => []NoLostWakeup
<1>1. ReaperInv => NoLostWakeup
  BY DEF ReaperInv
<1> QED BY <1>1, ReaperInvariance, PTL

\* A returned cmd.Wait leaves no process, so a workload is never doubled.
THEOREM WaitLeavesNothing == ReaperSpec => []WaitedFor
<1>1. ReaperInv => WaitedFor
  BY DEF ReaperInv
<1> QED BY <1>1, ReaperInvariance, PTL

-----------------------------------------------------------------------------
(* The control port.                                                       *)

\* Requests are answered, and only power commands acknowledged.
Kind(r) == r.kind = "ack" <=> r.of.verb \in Powers

Kinds ==
    /\ guest.at = "serve" => guest.line.verb \notin Powers
    /\ guest.at \in {"ack", "hand"} => guest.line.verb \in Powers
    /\ guest.at = "reply" => Kind(guest.reply)
    /\ \A i \in DOMAIN wire : Kind(wire[i])

\* The client QEMU relays is the only one waiting for what the node does.
Relayed == conn # None => client[conn].at = "waiting"

\* Until a client gives up on the node's work, one line at the most is on its way
\* through the node, or its reply back, and it is the relayed client's: the whole
\* line, and from the scanner on the line as it was heard.
OfClient(l) == conn # None /\ l = client[conn].line
HeardOf(l) == conn # None /\ l = Heard(client[conn].line)

OneAtATime ==
    /\ \A i \in DOMAIN sock : i = 1 /\ OfClient(sock[i])
    /\ \A i \in DOMAIN port : i = 1 /\ OfClient(port[i])
    /\ \A i \in DOMAIN wire : i = 1 /\ HeardOf(wire[i].of)
    /\ scan.at = "have" => HeardOf(scan.line)
    /\ guest.at \in {"serve", "ack"} => HeardOf(guest.line)
    /\ guest.at = "reply" => HeardOf(guest.reply.of)
    /\ sock # << >> => port = << >> /\ wire = << >> /\ scan.at # "have"
    /\ port # << >> => wire = << >> /\ scan.at # "have"
    /\ wire # << >> => scan.at # "have"
    /\ guest.at \in {"serve", "ack", "reply"} =>
          sock = << >> /\ port = << >> /\ wire = << >> /\ scan.at # "have"

IInv ==
    /\ ReplyMatches
    /\ Kinds
    /\ Relayed
    /\ ~gaveUp => OneAtATime

\* Whatever is done to the port, every part of it keeps its type.
LEMMA TypeInit == Init => TypeOK
<1> SUFFICES ASSUME Init PROVE TypeOK
  OBVIOUS
<1>1. NoLine \in Lines
  BY ControlAssumptions DEF NoLine
<1>2. NoReply \in Replies
  BY <1>1 DEF NoReply, Replies, LinesHeard
<1>3. tries \in [Clients -> 0 .. MaxTries]
  BY ControlAssumptions DEF Init
<1>4. client \in [Clients -> [at : {"idle", "queued", "waiting", "done", "failed"},
                              line : Lines, got : Replies]]
  BY <1>1, <1>2 DEF Init
<1>5. /\ scan \in [at : {"off", "read", "have", "eof"}, line : LinesHeard]
      /\ guest \in [at : {"closed", "range", "serve", "reply", "ack", "hand", "done"},
                    line : LinesHeard, reply : Replies]
  BY <1>1, <1>2 DEF Init, LinesHeard
<1>6. gaveUp \in BOOLEAN
  BY DEF Init
<1> QED
  BY <1>3, <1>4, <1>5, <1>6 DEF Init, TypeOK

\* The records the node is built from, with a field changed.
LEMMA Fields ==
    ASSUME TypeOK
    PROVE  /\ NoLine \in LinesHeard /\ NoLine \in Lines /\ NoReply \in Replies
           /\ Listening \in [at : {"range"}, line : LinesHeard, reply : Replies]
           /\ \A l \in Lines : Heard(l) \in LinesHeard /\ Heard(l).verb = l.verb
           /\ \A c \in Clients : client[c].at \in {"idle", "queued", "waiting", "done", "failed"}
                                 /\ client[c].line \in Lines /\ client[c].got \in Replies
<1>1. NoLine \in Lines
  BY ControlAssumptions DEF NoLine
<1>2. NoLine \in LinesHeard
  BY <1>1 DEF LinesHeard
<1>3. NoReply \in Replies
  BY <1>2 DEF NoReply, Replies
<1>4. Listening \in [at : {"range"}, line : LinesHeard, reply : Replies]
  BY <1>2, <1>3 DEF Listening
<1>5. ASSUME NEW l \in Lines  PROVE Heard(l) \in LinesHeard /\ Heard(l).verb = l.verb
  BY ControlAssumptions DEF Heard, LinesHeard
<1>6. \A c \in Clients : client[c].at \in {"idle", "queued", "waiting", "done", "failed"}
                                 /\ client[c].line \in Lines /\ client[c].got \in Replies
  BY DEF TypeOK
<1> QED
  BY <1>1, <1>2, <1>3, <1>4, <1>5, <1>6

\* How the host's steps change a client.
LEMMA ClientMoves ==
    ASSUME TypeOK, NEW c \in Clients,
           NEW at \in {"idle", "queued", "waiting", "done", "failed"}, NEW got \in Replies,
           \/ client' = [client EXCEPT ![c].at = at] /\ got = client[c].got
           \/ client' = [client EXCEPT ![c].at = at, ![c].got = got]
    PROVE  /\ client' \in [Clients -> [at : {"idle", "queued", "waiting", "done", "failed"},
                                       line : Lines, got : Replies]]
           /\ client'[c].at = at /\ client'[c].line = client[c].line /\ client'[c].got = got
           /\ \A d \in Clients \ {c} : client'[d] = client[d]
<1> DEFINE R == [at : {"idle", "queued", "waiting", "done", "failed"},
                 line : Lines, got : Replies]
<1> DEFINE r == [at |-> at, line |-> client[c].line, got |-> got]
<1>1. client \in [Clients -> R]
  BY DEF TypeOK
<1>2. client[c] \in R
  BY <1>1
<1>3. r \in R /\ r.at = at /\ r.line = client[c].line /\ r.got = got
  BY <1>2
<1>4. client' = [client EXCEPT ![c] = r]
  <2>1. CASE client' = [client EXCEPT ![c].at = at] /\ got = client[c].got
    BY <1>2, <2>1
  <2>2. CASE client' = [client EXCEPT ![c].at = at, ![c].got = got]
    <3>1. client' = [client EXCEPT ![c] = [[client[c] EXCEPT !.at = at] EXCEPT !.got = got]]
      BY <1>1, <2>2
    <3>2. [client[c] EXCEPT !.at = at] = [at |-> at, line |-> client[c].line, got |-> client[c].got]
      BY <1>2
    <3>3. [[at |-> at, line |-> client[c].line, got |-> client[c].got] EXCEPT !.got = got] = r
      OBVIOUS
    <3> QED
      BY <3>1, <3>2, <3>3
  <2> QED
    BY <2>1, <2>2
<1> HIDE DEF r, R
<1>5. /\ client' \in [Clients -> R] /\ client'[c] = r
      /\ \A d \in Clients \ {c} : client'[d] = client[d]
  BY <1>1, <1>3, <1>4
<1> QED
  BY <1>3, <1>5 DEF R

LEMMA TypeStep == TypeOK /\ Kinds /\ [Next]_vars => TypeOK'
<1> SUFFICES ASSUME TypeOK, Kinds, [Next]_vars PROVE TypeOK'
  OBVIOUS
<1> DEFINE GuestTypes == [at : {"closed", "range", "serve", "reply", "ack", "hand", "done"},
                          line : LinesHeard, reply : Replies]
<1> DEFINE ScanTypes == [at : {"off", "read", "have", "eof"}, line : LinesHeard]
<1>1. CASE UNCHANGED vars
  BY <1>1 DEF vars, TypeOK
<1>2. ASSUME NEW c \in Clients, NEW l \in Lines, Dial(c, l)  PROVE TypeOK'
  <2>1. tries' \in [Clients -> 0 .. MaxTries]
    BY <1>2, ControlAssumptions DEF Dial, TypeOK
  <2>2. [at |-> "queued", line |-> l, got |-> NoReply] \in
           [at : {"idle", "queued", "waiting", "done", "failed"}, line : Lines, got : Replies]
    BY Fields
  <2>3. client' \in [Clients -> [at : {"idle", "queued", "waiting", "done", "failed"},
                                 line : Lines, got : Replies]]
    BY <1>2, <2>2 DEF Dial, TypeOK
  <2> QED
    BY <1>2, <2>1, <2>3 DEF Dial, nodeVars, TypeOK
<1>3. ASSUME NEW c \in Clients, Accept(c)  PROVE TypeOK'
  <2>1. client' \in [Clients -> [at : {"idle", "queued", "waiting", "done", "failed"},
                                 line : Lines, got : Replies]]
    BY <1>3, ClientMoves, Fields DEF Accept
  <2>2. sock' \in Seq(Lines) /\ Len(sock') <= 1
    BY <1>3, Fields DEF Accept
  <2> QED
    BY <1>3, <2>1, <2>2 DEF Accept, nodeVars, TypeOK
<1>4. ASSUME NEW c \in Clients, Receive(c) \/ Deadline(c)  PROVE TypeOK'
  <2>1. wire # << >> => Head(wire) \in Replies
    BY DEF TypeOK
  <2>2. client' \in [Clients -> [at : {"idle", "queued", "waiting", "done", "failed"},
                                 line : Lines, got : Replies]]
    BY <1>4, <2>1, ClientMoves, Fields DEF Receive, Deadline
  <2>3. /\ conn' \in Clients \cup {None} /\ sock' \in Seq(Lines) /\ Len(sock') <= 1
        /\ wire' \in Seq(Replies)
    <3>1. Disconnect(c)
      BY <1>4 DEF Receive, Deadline
    <3>2. CASE conn' = None /\ sock' = << >> /\ wire' = << >>
      <4>1. Len(sock') = 0 /\ sock' \in Seq(Lines) /\ wire' \in Seq(Replies)
        BY <3>2
      <4> QED
        BY <3>2, <4>1
    <3>3. CASE UNCHANGED <<conn, sock, wire>>
      BY <3>3 DEF TypeOK
    <3> QED
      BY <3>1, <3>2, <3>3 DEF Disconnect
  <2>4. gaveUp' \in BOOLEAN
    <3>1. CASE Receive(c)
      BY <3>1 DEF Receive, TypeOK
    <3>2. CASE Deadline(c)
      BY <3>2 DEF Deadline
    <3> QED
      BY <1>4, <3>1, <3>2
  <2>5. UNCHANGED <<tries, nodeVars>>
    BY <1>4 DEF Receive, Deadline
  <2> QED
    BY <2>2, <2>3, <2>4, <2>5 DEF nodeVars, TypeOK
<1>5. CASE Deliver
  <2>1. port' \in Seq(Lines) /\ sock' \in Seq(Lines) /\ Len(sock') <= 1
    BY <1>5 DEF Deliver, TypeOK
  <2> QED
    BY <1>5, <2>1 DEF Deliver, TypeOK
<1>6. CASE ScanLine
  <2>1. port' \in Seq(Lines)
    BY <1>6 DEF ScanLine, TypeOK
  <2>2. Head(port) \in Lines
    BY <1>6 DEF ScanLine, TypeOK
  <2>3. scan' \in ScanTypes
    <3>1. scan' = scan \/ scan' = [at |-> "have", line |-> Heard(Head(port))]
      BY <1>6 DEF ScanLine
    <3> QED
      BY <2>2, <3>1, Fields DEF TypeOK
  <2> QED
    BY <1>6, <2>1, <2>3 DEF ScanLine, hostVars, TypeOK
<1>7. CASE ScanEOF \/ ScanCancelled
  <2>1. scan' \in ScanTypes
    BY <1>7 DEF ScanEOF, ScanCancelled, TypeOK
  <2> QED
    BY <1>7, <2>1 DEF ScanEOF, ScanCancelled, hostVars, TypeOK
<1>8. CASE Open
  <2>1. scan' \in ScanTypes
    BY <1>8 DEF Open, TypeOK
  <2>2. guest' \in GuestTypes
    BY <1>8, Fields DEF Open
  <2> QED
    BY <1>8, <2>1, <2>2 DEF Open, hostVars, TypeOK
<1>9. CASE Range
  <2>1. scan' \in ScanTypes
    BY <1>9, Fields DEF Range
  <2>2. guest' \in GuestTypes
    BY <1>9 DEF Range, TypeOK
  <2> QED
    BY <1>9, <2>1, <2>2 DEF Range, hostVars, TypeOK
<1>10. CASE RangeEnd \/ HandCancelled
  <2>1. scan' \in ScanTypes
    BY <1>10 DEF RangeEnd, HandCancelled, TypeOK
  <2>2. guest' \in GuestTypes
    BY <1>10 DEF RangeEnd, HandCancelled, TypeOK
  <2>3. port' \in Seq(Lines)
    <3>1. port' = << >>
      BY <1>10 DEF RangeEnd, HandCancelled
    <3> QED
      BY <3>1
  <2> QED
    BY <1>10, <2>1, <2>2, <2>3 DEF RangeEnd, HandCancelled, hostVars, TypeOK
<1>11. CASE Serve
  <2>1. PICK k \in {"ok", "error"} :
           guest' = [guest EXCEPT !.at = "reply", !.reply = [kind |-> k, of |-> guest.line]]
    BY <1>11 DEF Serve
  <2>2. [kind |-> k, of |-> guest.line] \in Replies
    BY DEF TypeOK, Replies
  <2>3. guest' \in GuestTypes
    BY <2>1, <2>2 DEF TypeOK
  <2> QED
    BY <1>11, <2>3 DEF Serve, hostVars, TypeOK
<1>12. CASE Reply
  <2>1. wire' \in Seq(Replies)
    BY <1>12 DEF Reply, TypeOK
  <2>2. guest' \in GuestTypes
    BY <1>12, Fields DEF Reply
  <2> QED
    BY <1>12, <2>1, <2>2 DEF Reply, hostVars, TypeOK
<1>13. CASE Ack
  <2>1. [kind |-> "ack", of |-> guest.line] \in Replies
    BY DEF TypeOK, Replies
  <2>2. wire' \in Seq(Replies)
    BY <1>13, <2>1 DEF Ack, TypeOK
  <2>3. guest' \in GuestTypes
    BY <1>13 DEF Ack, TypeOK
  <2> QED
    BY <1>13, <2>2, <2>3 DEF Ack, hostVars, TypeOK
<1>14. CASE Hand
  <2>1. guest' \in GuestTypes
    BY <1>14, Fields DEF Hand
  <2>2. pid1' \in {"waiting", "stopping", "cancelled"}
    BY <1>14 DEF Hand
  <2>3. obeyed' \subseteq Powers
    BY <1>14 DEF Hand, Kinds
  <2> QED
    BY <1>14, <2>1, <2>2, <2>3 DEF Hand, hostVars, TypeOK
<1>15. CASE StopChild
  BY <1>15 DEF StopChild, hostVars, TypeOK
<1> QED
  BY <1>1, <1>2, <1>3, <1>4, <1>5, <1>6, <1>7, <1>8, <1>9, <1>10, <1>11, <1>12, <1>13,
     <1>14, <1>15 DEF Next, Host, Scanner, Watcher

\* What the steps of the node and the host leave alone.
LEMMA KindsStep == TypeOK /\ Kinds /\ [Next]_vars => Kinds'
<1> SUFFICES ASSUME TypeOK, Kinds, [Next]_vars PROVE Kinds'
  OBVIOUS
<1> USE DEF Kinds
<1>a. Listening.at = "range"
  BY DEF Listening
<1>b. wire \in Seq(Replies) /\ guest.reply \in Replies
  BY DEF TypeOK
<1>1. CASE UNCHANGED <<guest, wire>>
  BY <1>1
<1>2. CASE wire' = << >> /\ UNCHANGED guest
  BY <1>2
<1>3. CASE Host
  <2>1. PICK c \in Clients : Accept(c) \/ Receive(c) \/ Deadline(c) \/ \E l \in Lines : Dial(c, l)
    BY <1>3 DEF Host
  <2>2. UNCHANGED guest /\ (UNCHANGED wire \/ wire' = << >>)
    BY <2>1 DEF Accept, Receive, Deadline, Dial, Disconnect, nodeVars
  <2> QED
    BY <1>1, <1>2, <2>2
<1>4. CASE Deliver \/ Scanner \/ StopChild \/ UNCHANGED vars
  BY <1>1, <1>4 DEF Deliver, Scanner, ScanLine, ScanEOF, ScanCancelled, StopChild, vars
<1>5. CASE UNCHANGED wire /\ guest'.at \in {"closed", "range", "done"}
  BY <1>5
<1>6. CASE Open \/ RangeEnd \/ Hand \/ HandCancelled
  <2>1. guest'.at \in {"closed", "range", "done"}
    BY <1>6, <1>a DEF Open, RangeEnd, Hand, HandCancelled, TypeOK
  <2> QED
    BY <1>5, <1>6, <2>1 DEF Open, RangeEnd, Hand, HandCancelled
<1>7. CASE Range
  <2>1. /\ guest'.at = IF scan.line.verb \in Powers THEN "ack" ELSE "serve"
        /\ guest'.line = scan.line
    BY <1>7 DEF Range, TypeOK
  <2> QED
    BY <1>7, <2>1 DEF Range
<1>8. CASE Serve
  <2>1. PICK k \in {"ok", "error"} :
           guest' = [guest EXCEPT !.at = "reply", !.reply = [kind |-> k, of |-> guest.line]]
    BY <1>8 DEF Serve
  <2>2. guest'.at = "reply" /\ guest'.reply = [kind |-> k, of |-> guest.line]
    BY <2>1 DEF TypeOK
  <2>3. Kind([kind |-> k, of |-> guest.line])
    BY <1>8 DEF Serve, Kind
  <2> QED
    BY <1>8, <2>2, <2>3 DEF Serve
<1>9. ASSUME NEW r \in Replies, Kind(r), wire' = Append(wire, r)
      PROVE  \A i \in DOMAIN wire' : Kind(wire'[i])
  BY <1>9, <1>b
<1>10. CASE Reply
  <2>1. wire' = Append(wire, guest.reply) /\ guest'.at = "range" /\ Kind(guest.reply)
    BY <1>10, <1>a DEF Reply
  <2> QED
    BY <1>9, <1>b, <2>1
<1>11. CASE Ack
  <2> DEFINE r == [kind |-> "ack", of |-> guest.line]
  <2>1. r \in Replies /\ Kind(r)
    BY <1>11 DEF Ack, TypeOK, Replies, Kind
  <2>2. wire' = Append(wire, r)
    BY <1>11 DEF Ack
  <2>3. guest'.at = "hand" /\ guest'.line = guest.line /\ guest.at = "ack"
    BY <1>11 DEF Ack, TypeOK
  <2> HIDE DEF r
  <2>4. \A i \in DOMAIN wire' : Kind(wire'[i])
    BY <1>9, <2>1, <2>2
  <2> QED
    BY <2>3, <2>4
<1> QED
  BY <1>3, <1>4, <1>6, <1>7, <1>8, <1>10, <1>11 DEF Next, Watcher

\* A client is relayed from when QEMU accepts it until it has an answer or
\* gives up.
LEMMA RelayedStep == TypeOK /\ Relayed /\ [Next]_vars => Relayed'
<1> SUFFICES ASSUME TypeOK, Relayed, [Next]_vars PROVE Relayed'
  OBVIOUS
<1> USE DEF Relayed
<1>0. conn \in Clients \cup {None}
  BY DEF TypeOK
<1>1. CASE UNCHANGED <<client, conn>>
  BY <1>1
<1>2. CASE Deliver \/ Scanner \/ Watcher \/ StopChild \/ UNCHANGED vars
  <2>1. UNCHANGED <<client, conn>>
    BY <1>2 DEF Deliver, Scanner, ScanLine, ScanEOF, ScanCancelled, Watcher, Open, Range,
       RangeEnd, Serve, Reply, Ack, Hand, HandCancelled, StopChild, hostVars, vars
  <2> QED
    BY <1>1, <2>1
<1>3. ASSUME NEW c \in Clients, NEW l \in Lines, Dial(c, l)  PROVE Relayed'
  <2>1. conn # c
    BY <1>3, ControlAssumptions DEF Dial
  <2> QED
    BY <1>0, <1>3, <2>1 DEF Dial, TypeOK
<1>4. ASSUME NEW c \in Clients, Accept(c)  PROVE Relayed'
  <2>1. client'[c].at = "waiting"
    BY <1>4, ClientMoves, Fields DEF Accept
  <2> QED
    BY <1>4, <2>1 DEF Accept
<1>5. ASSUME NEW c \in Clients, Receive(c) \/ Deadline(c)  PROVE Relayed'
  <2>1. \A d \in Clients \ {c} : client'[d] = client[d]
    BY <1>5 DEF Receive, Deadline, TypeOK
  <2>2. conn' # c /\ (conn' = conn \/ conn' = None)
    BY <1>5, ControlAssumptions DEF Receive, Deadline, Disconnect
  <2> QED
    BY <1>0, <2>1, <2>2
<1> QED
  BY <1>2, <1>3, <1>4, <1>5 DEF Next, Host

\* Nothing is on its way while no client is relayed.
LEMMA NothingOnItsWay ==
    ASSUME TypeOK, OneAtATime, conn = None
    PROVE  /\ sock = << >> /\ port = << >> /\ wire = << >> /\ scan.at # "have"
           /\ guest.at \notin {"serve", "ack", "reply"}
BY DEF TypeOK, OneAtATime, OfClient, HeardOf

\* The steps of the clients and of QEMU keep it to one line at a time: the next
\* client is accepted only when nothing is left of the one before.
LEMMA HostStep ==
    ASSUME TypeOK, Relayed, OneAtATime, Host, ~gaveUp'
    PROVE  OneAtATime'
<1> USE DEF OneAtATime, OfClient, HeardOf
<1>0. conn \in Clients \cup {None} /\ None \notin Clients
  BY ControlAssumptions DEF TypeOK
<1>1. ASSUME NEW c \in Clients, NEW l \in Lines, Dial(c, l)  PROVE OneAtATime'
  <2>1. conn # c
    BY <1>0, <1>1 DEF Dial, Relayed
  <2>2. conn # None => client'[conn] = client[conn]
    BY <1>0, <1>1, <2>1 DEF Dial, TypeOK
  <2>3. UNCHANGED <<conn, sock, port, scan, guest, wire>>
    BY <1>1 DEF Dial, nodeVars
  <2> QED
    BY <2>2, <2>3
<1>2. ASSUME NEW c \in Clients, Accept(c)  PROVE OneAtATime'
  <2>1. client'[c].line = client[c].line
    BY <1>2, ClientMoves, Fields DEF Accept
  <2>2. conn' = c /\ sock' = <<client[c].line>> /\ UNCHANGED <<port, scan, guest, wire>>
    BY <1>2 DEF Accept, nodeVars
  <2>3. /\ port = << >> /\ wire = << >> /\ scan.at # "have"
        /\ guest.at \notin {"serve", "ack", "reply"}
    BY <1>2, NothingOnItsWay DEF Accept
  <2> QED
    BY <1>0, <2>1, <2>2, <2>3
<1>3. ASSUME NEW c \in Clients, Receive(c)  PROVE OneAtATime'
  <2>1. conn' = None /\ sock' = << >> /\ wire' = << >> /\ UNCHANGED <<port, scan, guest>>
    BY <1>3 DEF Receive, Disconnect, nodeVars
  <2>2. /\ port = << >> /\ scan.at # "have" /\ guest.at \notin {"serve", "ack", "reply"}
    BY <1>3 DEF Receive
  <2> QED
    BY <2>1, <2>2
<1>4. ASSUME NEW c \in Clients, Deadline(c)  PROVE OneAtATime'
  <2>1. /\ \A d \in Clients \ {c} : client'[d] = client[d]
        /\ UNCHANGED <<port, scan, guest>>
    BY <1>4 DEF Deadline, nodeVars, TypeOK
  <2>2. CASE conn = c
    <3>1. client[c].at = "waiting"
      BY <1>0, <2>2 DEF Relayed
    <3>2. ~NodeAtWork
      BY <1>4, <3>1 DEF Deadline
    <3>3. conn' = None /\ sock' = << >> /\ wire' = << >>
      BY <1>4, <2>2 DEF Deadline, Disconnect
    <3> QED
      BY <2>1, <3>2, <3>3 DEF NodeAtWork
  <2>3. CASE conn # c
    <3>1. UNCHANGED <<conn, sock, wire>>
      BY <1>4, <2>3 DEF Deadline, Disconnect
    <3>2. conn # None => client'[conn] = client[conn]
      BY <1>0, <2>1, <2>3
    <3> QED
      BY <2>1, <3>1, <3>2
  <2> QED
    BY <2>2, <2>3
<1> QED
  BY <1>1, <1>2, <1>3, <1>4 DEF Host

\* The node takes the line through the port, the scanner and the responder, and
\* turns it into the one reply.
LEMMA NodeStep ==
    ASSUME TypeOK, OneAtATime, Deliver \/ Scanner \/ Watcher \/ StopChild
    PROVE  OneAtATime'
<1> USE DEF OneAtATime, OfClient, HeardOf
<1>0. UNCHANGED <<client, conn>>
  BY DEF Deliver, Scanner, ScanLine, ScanEOF, ScanCancelled, Watcher, Open, Range,
     RangeEnd, Serve, Reply, Ack, Hand, HandCancelled, StopChild, hostVars
<1>a. /\ sock \in Seq(Lines) /\ port \in Seq(Lines) /\ wire \in Seq(Replies)
      /\ Len(sock) <= 1 /\ guest.reply \in Replies
      /\ Listening.at = "range"
  BY DEF TypeOK, Listening
<1>1. CASE Deliver
  <2>1. sock # << >> /\ port' = Append(port, Head(sock)) /\ sock' = << >>
        /\ UNCHANGED <<scan, guest, wire>>
    BY <1>1 DEF Deliver
  <2>2. port = << >> /\ wire = << >> /\ scan.at # "have"
        /\ guest.at \notin {"serve", "ack", "reply"}
    BY <2>1
  <2>3. port' = <<sock[1]>> /\ 1 \in DOMAIN sock
    BY <1>a, <2>1, <2>2
  <2> QED
    BY <1>0, <2>1, <2>2, <2>3
<1>2. CASE ScanLine
  <2>1. /\ port # << >> /\ port' = Tail(port) /\ UNCHANGED <<sock, guest, wire>>
        /\ scan' = scan \/ scan' = [at |-> "have", line |-> Heard(Head(port))]
    BY <1>2 DEF ScanLine, hostVars
  <2>2. /\ sock = << >> /\ wire = << >> /\ scan.at # "have"
        /\ guest.at \notin {"serve", "ack", "reply"}
    BY <1>2, <2>1 DEF ScanLine
  <2>3. 1 \in DOMAIN port /\ Head(port) = port[1] /\ port[1] \in Lines
    BY <1>a, <2>1
  <2>4. OfClient(port[1])
    BY <2>3
  <2>5. port' = << >>
    <3>1. \A i \in 1 .. Len(port) : i = 1
      BY <1>a
    <3>2. Len(port) \in Nat /\ Len(port) # 0
      BY <1>a, <2>1
    <3>3. Len(port) \in 1 .. Len(port)
      BY <3>2
    <3>4. Len(port) = 1
      BY <3>1, <3>3
    <3> QED
      BY <1>a, <2>1, <3>4
  <2> QED
    BY <1>0, <2>1, <2>2, <2>3, <2>4, <2>5
<1>3. CASE ScanEOF \/ ScanCancelled
  <2>1. scan'.at = "eof" /\ UNCHANGED <<sock, port, guest, wire>>
    BY <1>3 DEF ScanEOF, ScanCancelled, hostVars, TypeOK
  <2> QED
    BY <1>0, <2>1
<1>4. CASE Open
  <2>1. scan'.at = "read" /\ guest'.at = "range" /\ UNCHANGED <<sock, port, wire>>
    BY <1>4, <1>a DEF Open, hostVars, TypeOK
  <2> QED
    BY <1>0, <2>1
<1>5. CASE Range
  <2>1. /\ scan.at = "have" /\ scan'.at = "read"
        /\ guest'.at \in {"serve", "ack"} /\ guest'.line = scan.line
        /\ UNCHANGED <<sock, port, wire>>
    BY <1>5 DEF Range, hostVars, TypeOK
  <2>2. sock = << >> /\ port = << >> /\ wire = << >>
    BY <2>1
  <2> QED
    BY <1>0, <2>1, <2>2
<1>6. CASE RangeEnd \/ HandCancelled
  <2>1. /\ scan'.at = "off" /\ port' = << >> /\ guest'.at \in {"closed", "done"}
        /\ UNCHANGED <<sock, wire>>
    BY <1>6 DEF RangeEnd, HandCancelled, hostVars, TypeOK
  <2> QED
    BY <1>0, <2>1
<1>7. CASE Serve
  <2>1. PICK k \in {"ok", "error"} :
           guest' = [guest EXCEPT !.at = "reply", !.reply = [kind |-> k, of |-> guest.line]]
    BY <1>7 DEF Serve
  <2>2. guest'.at = "reply" /\ guest'.reply.of = guest.line /\ guest.at = "serve"
    BY <1>7, <2>1 DEF Serve, TypeOK
  <2>3. UNCHANGED <<sock, port, scan, wire>>
    BY <1>7 DEF Serve, hostVars
  <2> QED
    BY <1>0, <2>2, <2>3
<1>8. ASSUME NEW r \in Replies, wire = << >>, wire' = Append(wire, r)
      PROVE  wire' = <<r>>
  BY <1>8
<1>9. CASE Reply
  <2>1. /\ guest.at = "reply" /\ guest'.at = "range" /\ wire' = Append(wire, guest.reply)
        /\ UNCHANGED <<sock, port, scan>>
    BY <1>9, <1>a DEF Reply, hostVars
  <2>2. wire' = <<guest.reply>>
    BY <1>8, <1>a, <2>1
  <2>3. sock = << >> /\ port = << >> /\ scan.at # "have" /\ HeardOf(guest.reply.of)
    BY <2>1
  <2> QED
    BY <1>0, <2>1, <2>2, <2>3
<1>10. CASE Ack
  <2> DEFINE r == [kind |-> "ack", of |-> guest.line]
  <2>1. r \in Replies /\ r.of = guest.line
    BY DEF TypeOK, Replies
  <2>2. /\ guest.at = "ack" /\ guest'.at = "hand" /\ wire' = Append(wire, r)
        /\ UNCHANGED <<sock, port, scan>>
    BY <1>10 DEF Ack, hostVars, TypeOK
  <2> HIDE DEF r
  <2>3. wire' = <<r>>
    BY <1>8, <2>1, <2>2
  <2>4. sock = << >> /\ port = << >> /\ scan.at # "have" /\ HeardOf(guest.line)
    BY <2>2
  <2> QED
    BY <1>0, <2>1, <2>2, <2>3, <2>4
<1>11. CASE Hand
  <2>1. guest'.at = "range" /\ UNCHANGED <<sock, port, scan, wire>>
    BY <1>11, <1>a DEF Hand, hostVars
  <2> QED
    BY <1>0, <2>1
<1>12. CASE StopChild
  BY <1>0, <1>12 DEF StopChild, hostVars
<1> QED
  BY <1>1, <1>2, <1>3, <1>4, <1>5, <1>6, <1>7, <1>9, <1>10, <1>11, <1>12
     DEF Scanner, Watcher

\* A client is done only with the reply to its own line.
LEMMA MatchStep ==
    ASSUME IInv, [Next]_vars, ~gaveUp'
    PROVE  \A c \in Clients : client'[c].at = "done" => Answers(client'[c].got, client'[c].line)
<1> USE DEF IInv, ReplyMatches
<1>0. ~gaveUp
  BY DEF Next, Host, Dial, Accept, Receive, Deadline, Deliver, Scanner, ScanLine, ScanEOF,
     ScanCancelled, Watcher, Open, Range, RangeEnd, Serve, Reply, Ack, Hand, HandCancelled,
     StopChild, hostVars, vars
<1>a. TypeOK
  OBVIOUS
<1>1. CASE UNCHANGED client
  BY <1>0, <1>1
<1>2. ASSUME NEW c \in Clients, \A d \in Clients \ {c} : client'[d] = client[d],
             client'[c].at # "done"
      PROVE  \A d \in Clients : client'[d].at = "done" => Answers(client'[d].got, client'[d].line)
  BY <1>0, <1>2
<1>3. ASSUME NEW c \in Clients, NEW l \in Lines, Dial(c, l) PROVE client'[c].at # "done"
             /\ \A d \in Clients \ {c} : client'[d] = client[d]
  BY <1>3 DEF Dial, TypeOK
<1>4. ASSUME NEW c \in Clients, Accept(c) \/ Deadline(c) PROVE client'[c].at # "done"
             /\ \A d \in Clients \ {c} : client'[d] = client[d]
  BY <1>4 DEF Accept, Deadline, TypeOK
<1>5. ASSUME NEW c \in Clients, Receive(c)
      PROVE  \A d \in Clients : client'[d].at = "done" => Answers(client'[d].got, client'[d].line)
  <2>1. conn = c /\ wire # << >> /\ client' = [client EXCEPT ![c].at = "done", ![c].got = Head(wire)]
    BY <1>5 DEF Receive
  <2>2. 1 \in DOMAIN wire /\ Head(wire) = wire[1] /\ wire[1] \in Replies
    BY <1>a, <2>1 DEF TypeOK
  <2>3. Kind(wire[1]) /\ wire[1].of = Heard(client[c].line)
    BY <1>0, <2>1, <2>2 DEF Kinds, OneAtATime, HeardOf
  <2>4. /\ client'[c].line = client[c].line /\ client'[c].got = wire[1]
        /\ \A d \in Clients \ {c} : client'[d] = client[d]
    <3>1. TypeOK /\ Head(wire) \in Replies
      BY <1>a, <2>2
    <3>2. /\ client'[c].line = client[c].line /\ client'[c].got = Head(wire)
          /\ \A d \in Clients \ {c} : client'[d] = client[d]
      BY <2>1, <3>1, ClientMoves
    <3> QED
      BY <2>2, <3>2
  <2>5. Heard(client[c].line).verb = client[c].line.verb
    BY <1>a, Fields DEF TypeOK
  <2>6. Answers(client'[c].got, client'[c].line)
    BY <2>3, <2>4, <2>5 DEF Answers, Kind
  <2> QED
    BY <1>0, <2>4, <2>6
<1>6. CASE Deliver \/ Scanner \/ Watcher \/ StopChild \/ UNCHANGED vars
  <2>1. UNCHANGED client
    BY <1>6 DEF Deliver, Scanner, ScanLine, ScanEOF, ScanCancelled, Watcher, Open, Range,
       RangeEnd, Serve, Reply, Ack, Hand, HandCancelled, StopChild, hostVars, vars
  <2> QED
    BY <1>1, <2>1
<1> QED
  BY <1>2, <1>3, <1>4, <1>5, <1>6 DEF Next, Host

\* The inductive invariant holds in every reachable state.
THEOREM Invariance == Spec => []IInv
<1>1. Init => IInv
  <2> SUFFICES ASSUME Init PROVE IInv
    OBVIOUS
  <2>1. \A c \in Clients : client[c].at = "idle"
    BY DEF Init
  <2>2. ReplyMatches /\ Relayed
    BY <2>1, TypeInit DEF Init, ReplyMatches, Relayed
  <2>3. Kinds /\ OneAtATime
    BY DEF Init, Kinds, OneAtATime
  <2> QED
    BY <2>2, <2>3 DEF IInv
<1>2. IInv /\ [Next]_vars => IInv'
  <2> SUFFICES ASSUME IInv, [Next]_vars PROVE IInv'
    OBVIOUS
  <2>0. TypeOK /\ Kinds /\ Relayed /\ (~gaveUp => OneAtATime)
    BY DEF IInv, ReplyMatches
  <2>1. TypeOK' /\ Kinds' /\ Relayed'
    BY <2>0, TypeStep, KindsStep, RelayedStep
  <2>2. ASSUME ~gaveUp' PROVE ~gaveUp
    BY <2>2 DEF Next, Host, Dial, Accept, Receive, Deadline, Deliver, Scanner, ScanLine, ScanEOF,
       ScanCancelled, Watcher, Open, Range, RangeEnd, Serve, Reply, Ack, Hand, HandCancelled,
       StopChild, hostVars, vars
  <2>3. ASSUME ~gaveUp' PROVE OneAtATime'
    <3>1. CASE UNCHANGED vars
      BY <2>0, <2>2, <2>3, <3>1 DEF OneAtATime, OfClient, HeardOf, vars
    <3> QED
      BY <2>0, <2>2, <2>3, <3>1, HostStep, NodeStep DEF Next
  <2>4. ReplyMatches'
    BY <2>1, MatchStep DEF ReplyMatches
  <2> QED
    BY <2>1, <2>3, <2>4 DEF IInv
<1> QED
  BY <1>1, <1>2, PTL DEF Spec

\* Whoever shares the port, an answer is the answer to the line one sent, argument
\* included, as the node heard it, until someone gives up on the node.
THEOREM AnswersOwnRequest == Spec => []ReplyMatches
<1>1. IInv => ReplyMatches
  BY DEF IInv
<1> QED
  BY <1>1, Invariance, PTL
=============================================================================
