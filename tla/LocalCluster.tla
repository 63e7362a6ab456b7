---------------------------- MODULE LocalCluster ----------------------------
(***************************************************************************)
(* Machines and clusters on a development host: `cluster create`,          *)
(* `cluster rm`, `machine up` and `machine rm` of cmd/k0smosctl, the state *)
(* directories they leave, and the QEMU and hub processes that outlive     *)
(* them. The user runs one command at a time and may interrupt it between  *)
(* any two of its steps; QEMU goes on, exits or binds its socket whenever  *)
(* it likes; the number of a process that is gone is given out again, to   *)
(* the next one of ours or to another program.                             *)
(***************************************************************************)
EXTENDS Naturals, Sequences, SequencesExt

CONSTANTS
    Machines,   \* the names planCluster derives, in order
    MaxPid,     \* bound: processes alive at a time
    MaxCommands \* bound: commands the user runs

\* The names are <cluster>-controller-<i> and <cluster>-worker-<i>, all different,
\* and none is one of the model's words for a process that is no QEMU.
ASSUME LocalAssumption ==
    /\ Machines \in Seq(STRING) /\ Len(Machines) >= 1
    /\ \A i, j \in DOMAIN Machines : Machines[i] = Machines[j] => i = j
    /\ \A i \in DOMAIN Machines : Machines[i] \notin {"none", "other", "lost", "hub"}
    /\ MaxPid \in Nat /\ MaxCommands \in Nat

VARIABLES
    cmd,        \* the command in progress: [op, pc, i, pid], i an index of Machines
    ran,        \* how many commands were started
    json,       \* cluster.json: "none", "empty" (created, not written) or "ok"
    jsonHub,    \* the HubPID it records
    dir,        \* dir[m]: the state directory of machine m
    procs       \* procs[p]: what runs under number p

vars == <<cmd, ran, json, jsonHub, dir, procs>>

Names == ToSet(Machines)
Pids == 1 .. MaxPid

Idle == [op |-> "idle", pc |-> "", i |-> 1, pid |-> 0]

NoDir == [there |-> FALSE, disk |-> "none", by |-> "", meta |-> 0, sock |-> FALSE]

\* A number that is free, and one that another program has. A QEMU of ours is
\* "starting", then "up"; once its disk was removed it is lost, or "cut" if the
\* socket on which it answers is still in the directory.
Free == [of |-> "none", st |-> ""]
Other == [of |-> "other", st |-> ""]
Lost == [of |-> "lost", st |-> ""]
Hub == [of |-> "hub", st |-> ""]
Qemu(m, st) == [of |-> m, st |-> st]

Commands ==
    [op : {"idle", "create", "crm", "up", "mrm"}, i : DOMAIN Machines,
     pc : {"", "hub", "json", "write", "drive", "dir", "clone", "copy", "live", "unlink",
           "start", "wait", "save", "undo", "undo1", "undo2", "ready", "ask", "stop", "rm", "rmall"},
     pid : 0 .. MaxPid]

\* Who made a directory, or could not remove it.
Makers == {"", "create", "up", "left"}

Dirs == [there : BOOLEAN, disk : {"none", "partial", "whole"}, by : Makers,
         meta : 0 .. MaxPid, sock : BOOLEAN]

Processes == {Free, Other, Lost, Hub} \cup
                 {Qemu(m, st) : m \in Names, st \in {"starting", "up", "cut"}}

TypeOK ==
    /\ cmd \in Commands
    /\ ran \in 0 .. MaxCommands
    /\ json \in {"none", "empty", "ok"}
    /\ jsonHub \in 0 .. MaxPid
    /\ dir \in [Names -> Dirs]
    /\ procs \in [Pids -> Processes]

\* processRunning: kill(pid, 0) does not tell whose process it is.
ProcessRunning(p) == p # 0 /\ procs[p] # Free

\* guestIsLive: something accepts on the control socket.
Answering(m) == {Qemu(m, "up"), Qemu(m, "cut")}
GuestIsLive(m) == dir[m].sock /\ \E p \in Pids : procs[p] \in Answering(m)

This == Machines[cmd.i]

At(op, pc) == cmd.op = op /\ cmd.pc = pc
Goto(pc) == cmd' = [cmd EXCEPT !.pc = pc]
End == cmd' = Idle
Kill(p) == IF p = 0 THEN procs ELSE [procs EXCEPT ![p] = Free]

\* The user starts a command.
Start(op, pc, i) ==
    /\ cmd = Idle /\ ran < MaxCommands
    /\ cmd' = [op |-> op, pc |-> pc, i |-> i, pid |-> 0]
    /\ ran' = ran + 1

\* The number a new process gets; a child that was not waited for keeps its own.
Unused == {p \in Pids : procs[p] = Free /\ p # cmd.pid}
NextPid == CHOOSE p \in Unused : \A q \in Unused : p <= q

\* os.RemoveAll of a state directory, under any QEMU that still has it open.
RemoveDir(m) ==
    /\ dir' = [dir EXCEPT ![m] = NoDir]
    /\ procs' = [p \in Pids |-> IF procs[p].of = m THEN Lost ELSE procs[p]]

\* os.RemoveAll that fails: some of the files stay, and the directory with them.
Kept(q, m, disk, sock) ==
    IF disk # "none" /\ q # Qemu(m, "cut") THEN q
    ELSE IF sock /\ q \in Answering(m) THEN Qemu(m, "cut")
    ELSE Lost

RemovePart(m, by) ==
    \E disk \in {dir[m].disk, "none"}, meta \in {dir[m].meta, 0}, sock \in {dir[m].sock, FALSE} :
       /\ dir[m].there
       /\ dir' = [dir EXCEPT ![m] = [there |-> TRUE, disk |-> disk, by |-> by,
                                     meta |-> meta, sock |-> sock]]
       /\ procs' = [p \in Pids |-> IF procs[p].of = m THEN Kept(procs[p], m, disk, sock)
                                    ELSE procs[p]]

NextOr(pc) ==
    cmd' = IF cmd.i < Len(Machines) THEN [cmd EXCEPT !.i = @ + 1]
           ELSE [cmd EXCEPT !.pc = pc, !.i = 1]

-----------------------------------------------------------------------------
(* Faulty variants.                                                        *)

\* create looks for cluster.json only and takes over disks that are there
CreateAllowedAnyDir == json = "none"

\* cluster rm removes the disks when the time is up
StopTimeoutGoesOn == Goto("rm")

\* cluster rm removes the cluster's own state before the machines
RemoveMachineClusterFirst ==
    /\ At("crm", "rm")
    /\ json' = "none" /\ jsonHub' = 0
    /\ RemoveDir(This) /\ NextOr("rmall")
    /\ UNCHANGED ran

\* a command waits for QEMU's socket for as long as it takes
WaitForever ==
    /\ cmd.pc = "wait"
    /\ GuestIsLive(This) /\ Goto("save")
    /\ UNCHANGED <<ran, json, jsonHub, dir, procs>>

-----------------------------------------------------------------------------
(* cluster create.                                                         *)

Init ==
    /\ cmd = Idle /\ ran = 0
    /\ json = "none" /\ jsonHub = 0
    /\ dir = [m \in Names |-> NoDir]
    /\ procs = [p \in Pids |-> Free]

\* It refuses a cluster that exists, and machines that do.
CreateAllowed == json = "none" /\ \A m \in Names : ~dir[m].there

Create ==
    /\ CreateAllowed
    /\ Start("create", "hub", 1)
    /\ UNCHANGED <<json, jsonHub, dir, procs>>

\* startClusterHub; a hub that does not get ready is killed.
StartHub ==
    /\ At("create", "hub")
    /\ \/ /\ Unused # {}
          /\ procs' = [procs EXCEPT ![NextPid] = Hub]
          /\ cmd' = [cmd EXCEPT !.pc = "json", !.pid = NextPid]
       \/ End /\ UNCHANGED procs
    /\ UNCHANGED <<ran, json, jsonHub, dir>>

\* writeJSON creates the file and then writes it; when it fails the hub is
\* stopped and the directory removed, if it can be.
WriteJSON ==
    /\ cmd.op = "create"
    /\ \/ /\ cmd.pc = "json"
          /\ json' = "empty" /\ Goto("write")
          /\ UNCHANGED <<jsonHub, procs>>
       \/ /\ cmd.pc = "write"
          /\ json' = "ok" /\ jsonHub' = cmd.pid
          /\ cmd' = [cmd EXCEPT !.pc = "drive", !.pid = 0]
          /\ UNCHANGED procs
       \/ /\ cmd.pc \in {"json", "write"}
          /\ json' \in {"none", json} /\ procs' = Kill(cmd.pid) /\ End
          /\ UNCHANGED jsonHub
    /\ UNCHANGED <<ran, dir>>

\* What create does when a machine does not start: nothing is kept of a cluster
\* whose first machine failed, the others stay for `cluster rm`.
Failed == IF cmd.i = 1 THEN cmd' = [cmd EXCEPT !.pc = "undo", !.pid = 0] ELSE End

\* awaitToken, for every machine but the first, and writeClusterDrive.
Drive ==
    /\ At("create", "drive")
    /\ Goto("dir") \/ Failed
    /\ UNCHANGED <<ran, json, jsonHub, dir, procs>>

\* cleanupUnstartedCluster stops the hub and removes the machine, then the
\* cluster, each whether or not the one before could be removed.
Undo ==
    \/ /\ At("create", "undo")
       /\ procs' = Kill(jsonHub) /\ Goto("undo1")
       /\ UNCHANGED <<ran, json, jsonHub, dir>>
    \/ /\ At("create", "undo1")
       /\ RemoveDir(This) \/ RemovePart(This, "left")
       /\ Goto("undo2")
       /\ UNCHANGED <<ran, json, jsonHub>>
    \/ /\ At("create", "undo2")
       /\ \/ json' = "none" /\ jsonHub' = 0
          \/ UNCHANGED <<json, jsonHub>>
       /\ End
       /\ UNCHANGED <<ran, dir, procs>>

\* awaitKubeconfig and awaitNodesReady, until they succeed or the deadline.
Ready ==
    /\ At("create", "ready") /\ End
    /\ UNCHANGED <<ran, json, jsonHub, dir, procs>>

-----------------------------------------------------------------------------
(* machine up: a command of its own, and how create starts each machine.   *)

Up ==
    /\ \E i \in DOMAIN Machines : Start("up", "dir", i)
    /\ UNCHANGED <<json, jsonHub, dir, procs>>

UpFails == IF cmd.op = "create" THEN Failed ELSE End

\* ensureGuestDir
GuestDir ==
    /\ cmd.pc = "dir"
    /\ dir' = [dir EXCEPT ![This] =
                 IF @.there THEN @ ELSE [NoDir EXCEPT !.there = TRUE, !.by = cmd.op]]
    /\ Goto("clone")
    /\ UNCHANGED <<ran, json, jsonHub, procs>>

\* cloneGuestDisk: a disk that is there is used as it is; cp may be cut short.
CloneDisk ==
    /\ \/ /\ cmd.pc = "clone" /\ dir[This].disk # "none"
          /\ Goto("live") /\ UNCHANGED dir
       \/ /\ cmd.pc = "clone" /\ dir[This].disk = "none"
          /\ dir' = [dir EXCEPT ![This].disk = "partial"] /\ Goto("copy")
       \/ /\ cmd.pc = "copy"
          /\ dir' = [dir EXCEPT ![This].disk = "whole"] /\ Goto("live")
       \/ /\ cmd.pc \in {"clone", "copy"} /\ UpFails /\ UNCHANGED dir
    /\ UNCHANGED <<ran, json, jsonHub, procs>>

\* RunE refuses a socket that answers.
CheckLive ==
    /\ cmd.pc = "live"
    /\ \/ UpFails
       \/ ~GuestIsLive(This) /\ Goto("unlink")
    /\ UNCHANGED <<ran, json, jsonHub, dir, procs>>

\* qemuArgs removes the socket, taking it for a stale one, and refuses a file it
\* cannot find.
RemoveSocket ==
    /\ cmd.pc = "unlink"
    /\ \/ UpFails /\ UNCHANGED dir
       \/ Goto("start") /\ dir' = [dir EXCEPT ![This].sock = FALSE]
    /\ UNCHANGED <<ran, json, jsonHub, procs>>

\* detach starts QEMU, or cannot.
StartQemu ==
    /\ cmd.pc = "start"
    /\ \/ /\ Unused # {}
          /\ procs' = [procs EXCEPT ![NextPid] = Qemu(This, "starting")]
          /\ cmd' = [cmd EXCEPT !.pc = "wait", !.pid = NextPid]
       \/ UpFails /\ UNCHANGED procs
    /\ UNCHANGED <<ran, json, jsonHub, dir>>

\* waitUntilUp: QEMU has exited, or the socket is there, or the time is up; in
\* that last case QEMU is left running.
WaitUntilUp ==
    /\ cmd.pc = "wait"
    /\ \/ procs[cmd.pid] # Free /\ dir[This].sock /\ Goto("save")
       \/ procs[cmd.pid] = Free /\ UpFails
       \/ ~dir[This].sock /\ UpFails
    /\ UNCHANGED <<ran, json, jsonHub, dir, procs>>

\* The next machine of create, or the end.
UpDone ==
    IF cmd.op # "create" THEN End
    ELSE IF cmd.i = Len(Machines) THEN cmd' = [cmd EXCEPT !.pc = "ready", !.pid = 0]
    ELSE cmd' = [cmd EXCEPT !.pc = "drive", !.i = @ + 1, !.pid = 0]

\* saveMeta, which may fail with a warning.
SaveMeta ==
    /\ cmd.pc = "save"
    /\ \/ dir' = [dir EXCEPT ![This].meta = cmd.pid]
       \/ UNCHANGED dir
    /\ UpDone
    /\ UNCHANGED <<ran, json, jsonHub, procs>>

-----------------------------------------------------------------------------
(* cluster rm and machine rm.                                              *)

ClusterRm ==
    /\ json = "ok"
    /\ Start("crm", "ask", 1)
    /\ UNCHANGED <<json, jsonHub, dir, procs>>

\* Every recorded machine that seems to run is asked to power off, and will or
\* will not (ProcExits); one that cannot be reached ends the command.
AskPowerOff ==
    /\ At("crm", "ask")
    /\ IF ProcessRunning(dir[This].meta) /\ ~GuestIsLive(This) THEN End ELSE NextOr("stop")
    /\ UNCHANGED <<ran, json, jsonHub, dir, procs>>

StopTimeout == End

\* It waits for each recorded machine, and gives up when the time is over. Then
\* the hub is stopped, by its number alone.
AwaitStop ==
    /\ At("crm", "stop")
    /\ IF ProcessRunning(dir[This].meta)
       THEN StopTimeout /\ UNCHANGED procs
       ELSE /\ NextOr("rm")
            /\ procs' = IF cmd.i = Len(Machines) THEN Kill(jsonHub) ELSE procs
    /\ UNCHANGED <<ran, json, jsonHub, dir>>

\* The machines' directories go one by one, and the cluster's last; the command
\* ends at the first that cannot be removed.
RemoveMachine ==
    /\ At("crm", "rm")
    /\ \/ RemoveDir(This) /\ NextOr("rmall")
       \/ RemovePart(This, dir[This].by) /\ End
    /\ UNCHANGED <<ran, json, jsonHub>>

RemoveCluster ==
    /\ At("crm", "rmall")
    /\ \/ json' = "none" /\ jsonHub' = 0
       \/ UNCHANGED <<json, jsonHub>>
    /\ End
    /\ UNCHANGED <<ran, dir, procs>>

\* machine rm refuses a machine whose socket answers.
MachineRm ==
    /\ \E i \in DOMAIN Machines :
          /\ dir[Machines[i]].there /\ ~GuestIsLive(Machines[i])
          /\ Start("mrm", "rm", i)
    /\ UNCHANGED <<json, jsonHub, dir, procs>>

MachineRemove ==
    /\ At("mrm", "rm")
    /\ RemoveDir(This) \/ RemovePart(This, dir[This].by)
    /\ End
    /\ UNCHANGED <<ran, json, jsonHub>>

-----------------------------------------------------------------------------
(* The host.                                                               *)

\* The user interrupts the command, or it is killed.
Interrupt ==
    /\ cmd # Idle /\ End
    /\ UNCHANGED <<ran, json, jsonHub, dir, procs>>

\* QEMU opens its disk, on which it holds the only write lock, and its socket.
QemuBinds ==
    \E p \in Pids, m \in Names :
       /\ procs[p] = Qemu(m, "starting")
       /\ \A q \in Pids : procs[q] # Qemu(m, "up")
       /\ procs' = [procs EXCEPT ![p] = Qemu(m, "up")]
       /\ dir' = [dir EXCEPT ![m].sock = TRUE]
       /\ UNCHANGED <<cmd, ran, json, jsonHub>>

\* A process ends: a guest that was asked to, or any for reasons of its own. A
\* QEMU that is killed leaves its socket behind.
ProcExits ==
    \E p \in Pids :
       /\ procs[p] # Free
       /\ procs' = Kill(p)
       /\ \/ UNCHANGED dir
          \/ \E m \in Names : /\ procs[p] \in Answering(m)
                              /\ dir' = [dir EXCEPT ![m].sock = FALSE]
       /\ UNCHANGED <<cmd, ran, json, jsonHub>>

\* Another program gets a number that is recorded here and no longer in use.
OtherStarts ==
    \E p \in Unused \cap ({jsonHub} \cup {dir[m].meta : m \in Names}) :
       /\ procs' = [procs EXCEPT ![p] = Other]
       /\ UNCHANGED <<cmd, ran, json, jsonHub, dir>>

CmdStep ==
    \/ StartHub \/ WriteJSON \/ Drive \/ Undo \/ Ready
    \/ GuestDir \/ CloneDisk \/ CheckLive \/ RemoveSocket \/ StartQemu \/ WaitUntilUp \/ SaveMeta
    \/ AskPowerOff \/ AwaitStop \/ RemoveMachine \/ RemoveCluster \/ MachineRemove

Next ==
    \/ Create \/ Up \/ ClusterRm \/ MachineRm
    \/ CmdStep \/ Interrupt
    \/ QemuBinds \/ ProcExits \/ OtherStarts

\* A command goes on until it returns: its waits for machines, hubs, tokens and
\* nodes have deadlines, and the programs it starts and the files it reads answer.
Spec == Init /\ [][Next]_vars /\ WF_vars(CmdStep)

-----------------------------------------------------------------------------
(* Properties.                                                             *)

\* Whatever was interrupted or could not be removed, a machine directory that
\* create made is known to a cluster.json that `cluster rm` can read, so that what
\* create left can always be removed: the file is written before the first machine
\* and removed last. The one exception is by = "left", a first machine whose
\* directory cleanupUnstartedCluster failed to remove before it removed the file:
\* it is left to `machine rm`. (And every state is well typed.)
NoOrphanMachines ==
    /\ TypeOK
    /\ \A m \in Names : dir[m].there /\ dir[m].by = "create" => json = "ok"

\* A machine that create starts runs on a disk that create cloned, and cloned to
\* the end: it never adopts the disk of an older machine or of a create that was
\* cut short.
FreshDisks ==
    [][cmd.op = "create" /\ cmd.pc = "start" /\ cmd'.pc = "wait"
          => dir[This].by = "create" /\ dir[This].disk = "whole"]_vars

\* A QEMU of m that has its disk, and one whose disk was removed.
OnDisk(m) == {Qemu(m, "starting"), Qemu(m, "up")}
DiskTaken(m) == {Lost, Qemu(m, "cut")}

\* `cluster rm`, and create when it cleans up, take no disk from a QEMU that
\* guest.json records, wherever they and the commands before them stopped.
\* `machine rm` trusts the socket instead, and is not part of this.
RecordedKept ==
    [][cmd.op # "mrm" =>
          \A m \in Names : LET p == dir[m].meta
                           IN p # 0 /\ procs[p] \in OnDisk(m) => procs'[p] \notin DiskTaken(m)]_vars

\* Every command returns, whether or not the QEMU it waits for makes its socket.
\* (The other waits, for hubs, tokens and nodes, are part of the steps they end.)
CommandEnds == cmd # Idle ~> cmd = Idle
=============================================================================
