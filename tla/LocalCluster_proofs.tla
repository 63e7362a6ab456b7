------------------------- MODULE LocalCluster_proofs -------------------------
(***************************************************************************)
(* For a cluster of any size and any number of commands, each of which may *)
(* be interrupted anywhere and find files it cannot remove: what `cluster  *)
(* create` leaves is known to `cluster rm`, but for a first machine it     *)
(* could not remove itself; it starts no machine on a disk it did not      *)
(* clone; and neither it nor `cluster rm` takes a disk from a QEMU on      *)
(* record.                                                                 *)
(***************************************************************************)
EXTENDS LocalCluster, WellFoundedInduction, TLAPS

\* The steps of `machine up`, those of them that come after ensureGuestDir, and
\* the steps of create before the first machine.
UpSteps == {"dir", "clone", "copy", "live", "unlink", "start", "wait", "save"}
InDir == UpSteps \ {"dir"}
BeforeMachines == {"hub", "json", "write"}

\* Each command goes through its own steps.
Steps ==
    /\ cmd.op = "idle" => cmd.pc = ""
    /\ cmd.op = "create" =>
          cmd.pc \in BeforeMachines \cup UpSteps \cup {"drive", "undo", "undo1", "undo2", "ready"}
    /\ cmd.op = "up" => cmd.pc \in UpSteps
    /\ cmd.op = "crm" => cmd.pc \in {"ask", "stop", "rm", "rmall"}
    /\ cmd.op = "mrm" => cmd.pc = "rm"

\* A directory that create made is in a cluster.json that can be read.
Known == \A m \in Names : dir[m].there /\ dir[m].by = "create" => json = "ok"

\* While create runs: which directories there are, and that it has written
\* cluster.json before it makes the first.
Creating ==
    cmd.op = "create" =>
        /\ cmd.pc \in BeforeMachines => \A m \in Names : ~dir[m].there
        /\ cmd.pc = "undo2" => \A m \in Names : dir[m].there => dir[m].by # "create"
        /\ cmd.pc \notin BeforeMachines => json = "ok"
        /\ cmd.pc \in BeforeMachines \cup {"undo", "undo1", "undo2"} => cmd.i = 1
        /\ \A j \in DOMAIN Machines :
              dir[Machines[j]].there =>
                  j < cmd.i \/ (j = cmd.i /\ cmd.pc \notin {"drive", "dir"})

\* While `cluster rm` runs: the machines before the one it is at are stopped, or
\* removed.
Removing ==
    cmd.op = "crm" =>
        /\ cmd.pc = "rm" => \A j \in DOMAIN Machines : j < cmd.i => ~dir[Machines[j]].there
        /\ cmd.pc = "rmall" => \A m \in Names : ~dir[m].there

\* A machine is worked on in its directory, on the disk create cloned for it if it
\* is create that starts it.
Working ==
    /\ cmd.pc \in InDir => dir[This].there
    /\ cmd.op = "create" /\ cmd.pc \in InDir =>
          /\ dir[This].by = "create"
          /\ cmd.pc = "clone" => dir[This].disk = "none"
          /\ cmd.pc \in {"live", "unlink", "start", "wait", "save"} => dir[This].disk = "whole"

\* The QEMU that guest.json records for m runs under the number recorded.
Runs(m) == dir[m].meta # 0 /\ procs[dir[m].meta].of = m

\* Who has a guest.json: a machine with a directory, one that create is done with,
\* and for those that `cluster rm` has waited for it names no QEMU that runs.
Records ==
    /\ \A m \in Names : ~dir[m].there => dir[m].meta = 0
    /\ cmd.op = "create" /\ cmd.pc # "ready" => dir[This].meta = 0
    /\ cmd.op = "crm" /\ cmd.pc = "stop" =>
          \A j \in DOMAIN Machines : j < cmd.i => ~Runs(Machines[j])
    /\ cmd.op = "crm" /\ cmd.pc \in {"rm", "rmall"} => \A m \in Names : ~Runs(m)

IInv ==
    /\ TypeOK
    /\ Steps
    /\ Known
    /\ Creating
    /\ Removing
    /\ Working
    /\ Records

-----------------------------------------------------------------------------
\* The names of the machines, one for each index and none of them reserved.
LEMMA MachineFacts ==
    /\ DOMAIN Machines = 1 .. Len(Machines) /\ Len(Machines) \in Nat
    /\ 1 \in DOMAIN Machines
    /\ \A i \in DOMAIN Machines : Machines[i] \in Names
    /\ \A m \in Names : \E i \in DOMAIN Machines : m = Machines[i]
    /\ \A m \in Names : m \notin {"none", "other", "lost", "hub"}
BY LocalAssumption DEF LocalAssumption, Names, ToSet

\* What runs under a number is one of the four other things or a QEMU of one of
\* the machines.
LEMMA ProcessFacts ==
    /\ {Free, Other, Lost, Hub} \subseteq Processes
    /\ \A m \in Names, st \in {"starting", "up", "cut"} : Qemu(m, st) \in Processes
    /\ \A m \in Names : m \notin {Free.of, Other.of, Lost.of, Hub.of}
    /\ \A m, st : Qemu(m, st).of = m
<1>1. Free.of = "none" /\ Other.of = "other" /\ Lost.of = "lost" /\ Hub.of = "hub"
  BY DEF Free, Other, Lost, Hub
<1>2. \A m \in Names : m \notin {Free.of, Other.of, Lost.of, Hub.of}
  BY <1>1, MachineFacts
<1>3. \A m \in Names, st \in {"starting", "up", "cut"} : Qemu(m, st) \in Processes
  BY DEF Processes
<1>4. \A m, st : Qemu(m, st).of = m
  BY DEF Qemu
<1>5. QED
  BY <1>2, <1>3, <1>4 DEF Processes

\* A set of numbers that is not empty has a least one.
LEMMA Least ==
  ASSUME NEW S \in SUBSET Nat, S # {}
  PROVE  \E p \in S : \A q \in S : p <= q
<1> DEFINE Less == {s \in Nat \X Nat : s[1] < s[2]}
<1>1. IsWellFoundedOn(Less, Nat)
  BY NatLessThanWellFounded, Zenon DEF OpToRel
<1> HIDE DEF Less
<1>2. PICK p \in S : \A q \in S : <<q, p>> \notin Less
  BY <1>1, WFMin
<1>3. \A q \in S : <<q, p>> \in Nat \X Nat /\ <<q, p>>[1] = q /\ <<q, p>>[2] = p
  OBVIOUS
<1>4. \A q \in S : ~(q < p)
  BY <1>2, <1>3 DEF Less
<1>5. QED
  BY <1>4

\* The number a new process gets is one that was free.
LEMMA NextPidFacts ==
  ASSUME Unused # {}
  PROVE  NextPid \in Unused /\ NextPid \in Pids /\ procs[NextPid] = Free /\ NextPid # cmd.pid
<1>1. Unused \subseteq Nat
  BY DEF Unused, Pids
<1>2. \E p \in Unused : \A q \in Unused : p <= q
  BY <1>1, Least
<1>3. NextPid \in Unused
  BY <1>2 DEF NextPid
<1>4. QED
  BY <1>3 DEF Unused

\* A directory that was never made or is gone is a directory's state.
LEMMA NoDirFacts ==
    NoDir \in Dirs /\ ~NoDir.there /\ NoDir.meta = 0 /\ NoDir.disk = "none" /\ NoDir.by = ""
BY LocalAssumption DEF LocalAssumption, NoDir, Dirs, Makers

\* Taking a directory away makes its QEMUs lost, and touches nothing else.
LEMMA RemoveDirTypes ==
  ASSUME TypeOK, NEW m \in Names, RemoveDir(m)
  PROVE  dir' \in [Names -> Dirs] /\ procs' \in [Pids -> Processes]
BY NoDirFacts, ProcessFacts DEF TypeOK, RemoveDir

\* What is left of a directory is one, and each QEMU that had it open keeps its
\* disk, is cut off from it or is lost.
LEMMA RemovePartTypes ==
  ASSUME TypeOK, NEW m \in Names, NEW by \in Makers, RemovePart(m, by)
  PROVE  dir' \in [Names -> Dirs] /\ procs' \in [Pids -> Processes]
<1>1. PICK disk \in {dir[m].disk, "none"}, meta \in {dir[m].meta, 0},
           sock \in {dir[m].sock, FALSE} :
              /\ dir' = [dir EXCEPT ![m] = [there |-> TRUE, disk |-> disk, by |-> by,
                                            meta |-> meta, sock |-> sock]]
              /\ procs' = [p \in Pids |-> IF procs[p].of = m THEN Kept(procs[p], m, disk, sock)
                                           ELSE procs[p]]
  BY DEF RemovePart
<1>2. dir[m] \in Dirs /\ 0 \in 0 .. MaxPid
  <2>1. dir[m] \in Dirs
    BY DEF TypeOK
  <2>2. 0 \in 0 .. MaxPid
    BY LocalAssumption DEF LocalAssumption
  <2>3. QED
    BY <2>1, <2>2
<1>3. [there |-> TRUE, disk |-> disk, by |-> by, meta |-> meta, sock |-> sock] \in Dirs
  BY <1>2 DEF Dirs
<1>4. \A p \in Pids : Kept(procs[p], m, disk, sock) \in Processes
  BY ProcessFacts DEF TypeOK, Kept
<1>5. QED
  BY <1>1, <1>3, <1>4 DEF TypeOK

\* A command may end, and be at any machine.
LEMMA CommandFacts ==
    /\ Idle \in Commands
    /\ Pids \subseteq 0 .. MaxPid /\ 0 \in 0 .. MaxPid
    /\ cmd \in Commands => This \in Names
    /\ cmd \in Commands => cmd.i \in 1 .. Len(Machines)
    /\ cmd \in Commands /\ cmd.i # Len(Machines) => cmd.i + 1 \in DOMAIN Machines
<1>1. Pids \subseteq 0 .. MaxPid /\ 0 \in 0 .. MaxPid
  BY LocalAssumption DEF LocalAssumption, Pids
<1>2. Idle \in Commands
  BY <1>1, MachineFacts DEF Idle, Commands
<1>3. cmd \in Commands => cmd.i \in DOMAIN Machines
  BY DEF Commands
<1>4. cmd \in Commands => This \in Names
  BY <1>3, MachineFacts DEF This
<1>5. QED
  BY <1>1, <1>2, <1>3, <1>4, MachineFacts

\* The loops over the machines go to the next one or to the next step.
LEMMA NextOrTypes ==
  ASSUME cmd \in Commands, NEW pc \in {"stop", "rm", "rmall"}, NextOr(pc)
  PROVE  cmd' \in Commands
<1>1. CASE cmd.i < Len(Machines)
  <2>1. cmd.i + 1 \in DOMAIN Machines
    BY <1>1, CommandFacts, MachineFacts
  <2>2. QED
    BY <1>1, <2>1 DEF NextOr, Commands
<1>2. CASE ~(cmd.i < Len(Machines))
  <2>1. 1 \in DOMAIN Machines
    BY MachineFacts
  <2>2. QED
    BY <1>2, <2>1 DEF NextOr, Commands
<1>3. QED
  BY <1>1, <1>2

\* A directory with one of its fields changed is a directory.
LEMMA DirFields ==
  ASSUME NEW r \in Dirs
  PROVE  /\ \A d \in {"partial", "whole"} : [r EXCEPT !.disk = d] \in Dirs
         /\ \A p \in 0 .. MaxPid : [r EXCEPT !.meta = p] \in Dirs
         /\ \A b \in BOOLEAN : [r EXCEPT !.sock = b] \in Dirs
<1>1. \A d \in {"partial", "whole"} : [r EXCEPT !.disk = d] \in Dirs
  BY DEF Dirs
<1>2. \A p \in 0 .. MaxPid : [r EXCEPT !.meta = p] \in Dirs
  BY DEF Dirs
<1>3. \A b \in BOOLEAN : [r EXCEPT !.sock = b] \in Dirs
  BY DEF Dirs
<1>4. QED
  BY <1>1, <1>2, <1>3

\* What the steps change in one directory.
LEMMA DirChanges ==
  ASSUME dir \in [Names -> Dirs], NEW m \in Names,
         \/ UNCHANGED dir
         \/ \E d \in {"partial", "whole"} : dir' = [dir EXCEPT ![m].disk = d]
         \/ \E p \in 0 .. MaxPid : dir' = [dir EXCEPT ![m].meta = p]
         \/ \E b \in BOOLEAN : dir' = [dir EXCEPT ![m].sock = b]
  PROVE  dir' \in [Names -> Dirs]
<1>1. ASSUME NEW d \in {"partial", "whole"}, dir' = [dir EXCEPT ![m].disk = d]
      PROVE  dir' \in [Names -> Dirs]
  <2>1. dir[m] \in Dirs
    OBVIOUS
  <2>2. [dir[m] EXCEPT !.disk = d] \in Dirs
    BY <2>1, DirFields
  <2>3. dir' = [dir EXCEPT ![m] = [dir[m] EXCEPT !.disk = d]]
    BY <1>1
  <2>4. QED
    BY <2>2, <2>3
<1>2. ASSUME NEW p \in 0 .. MaxPid, dir' = [dir EXCEPT ![m].meta = p]
      PROVE  dir' \in [Names -> Dirs]
  <2>1. dir[m] \in Dirs
    OBVIOUS
  <2>2. [dir[m] EXCEPT !.meta = p] \in Dirs
    BY <2>1, DirFields
  <2>3. dir' = [dir EXCEPT ![m] = [dir[m] EXCEPT !.meta = p]]
    BY <1>2
  <2>4. QED
    BY <2>2, <2>3
<1>3. ASSUME NEW b \in BOOLEAN, dir' = [dir EXCEPT ![m].sock = b]
      PROVE  dir' \in [Names -> Dirs]
  <2>1. dir[m] \in Dirs
    OBVIOUS
  <2>2. [dir[m] EXCEPT !.sock = b] \in Dirs
    BY <2>1, DirFields
  <2>3. dir' = [dir EXCEPT ![m] = [dir[m] EXCEPT !.sock = b]]
    BY <1>3
  <2>4. QED
    BY <2>2, <2>3
<1>4. QED
  BY <1>1, <1>2, <1>3

\* Whatever a command does next, it is a command at one of its steps.
LEMMA CommandTypes == ASSUME TypeOK, [Next]_vars PROVE cmd' \in Commands
<1> USE CommandFacts DEF TypeOK, Start, At, Goto, End, Failed, UpFails
<1>1. CASE Create \/ Up \/ ClusterRm \/ MachineRm
  <2>1. PICK op \in {"create", "up", "crm", "mrm"}, pc \in {"hub", "dir", "ask", "rm"},
             i \in DOMAIN Machines : Start(op, pc, i)
    BY <1>1 DEF Create, Up, ClusterRm, MachineRm
  <2>2. QED
    BY <2>1 DEF Commands
<1>2. CASE StartHub
  BY <1>2, NextPidFacts DEF StartHub, Commands
<1>3. CASE WriteJSON
  BY <1>3 DEF WriteJSON, Commands
<1>4. CASE Drive \/ Undo \/ Ready
  <2>1. \/ End
        \/ \E pc \in {"dir", "undo1", "undo2"} : cmd' = [cmd EXCEPT !.pc = pc]
        \/ cmd' = [cmd EXCEPT !.pc = "undo", !.pid = 0]
    BY <1>4 DEF Drive, Undo, Ready
  <2>2. QED
    BY <2>1 DEF Commands
<1>5. CASE GuestDir \/ CloneDisk \/ CheckLive \/ RemoveSocket
  <2>1. CASE GuestDir
    BY <2>1 DEF GuestDir, Commands
  <2>2. CASE CloneDisk
    BY <2>2 DEF CloneDisk, Commands
  <2>3. CASE CheckLive
    BY <2>3 DEF CheckLive, Commands
  <2>4. CASE RemoveSocket
    BY <2>4 DEF RemoveSocket, Commands
  <2>5. QED
    BY <1>5, <2>1, <2>2, <2>3, <2>4
<1>6. CASE StartQemu
  BY <1>6, NextPidFacts DEF StartQemu, Commands
<1>7. CASE WaitUntilUp
  BY <1>7 DEF WaitUntilUp, Commands
<1>8. CASE SaveMeta
  <2>1. cmd' \in {Idle, [cmd EXCEPT !.pc = "ready", !.pid = 0],
                  [cmd EXCEPT !.pc = "drive", !.i = @ + 1, !.pid = 0]}
    BY <1>8 DEF SaveMeta, UpDone
  <2>2. cmd.i + 1 \in DOMAIN Machines => cmd' \in Commands
    BY <2>1 DEF Commands
  <2>3. cmd.i = Len(Machines) => cmd' \in Commands
    BY <1>8 DEF SaveMeta, UpDone, Commands
  <2>4. QED
    BY <2>2, <2>3
<1>9. CASE AskPowerOff
  BY <1>9, NextOrTypes DEF AskPowerOff
<1>10. CASE AwaitStop
  BY <1>10, NextOrTypes DEF AwaitStop, StopTimeout
<1>11. CASE RemoveMachine \/ RemoveCluster \/ MachineRemove \/ Interrupt
  BY <1>11, NextOrTypes DEF RemoveMachine, RemoveCluster, MachineRemove, Interrupt
<1>12. CASE QemuBinds \/ ProcExits \/ OtherStarts \/ UNCHANGED vars
  BY <1>12 DEF QemuBinds, ProcExits, OtherStarts, vars
<1>13. QED
  BY <1>1, <1>2, <1>3, <1>4, <1>5, <1>6, <1>7, <1>8, <1>9, <1>10, <1>11, <1>12
  DEF Next, CmdStep

\* Directories stay what they are, whatever is made, saved or removed in them.
LEMMA DirTypes == ASSUME TypeOK, Steps, [Next]_vars PROVE dir' \in [Names -> Dirs]
<1>0. cmd \in Commands /\ This \in Names /\ dir \in [Names -> Dirs]
  BY CommandFacts DEF TypeOK
<1> USE <1>0, NoDirFacts
<1>1. CASE GuestDir
  <2>1. cmd.op \in {"create", "up"}
    BY <1>1 DEF GuestDir, Steps, Commands, UpSteps
  <2>2. QED
    BY <1>1, <2>1 DEF GuestDir, Dirs, Makers
<1>2. CASE CloneDisk
  BY <1>2, DirChanges DEF CloneDisk
<1>3. CASE SaveMeta
  BY <1>3, DirChanges DEF SaveMeta, Commands
<1>4. CASE Undo
  <2>1. "left" \in Makers
    BY DEF Makers
  <2>2. QED
    BY <1>4, <2>1, RemoveDirTypes, RemovePartTypes DEF Undo
<1>5. CASE RemoveMachine \/ MachineRemove
  <2>1. dir[This].by \in Makers
    BY DEF Dirs
  <2>2. QED
    BY <1>5, <2>1, RemoveDirTypes, RemovePartTypes DEF RemoveMachine, MachineRemove
<1>6. CASE RemoveSocket \/ QemuBinds \/ ProcExits
  BY <1>6, DirChanges DEF RemoveSocket, QemuBinds, ProcExits
<1>7. CASE UNCHANGED dir
  BY <1>7
<1>8. QED
  BY <1>1, <1>2, <1>3, <1>4, <1>5, <1>6, <1>7
  DEF Next, CmdStep, vars, Create, Up, ClusterRm, MachineRm, StartHub, WriteJSON, Drive, Ready,
      CheckLive, StartQemu, WaitUntilUp, AskPowerOff, AwaitStop, RemoveCluster, Interrupt,
      OtherStarts

\* Under each number runs a process, whoever starts, binds, ends or is killed.
LEMMA ProcTypes == ASSUME TypeOK, [Next]_vars PROVE procs' \in [Pids -> Processes]
<1>0. cmd \in Commands /\ This \in Names /\ procs \in [Pids -> Processes]
  BY CommandFacts DEF TypeOK
<1> USE <1>0, ProcessFacts
<1>1. CASE StartHub
  BY <1>1, NextPidFacts DEF StartHub
<1>2. CASE WriteJSON
  BY <1>2 DEF WriteJSON, Kill
<1>3. CASE StartQemu
  BY <1>3, NextPidFacts DEF StartQemu
<1>4. CASE AwaitStop
  BY <1>4 DEF AwaitStop, Kill
<1>5. CASE Undo
  <2>1. "left" \in Makers
    BY DEF Makers
  <2>2. QED
    BY <1>5, <2>1, RemoveDirTypes, RemovePartTypes DEF Undo, Kill
<1>6. CASE RemoveMachine \/ MachineRemove
  <2>1. dir[This].by \in Makers
    BY DEF TypeOK, Dirs
  <2>2. QED
    BY <1>6, <2>1, RemoveDirTypes, RemovePartTypes DEF RemoveMachine, MachineRemove
<1>7. CASE QemuBinds
  BY <1>7 DEF QemuBinds
<1>8. CASE ProcExits
  BY <1>8 DEF ProcExits, Kill
<1>9. CASE OtherStarts
  BY <1>9 DEF OtherStarts
<1>10. CASE UNCHANGED procs
  BY <1>10
<1>11. QED
  BY <1>1, <1>2, <1>3, <1>4, <1>5, <1>6, <1>7, <1>8, <1>9, <1>10
  DEF Next, CmdStep, vars, Create, Up, ClusterRm, MachineRm, Drive, Ready, GuestDir, CloneDisk,
      CheckLive, RemoveSocket, WaitUntilUp, SaveMeta, AskPowerOff, RemoveCluster, Interrupt

\* Every step keeps the types.
LEMMA TypesStep == ASSUME TypeOK, Steps, [Next]_vars PROVE TypeOK'
<1>1. cmd' \in Commands /\ dir' \in [Names -> Dirs] /\ procs' \in [Pids -> Processes]
  BY CommandTypes, DirTypes, ProcTypes
<1>2. ran' \in 0 .. MaxCommands
  BY LocalAssumption
  DEF LocalAssumption, TypeOK, Next, CmdStep, vars, Start, Create, Up, ClusterRm, MachineRm,
      StartHub, WriteJSON, Drive, Undo, Ready, GuestDir, CloneDisk, CheckLive, RemoveSocket,
      StartQemu, WaitUntilUp, SaveMeta, AskPowerOff, AwaitStop, RemoveMachine, RemoveCluster,
      MachineRemove, Interrupt, QemuBinds, ProcExits, OtherStarts
<1>3. json' \in {"none", "empty", "ok"} /\ jsonHub' \in 0 .. MaxPid
  <2>1. cmd.pid \in 0 .. MaxPid
    BY DEF TypeOK, Commands
  <2>2. QED
    BY <2>1, CommandFacts
    DEF TypeOK, Next, CmdStep, vars, Create, Up, ClusterRm, MachineRm, StartHub, WriteJSON,
        Drive, Undo, Ready, GuestDir, CloneDisk, CheckLive, RemoveSocket, StartQemu, WaitUntilUp,
        SaveMeta, AskPowerOff, AwaitStop, RemoveMachine, RemoveCluster, MachineRemove, Interrupt,
        QemuBinds, ProcExits, OtherStarts
<1>4. QED
  BY <1>1, <1>2, <1>3 DEF TypeOK

-----------------------------------------------------------------------------
\* How a command goes on, in terms of its fields.
LEMMA EndFacts == ASSUME End PROVE cmd'.op = "idle" /\ cmd'.pc = ""
BY DEF End, Idle

LEMMA StartFacts ==
  ASSUME NEW op, NEW pc, NEW i, Start(op, pc, i)
  PROVE  cmd'.op = op /\ cmd'.pc = pc /\ cmd'.i = i
BY DEF Start

LEMMA GotoFacts ==
  ASSUME cmd \in Commands, NEW pc, Goto(pc)
  PROVE  cmd'.op = cmd.op /\ cmd'.pc = pc /\ cmd'.i = cmd.i
BY DEF Goto, Commands

LEMMA FailedFacts ==
  ASSUME cmd \in Commands, Failed
  PROVE  \/ End
         \/ cmd'.op = cmd.op /\ cmd'.pc = "undo" /\ cmd'.i = 1 /\ cmd.i = 1
BY DEF Failed, Commands

LEMMA UpFailsFacts ==
  ASSUME cmd \in Commands, UpFails
  PROVE  \/ End
         \/ /\ cmd.op = "create"
            /\ cmd'.op = cmd.op /\ cmd'.pc = "undo" /\ cmd'.i = 1 /\ cmd.i = 1
BY FailedFacts DEF UpFails

LEMMA UpDoneFacts ==
  ASSUME cmd \in Commands, UpDone
  PROVE  \/ End
         \/ /\ cmd.op = "create" /\ cmd'.op = cmd.op
            /\ \/ cmd'.pc = "ready" /\ cmd'.i = cmd.i
               \/ cmd'.pc = "drive" /\ cmd'.i = cmd.i + 1 /\ cmd.i # Len(Machines)
BY DEF UpDone, Commands

LEMMA NextOrFacts ==
  ASSUME cmd \in Commands, NEW pc, NextOr(pc)
  PROVE  /\ cmd'.op = cmd.op
         /\ \/ cmd.i < Len(Machines) /\ cmd'.pc = cmd.pc /\ cmd'.i = cmd.i + 1
            \/ cmd.i = Len(Machines) /\ cmd'.pc = pc /\ cmd'.i = 1
<1>1. cmd.i \in 1 .. Len(Machines) /\ Len(Machines) \in Nat
  BY CommandFacts, MachineFacts
<1>2. CASE cmd.i < Len(Machines)
  BY <1>2 DEF NextOr, Commands
<1>3. CASE ~(cmd.i < Len(Machines))
  <2>1. cmd.i = Len(Machines)
    BY <1>1, <1>3
  <2>2. cmd' = [cmd EXCEPT !.pc = pc, !.i = 1]
    BY <1>3 DEF NextOr
  <2>3. QED
    BY <2>1, <2>2 DEF Commands
<1>4. QED
  BY <1>2, <1>3

LEMMA StartHubFacts ==
  ASSUME cmd \in Commands, StartHub
  PROVE  \/ End
         \/ cmd'.op = cmd.op /\ cmd'.pc = "json" /\ cmd'.i = cmd.i
BY DEF StartHub, Commands

LEMMA WriteJSONFacts ==
  ASSUME cmd \in Commands, WriteJSON
  PROVE  \/ End
         \/ /\ cmd'.op = cmd.op /\ cmd'.i = cmd.i
            /\ \/ cmd'.pc = "write"
               \/ cmd'.pc = "drive" /\ json' = "ok"
BY GotoFacts DEF WriteJSON, Commands

LEMMA StartQemuFacts ==
  ASSUME cmd \in Commands, StartQemu
  PROVE  \/ UpFails /\ UNCHANGED procs
         \/ /\ cmd'.op = cmd.op /\ cmd'.pc = "wait" /\ cmd'.i = cmd.i
            /\ Unused # {}
            /\ procs' = [procs EXCEPT ![NextPid] = Qemu(This, "starting")]
BY DEF StartQemu, Commands

\* Each step of a command leads to another of its steps.
LEMMA StepsStep == ASSUME TypeOK, Steps, [Next]_vars PROVE Steps'
<1> cmd \in Commands
  BY DEF TypeOK
<1> USE DEF Steps, UpSteps, BeforeMachines, At
<1>1. CASE End
  BY <1>1, EndFacts
<1>2. CASE Create \/ Up \/ ClusterRm \/ MachineRm
  <2>1. <<cmd'.op, cmd'.pc>> \in {<<"create", "hub">>, <<"up", "dir">>, <<"crm", "ask">>,
                               <<"mrm", "rm">>}
    BY <1>2, StartFacts DEF Create, Up, ClusterRm, MachineRm
  <2>2. QED
    BY <2>1
<1>3. CASE StartHub
  BY <1>1, <1>3, StartHubFacts DEF StartHub
<1>4. CASE WriteJSON
  BY <1>1, <1>4, WriteJSONFacts DEF WriteJSON
<1>5. CASE Drive
  BY <1>1, <1>5, GotoFacts, FailedFacts DEF Drive
<1>6. CASE Undo
  BY <1>1, <1>6, GotoFacts DEF Undo
<1>7. CASE GuestDir
  BY <1>7, GotoFacts DEF GuestDir
<1>8. CASE CloneDisk
  BY <1>1, <1>8, GotoFacts, UpFailsFacts DEF CloneDisk
<1>9. CASE CheckLive \/ RemoveSocket
  BY <1>1, <1>9, GotoFacts, UpFailsFacts DEF CheckLive, RemoveSocket
<1>10. CASE StartQemu
  BY <1>1, <1>10, StartQemuFacts, UpFailsFacts DEF StartQemu
<1>11. CASE WaitUntilUp
  BY <1>1, <1>11, GotoFacts, UpFailsFacts DEF WaitUntilUp
<1>12. CASE SaveMeta
  BY <1>1, <1>12, UpDoneFacts DEF SaveMeta
<1>13. CASE AskPowerOff
  BY <1>1, <1>13, NextOrFacts DEF AskPowerOff
<1>14. CASE AwaitStop
  BY <1>1, <1>14, NextOrFacts DEF AwaitStop, StopTimeout
<1>15. CASE RemoveMachine
  BY <1>1, <1>15, NextOrFacts DEF RemoveMachine
<1>16. CASE Ready \/ RemoveCluster \/ MachineRemove \/ Interrupt
  BY <1>1, <1>16 DEF Ready, RemoveCluster, MachineRemove, Interrupt
<1>17. CASE QemuBinds \/ ProcExits \/ OtherStarts \/ UNCHANGED vars
  BY <1>17 DEF QemuBinds, ProcExits, OtherStarts, vars
<1>18. QED
  BY <1>2, <1>3, <1>4, <1>5, <1>6, <1>7, <1>8, <1>9, <1>10, <1>11, <1>12, <1>13, <1>14, <1>15,
     <1>16, <1>17
  DEF Next, CmdStep

\* The invariant holds before the first command.
LEMMA InvInit == ASSUME Init PROVE IInv
<1>1. ran \in 0 .. MaxCommands /\ jsonHub \in 0 .. MaxPid
  BY LocalAssumption DEF LocalAssumption, Init
<1>2. cmd \in Commands /\ cmd.op = "idle" /\ cmd.pc = ""
  BY CommandFacts DEF Init, Idle
<1>3. dir \in [Names -> Dirs] /\ procs \in [Pids -> Processes]
  BY NoDirFacts, ProcessFacts DEF Init
<1>4. \A m \in Names : ~dir[m].there /\ dir[m].meta = 0
  BY NoDirFacts DEF Init
<1>5. TypeOK
  BY <1>1, <1>2, <1>3 DEF TypeOK, Init
<1>6. QED
  BY <1>2, <1>4, <1>5
  DEF IInv, Steps, Known, Creating, Removing, Working, Records, InDir, UpSteps

-----------------------------------------------------------------------------
\* What must hold besides the types and the steps.
Safe == Known /\ Creating /\ Removing /\ Working /\ Records

\* All of a directory but its socket is as it was.
Same(m) ==
    /\ dir'[m].there = dir[m].there
    /\ dir'[m].by = dir[m].by
    /\ dir'[m].disk = dir[m].disk
    /\ dir'[m].meta = dir[m].meta

\* A step at which no command moves, and no QEMU that was not there runs.
LEMMA HostMoves ==
  ASSUME Safe, UNCHANGED <<cmd, json>>, TypeOK,
         \A m \in Names : Same(m) /\ (Runs(m)' => Runs(m))
  PROVE  Safe'
<1>1. This' = This /\ This \in Names
  BY CommandFacts DEF This, TypeOK
<1> USE MachineFacts, <1>1 DEF Safe, Same
<1>2. Known'
  BY DEF Known
<1>3. Creating'
  BY DEF Creating
<1>4. Removing'
  BY DEF Removing
<1>5. Working'
  BY DEF Working
<1>6. Records'
  BY DEF Records
<1>7. QED
  BY <1>2, <1>3, <1>4, <1>5, <1>6

\* A command ends, and leaves cluster.json where it is needed and no guest.json
\* without its directory.
LEMMA CommandOver ==
  ASSUME End, Known', \A m \in Names : ~dir'[m].there => dir'[m].meta = 0
  PROVE  Safe'
<1> USE EndFacts
<1>1. Creating' /\ Removing'
  BY DEF Creating, Removing
<1>2. Working'
  BY DEF Working, InDir, UpSteps
<1>3. Records'
  BY DEF Records
<1>4. QED
  BY <1>1, <1>2, <1>3 DEF Safe

\* A command ends, and leaves the directories as they are.
LEMMA CommandEnded ==
  ASSUME Safe, End, \A m \in Names : Same(m), Known'
  PROVE  Safe'
BY CommandOver DEF Safe, Same, Records

\* The steps of the host: QEMU binds, a process ends, another program starts.
LEMMA HostStep ==
  ASSUME IInv, QemuBinds \/ ProcExits \/ OtherStarts \/ UNCHANGED vars
  PROVE  Safe'
<1>1. Safe /\ TypeOK
  BY DEF Safe, IInv
<1>2. \A m \in Names : Same(m)
  <2>1. UNCHANGED dir \/ \E m \in Names, b \in BOOLEAN : dir' = [dir EXCEPT ![m].sock = b]
    BY DEF QemuBinds, ProcExits, OtherStarts, vars
  <2>2. ASSUME NEW m \in Names, NEW n \in Names, NEW b \in BOOLEAN,
               dir' = [dir EXCEPT ![n].sock = b]
        PROVE  Same(m)
    BY <1>1, <2>2 DEF TypeOK, Dirs, Same
  <2>3. QED
    BY <2>1, <2>2 DEF Same
<1>3. \A p \in Pids : \A m \in Names : procs'[p].of = m => procs[p].of = m
  BY <1>1, ProcessFacts DEF TypeOK, QemuBinds, ProcExits, OtherStarts, Kill, vars
<1>4. \A m \in Names : dir[m].meta # 0 => dir[m].meta \in Pids
  <2>1. \A m \in Names : dir[m].meta \in 0 .. MaxPid
    BY <1>1 DEF TypeOK, Dirs
  <2>2. QED
    BY <2>1, LocalAssumption DEF LocalAssumption, Pids
<1>5. \A m \in Names : Runs(m)' => Runs(m)
  BY <1>2, <1>3, <1>4 DEF Runs, Same
<1>6. UNCHANGED <<cmd, json>>
  BY DEF QemuBinds, ProcExits, OtherStarts, vars
<1>7. QED
  BY <1>1, <1>2, <1>5, <1>6, HostMoves

\* A command starts: create only where no machine has a directory.
LEMMA StartStep ==
  ASSUME IInv, Create \/ Up \/ ClusterRm \/ MachineRm
  PROVE  Safe'
<1>1. UNCHANGED <<dir, json>>
  BY DEF Create, Up, ClusterRm, MachineRm
<1>2. Known'
  BY <1>1 DEF IInv, Known
<1>3. CASE Create
  <2>1. \A m \in Names : ~dir'[m].there /\ dir'[m].meta = 0
    BY <1>1, <1>3 DEF Create, CreateAllowed, IInv, Records
  <2>2. cmd'.op = "create" /\ cmd'.pc = "hub" /\ cmd'.i = 1 /\ This' \in Names
    BY <1>3, StartFacts, MachineFacts DEF Create, This
  <2>3. QED
    BY <1>2, <2>1, <2>2, MachineFacts
    DEF Safe, Creating, Removing, Working, Records, InDir, UpSteps, BeforeMachines
<1>4. CASE Up \/ ClusterRm \/ MachineRm
  <2>1. <<cmd'.op, cmd'.pc>> \in {<<"up", "dir">>, <<"crm", "ask">>, <<"mrm", "rm">>}
    BY <1>4, StartFacts DEF Up, ClusterRm, MachineRm
  <2>2. QED
    BY <1>1, <1>2, <2>1
    DEF Safe, Creating, Removing, Working, IInv, Records, InDir, UpSteps
<1>5. QED
  BY <1>3, <1>4

\* What RemoveDir leaves of the other machines, and of its own.
LEMMA RemoveDirFacts ==
  ASSUME TypeOK, NEW n \in Names, RemoveDir(n), NEW m \in Names
  PROVE  /\ dir'[n] = NoDir
         /\ m # n => dir'[m] = dir[m]
         /\ Runs(m)' => Runs(m)
<1>1. dir'[n] = NoDir /\ (m # n => dir'[m] = dir[m])
  BY DEF TypeOK, RemoveDir
<1>2. ASSUME Runs(m)' PROVE Runs(m)
  <2>1. dir'[m].meta = dir[m].meta /\ dir[m].meta # 0
    BY <1>1, <1>2, NoDirFacts DEF Runs
  <2>2. dir[m].meta \in Pids
    <3>1. dir[m].meta \in 0 .. MaxPid
      BY DEF TypeOK, Dirs
    <3>2. QED
      BY <2>1, <3>1, LocalAssumption DEF LocalAssumption, Pids
  <2>3. procs[dir[m].meta].of = m
    BY <1>2, <2>1, <2>2, ProcessFacts DEF RemoveDir, Runs
  <2>4. QED
    BY <2>1, <2>3 DEF Runs
<1>3. QED
  BY <1>1, <1>2

\* What RemovePart leaves of the other machines, and of its own.
LEMMA RemovePartFacts ==
  ASSUME TypeOK, NEW n \in Names, NEW by, RemovePart(n, by), NEW m \in Names
  PROVE  /\ dir[n].there /\ dir'[n].there /\ dir'[n].by = by
         /\ dir'[n].meta \in {dir[n].meta, 0}
         /\ m # n => dir'[m] = dir[m]
         /\ Runs(m)' => Runs(m)
<1>1. PICK disk \in {dir[n].disk, "none"}, meta \in {dir[n].meta, 0},
           sock \in {dir[n].sock, FALSE} :
              /\ dir[n].there
              /\ dir' = [dir EXCEPT ![n] = [there |-> TRUE, disk |-> disk, by |-> by,
                                            meta |-> meta, sock |-> sock]]
              /\ procs' = [p \in Pids |-> IF procs[p].of = n THEN Kept(procs[p], n, disk, sock)
                                           ELSE procs[p]]
  BY DEF RemovePart
<1>2. /\ dir'[n].there /\ dir'[n].by = by /\ dir'[n].meta = meta
      /\ m # n => dir'[m] = dir[m]
  BY <1>1 DEF TypeOK
<1>3. \A p \in Pids : procs'[p].of = m => procs[p].of = m
  <2>1. \A p \in Pids : procs[p].of = n =>
           procs'[p] = procs[p] \/ procs'[p] = Qemu(n, "cut") \/ procs'[p] = Lost
    BY <1>1 DEF Kept
  <2>2. \A p \in Pids : procs[p].of # n => procs'[p] = procs[p]
    BY <1>1
  <2>3. QED
    BY <2>1, <2>2, ProcessFacts
<1>4. ASSUME Runs(m)' PROVE Runs(m)
  <2>1. dir'[m].meta = dir[m].meta /\ dir[m].meta # 0
    BY <1>1, <1>2, <1>4 DEF Runs
  <2>2. dir[m].meta \in Pids
    <3>1. dir[m].meta \in 0 .. MaxPid
      BY DEF TypeOK, Dirs
    <3>2. QED
      BY <2>1, <3>1, LocalAssumption DEF LocalAssumption, Pids
  <2>3. QED
    BY <1>3, <1>4, <2>1, <2>2 DEF Runs
<1>5. QED
  BY <1>1, <1>2, <1>4

\* The steps of create around its machines: cluster.json is written before the
\* first of them, and removed only when none is there.
LEMMA CreateStep ==
  ASSUME IInv, StartHub \/ WriteJSON \/ Drive \/ Undo \/ Ready
  PROVE  Safe'
<1>1. cmd \in Commands /\ This \in Names /\ dir \in [Names -> Dirs]
  BY CommandFacts DEF IInv, TypeOK
<1>2. cmd.op = "create"
  BY DEF StartHub, WriteJSON, Drive, Undo, Ready, At
<1>3. ASSUME UNCHANGED <<dir, json>>, End PROVE Safe'
  BY <1>3, CommandEnded DEF IInv, Safe, Same, Known
<1>4. CASE StartHub
  <2>1. UNCHANGED <<dir, json>> /\ cmd.pc = "hub"
    BY <1>4 DEF StartHub, At
  <2>2. CASE cmd'.op = cmd.op /\ cmd'.pc = "json" /\ cmd'.i = cmd.i
    BY <1>2, <2>1, <2>2
    DEF IInv, Safe, Known, Creating, Removing, Working, Records, InDir, UpSteps, BeforeMachines,
        This
  <2>3. QED
    BY <1>1, <1>3, <1>4, <2>1, <2>2, StartHubFacts
<1>5. CASE WriteJSON
  <2>1. UNCHANGED dir /\ cmd.pc \in {"json", "write"}
    BY <1>5 DEF WriteJSON
  <2>2. \A m \in Names : ~dir[m].there
    BY <1>2, <2>1 DEF IInv, Creating, BeforeMachines
  <2>3. Known'
    BY <2>1, <2>2 DEF Known
  <2>4. CASE /\ cmd'.op = cmd.op /\ cmd'.i = cmd.i
             /\ cmd'.pc = "write" \/ (cmd'.pc = "drive" /\ json' = "ok")
    BY <1>2, <2>1, <2>2, <2>3, <2>4, MachineFacts
    DEF IInv, Safe, Creating, Removing, Working, Records, InDir, UpSteps, BeforeMachines, This
  <2>5. CASE End
    BY <2>1, <2>3, <2>5, CommandEnded DEF IInv, Safe, Same
  <2>6. QED
    BY <1>1, <1>5, <2>4, <2>5, WriteJSONFacts
<1>6. CASE Drive
  <2>1. UNCHANGED <<dir, json>> /\ cmd.pc = "drive"
    BY <1>6 DEF Drive, At
  <2>2. CASE cmd'.op = cmd.op /\ cmd'.pc \in {"dir", "undo"} /\ cmd'.i = cmd.i
             /\ (cmd'.pc = "undo" => cmd.i = 1)
    BY <1>2, <2>1, <2>2, MachineFacts
    DEF IInv, Safe, Known, Creating, Removing, Working, Records, InDir, UpSteps, BeforeMachines,
        This
  <2>3. QED
    BY <1>1, <1>3, <1>6, <2>1, <2>2, GotoFacts, FailedFacts DEF Drive
<1>7. CASE Undo
  <2>1. CASE At("create", "undo")
    <3>1. UNCHANGED <<dir, json>> /\ Goto("undo1") /\ cmd.pc = "undo"
      BY <1>7, <2>1 DEF Undo, At
    <3>2. cmd'.op = cmd.op /\ cmd'.pc = "undo1" /\ cmd'.i = cmd.i
      BY <1>1, <3>1, GotoFacts
    <3>3. QED
      BY <1>2, <3>1, <3>2
      DEF IInv, Safe, Known, Creating, Removing, Working, Records, InDir, UpSteps, BeforeMachines,
          This
  <2>2. CASE At("create", "undo1")
    <3>1. /\ UNCHANGED json /\ Goto("undo2") /\ cmd.pc = "undo1"
          /\ RemoveDir(This) \/ RemovePart(This, "left")
      BY <1>7, <2>2 DEF Undo, At
    <3>2. cmd'.op = "create" /\ cmd'.pc = "undo2" /\ cmd'.i = 1 /\ cmd.i = 1 /\ json' = "ok"
      BY <1>1, <1>2, <3>1, GotoFacts DEF IInv, Creating, BeforeMachines
    <3>3. \A m \in Names : dir[m].there => m = This
      <4>1. \A j \in DOMAIN Machines : dir[Machines[j]].there => j = 1
        BY <1>2, <3>2, MachineFacts DEF IInv, Creating
      <4>2. QED
        BY <3>2, <4>1, MachineFacts DEF This
    <3>4. \A m \in Names : m # This => dir'[m] = dir[m]
      BY <1>1, <3>1, RemoveDirFacts, RemovePartFacts DEF IInv
    <3>5. \/ ~dir'[This].there /\ dir'[This].meta = 0
          \/ dir'[This].there /\ dir'[This].by = "left" /\ dir'[This].meta \in {dir[This].meta, 0}
      BY <1>1, <3>1, RemoveDirFacts, RemovePartFacts, NoDirFacts DEF IInv
    <3>6. dir[This].meta = 0 /\ \A m \in Names : ~dir[m].there => dir[m].meta = 0
      BY <1>2, <3>1 DEF IInv, Records
    <3>7. \A m \in Names : /\ dir'[m].there => m = This /\ dir'[m].by # "create"
                           /\ dir'[m].meta = 0
      BY <3>3, <3>4, <3>5, <3>6
    <3>8. This' = This
      BY <3>2 DEF This
    <3>9. Creating'
      <4>1. \A j \in DOMAIN Machines : Machines[j] = This => j = 1
        BY <3>2, MachineFacts, LocalAssumption DEF LocalAssumption, This
      <4>2. QED
        BY <3>2, <3>7, <4>1, MachineFacts DEF Creating, BeforeMachines
    <3>10. Known' /\ Removing' /\ Working' /\ Records'
      BY <1>1, <3>2, <3>7, <3>8 DEF Known, Removing, Working, Records, InDir, UpSteps
    <3>11. QED
      BY <3>9, <3>10 DEF Safe
  <2>3. CASE At("create", "undo2")
    <3>1. UNCHANGED dir /\ End
      BY <1>7, <2>3 DEF Undo, At
    <3>2. \A m \in Names : dir[m].there => dir[m].by # "create"
      BY <2>3 DEF IInv, Creating, At
    <3>3. QED
      BY <3>1, <3>2, CommandEnded DEF IInv, Safe, Same, Known
  <2>4. QED
    BY <1>7, <2>1, <2>2, <2>3 DEF Undo
<1>8. CASE Ready
  BY <1>3, <1>8 DEF Ready
<1>9. QED
  BY <1>4, <1>5, <1>6, <1>7, <1>8

\* A step of `machine up` that makes no directory and saves no guest.json, and
\* after which the disk is what the next step expects.
LEMMA UpMoves ==
  ASSUME IInv, cmd.op \in {"create", "up"}, cmd.pc \in InDir, UNCHANGED json,
         \A m \in Names : /\ dir'[m].there = dir[m].there /\ dir'[m].by = dir[m].by
                          /\ dir'[m].meta = dir[m].meta,
         cmd'.op = cmd.op, cmd'.i = cmd.i, cmd'.pc \in InDir,
         cmd.op = "create" =>
            /\ cmd'.pc = "clone" => dir'[This].disk = "none"
            /\ cmd'.pc \in {"live", "unlink", "start", "wait", "save"} => dir'[This].disk = "whole"
  PROVE  Safe'
<1>1. This' = This /\ This \in Names
  BY CommandFacts DEF This, IInv, TypeOK
<1> USE <1>1 DEF IInv, Safe, InDir, UpSteps
<1>2. Known'
  BY DEF Known
<1>3. Creating'
  BY MachineFacts DEF Creating, BeforeMachines
<1>4. Removing' /\ Working' /\ Records'
  BY DEF Removing, Working, Records
<1>5. QED
  BY <1>2, <1>3, <1>4

\* A step of `machine up` at which it fails: alone it ends, and create cleans up
\* after its first machine.
LEMMA UpFailed ==
  ASSUME IInv, cmd.op \in {"create", "up"}, cmd.pc \in InDir, UNCHANGED <<dir, json>>, UpFails
  PROVE  Safe'
<1>1. CASE End
  BY <1>1, CommandEnded DEF IInv, Safe, Same, Known
<1>2. CASE /\ cmd.op = "create"
           /\ cmd'.op = cmd.op /\ cmd'.pc = "undo" /\ cmd'.i = 1 /\ cmd.i = 1
  BY <1>2, MachineFacts
  DEF IInv, Safe, Known, Creating, Removing, Working, Records, InDir, UpSteps, BeforeMachines,
      This
<1>3. QED
  BY <1>1, <1>2, UpFailsFacts DEF IInv, TypeOK

\* The steps of `machine up`, as a command of its own and as part of create, which
\* finds no directory for its next machine and so clones a disk for it.
LEMMA UpStep ==
  ASSUME IInv,
         \/ GuestDir \/ CloneDisk \/ CheckLive \/ RemoveSocket
         \/ StartQemu \/ WaitUntilUp \/ SaveMeta
  PROVE  Safe'
<1>1. cmd \in Commands /\ This \in Names /\ dir \in [Names -> Dirs]
  BY CommandFacts DEF IInv, TypeOK
<1>2. cmd.op \in {"create", "up"} /\ cmd.pc \in UpSteps
  BY <1>1 DEF Commands, IInv, Steps, UpSteps, GuestDir, CloneDisk, CheckLive,
              RemoveSocket, StartQemu, WaitUntilUp, SaveMeta
<1>3. CASE GuestDir
  <2>1. UNCHANGED json /\ cmd.pc = "dir" /\ Goto("clone")
    BY <1>3 DEF GuestDir
  <2>2. cmd'.op = cmd.op /\ cmd'.pc = "clone" /\ cmd'.i = cmd.i /\ This' = This
    BY <1>1, <2>1, GotoFacts DEF This
  <2>3. cmd.op = "create" => ~dir[This].there /\ json = "ok"
    <3>1. cmd.i \in DOMAIN Machines /\ cmd.i \in Nat
      BY <1>1, CommandFacts, MachineFacts
    <3>2. QED
      BY <2>1, <3>1 DEF IInv, Creating, BeforeMachines, This
  <2>4. \A m \in Names : m # This => dir'[m] = dir[m]
    BY <1>1, <1>3 DEF GuestDir
  <2>5. dir'[This] = IF dir[This].there THEN dir[This]
                     ELSE [NoDir EXCEPT !.there = TRUE, !.by = cmd.op]
    BY <1>1, <1>3 DEF GuestDir
  <2>6. dir'[This].there /\ dir'[This].meta = dir[This].meta
    BY <1>1, <2>5 DEF NoDir, IInv, Records
  <2>7. cmd.op = "create" => dir'[This].by = "create" /\ dir'[This].disk = "none"
    BY <2>3, <2>5 DEF NoDir
  <2>8. cmd.op = "up" => \/ dir[This].there /\ dir'[This].by = dir[This].by
                       \/ dir'[This].by = "up"
    BY <2>5 DEF NoDir
  <2>9. Known'
    BY <1>2, <2>1, <2>3, <2>4, <2>6, <2>8 DEF IInv, Known
  <2>10. Creating'
    <3>1. \A j \in DOMAIN Machines : Machines[j] = This => j = cmd.i
      BY <1>1, CommandFacts, LocalAssumption DEF LocalAssumption, This, Commands
    <3>2. \A j \in DOMAIN Machines : Machines[j] # This =>
             dir'[Machines[j]] = dir[Machines[j]]
      BY <2>4, MachineFacts
    <3>3. QED
      BY <2>1, <2>2, <2>3, <3>1, <3>2 DEF IInv, Creating, BeforeMachines
  <2>11. Removing' /\ Working'
    BY <1>2, <2>2, <2>6, <2>7 DEF Removing, Working
  <2>12. Records'
    BY <1>1, <1>2, <2>1, <2>2, <2>4, <2>6 DEF IInv, Records
  <2>13. QED
    BY <2>9, <2>10, <2>11, <2>12 DEF Safe
<1>4. CASE CloneDisk
  <2>1. UNCHANGED json /\ cmd.pc \in {"clone", "copy"}
    BY <1>4 DEF CloneDisk
  <2>2. CASE UpFails /\ UNCHANGED dir
    BY <1>2, <2>1, <2>2, UpFailed DEF InDir, UpSteps
  <2>3. CASE \/ /\ cmd.pc = "clone" /\ dir[This].disk # "none"
                /\ Goto("live") /\ UNCHANGED dir
             \/ /\ cmd.pc = "clone" /\ Goto("copy")
                /\ dir' = [dir EXCEPT ![This].disk = "partial"]
             \/ /\ cmd.pc = "copy" /\ Goto("live")
                /\ dir' = [dir EXCEPT ![This].disk = "whole"]
    <3>1. /\ cmd'.op = cmd.op /\ cmd'.i = cmd.i
          /\ \/ /\ cmd.pc = "clone" /\ dir[This].disk # "none" /\ UNCHANGED dir
                /\ cmd'.pc = "live"
             \/ cmd'.pc = "copy" /\ dir' = [dir EXCEPT ![This].disk = "partial"]
             \/ cmd'.pc = "live" /\ dir' = [dir EXCEPT ![This].disk = "whole"]
      BY <1>1, <2>3, GotoFacts
    <3>2. \A m \in Names : /\ dir'[m].there = dir[m].there /\ dir'[m].by = dir[m].by
                           /\ dir'[m].meta = dir[m].meta
      <4>1. ASSUME NEW d, dir' = [dir EXCEPT ![This].disk = d], NEW m \in Names
            PROVE  /\ dir'[m].there = dir[m].there /\ dir'[m].by = dir[m].by
                   /\ dir'[m].meta = dir[m].meta
        BY <1>1, <4>1 DEF Dirs
      <4>2. QED
        BY <3>1, <4>1
    <3>3. cmd.op = "create" /\ cmd'.pc = "live" => dir'[This].disk = "whole"
      BY <1>1, <2>1, <3>1 DEF Dirs, IInv, Working, InDir, UpSteps
    <3>4. QED
      BY <1>2, <2>1, <3>1, <3>2, <3>3, UpMoves DEF InDir, UpSteps
  <2>4. QED
    BY <1>4, <2>2, <2>3 DEF CloneDisk
<1>5. CASE CheckLive \/ RemoveSocket
  <2>1. UNCHANGED json /\ cmd.pc \in {"live", "unlink"}
    BY <1>5 DEF CheckLive, RemoveSocket
  <2>2. CASE UpFails /\ UNCHANGED dir
    BY <1>2, <2>1, <2>2, UpFailed DEF InDir, UpSteps
  <2>3. CASE \/ Goto("unlink") /\ UNCHANGED dir
             \/ Goto("start") /\ dir' = [dir EXCEPT ![This].sock = FALSE]
    <3>1. \A m \in Names : Same(m)
      <4>1. ASSUME dir' = [dir EXCEPT ![This].sock = FALSE], NEW m \in Names
            PROVE  Same(m)
        BY <1>1, <4>1 DEF Dirs, Same
      <4>2. QED
        BY <2>3, <4>1 DEF Same
    <3>2. cmd'.op = cmd.op /\ cmd'.pc \in {"unlink", "start"} /\ cmd'.i = cmd.i
      BY <1>1, <2>3, GotoFacts
    <3>3. QED
      BY <1>1, <1>2, <2>1, <3>1, <3>2, UpMoves DEF Same, IInv, Working, InDir, UpSteps
  <2>4. QED
    BY <1>5, <2>2, <2>3 DEF CheckLive, RemoveSocket
<1>6. CASE StartQemu \/ WaitUntilUp
  <2>1. UNCHANGED <<dir, json>> /\ cmd.pc \in {"start", "wait"}
    BY <1>6 DEF StartQemu, WaitUntilUp
  <2>2. CASE UpFails
    BY <1>2, <2>1, <2>2, UpFailed DEF InDir, UpSteps
  <2>3. CASE cmd'.op = cmd.op /\ cmd'.pc \in {"wait", "save"} /\ cmd'.i = cmd.i
    BY <1>1, <1>2, <2>1, <2>3, UpMoves DEF IInv, Working, InDir, UpSteps
  <2>4. QED
    BY <1>1, <1>6, <2>2, <2>3, StartQemuFacts, GotoFacts DEF WaitUntilUp
<1>7. CASE SaveMeta
  <2>1. UNCHANGED json /\ cmd.pc = "save" /\ UpDone
    BY <1>7 DEF SaveMeta
  <2>2. \A m \in Names : /\ dir'[m].there = dir[m].there /\ dir'[m].by = dir[m].by
                         /\ m # This => dir'[m] = dir[m]
    <3>1. ASSUME NEW p, dir' = [dir EXCEPT ![This].meta = p], NEW m \in Names
          PROVE  /\ dir'[m].there = dir[m].there /\ dir'[m].by = dir[m].by
                 /\ m # This => dir'[m] = dir[m]
      BY <1>1, <3>1 DEF Dirs
    <3>2. QED
      BY <1>7, <3>1 DEF SaveMeta
  <2>3. Known'
    BY <2>1, <2>2 DEF IInv, Known
  <2>4. \A m \in Names : ~dir'[m].there => dir'[m].meta = 0
    BY <2>1, <2>2 DEF IInv, Records, Working, InDir, UpSteps
  <2>5. CASE End
    BY <2>3, <2>4, <2>5, EndFacts DEF Safe, Creating, Removing, Working, Records, InDir, UpSteps
  <2>6. CASE cmd.op = "create" /\ cmd'.op = cmd.op /\ cmd'.pc = "ready" /\ cmd'.i = cmd.i
    BY <2>1, <2>2, <2>3, <2>4, <2>6, MachineFacts
    DEF IInv, Safe, Creating, Removing, Working, Records, InDir, UpSteps, BeforeMachines
  <2>7. CASE /\ cmd.op = "create" /\ cmd'.op = cmd.op
             /\ cmd'.pc = "drive" /\ cmd'.i = cmd.i + 1 /\ cmd.i # Len(Machines)
    <3>1. cmd.i \in Nat /\ cmd'.i \in DOMAIN Machines /\ This' \in Names
      BY <1>1, <2>7, CommandFacts, MachineFacts DEF This
    <3>2. Creating'
      BY <2>1, <2>2, <2>7, <3>1, MachineFacts DEF IInv, Creating, BeforeMachines
    <3>3. ~dir'[This'].there
      BY <2>7, <3>1, <3>2 DEF Creating, This
    <3>4. QED
      BY <2>3, <2>4, <2>7, <3>1, <3>2, <3>3 DEF Safe, Removing, Working, Records, InDir, UpSteps
  <2>8. QED
    BY <1>1, <2>1, <2>5, <2>6, <2>7, UpDoneFacts
<1>8. QED
  BY <1>3, <1>4, <1>5, <1>6, <1>7

\* The steps of `cluster rm` and `machine rm`, and an interrupt: a machine is
\* removed only when the QEMU on its record is gone, and cluster.json last.
LEMMA RemoveStep ==
  ASSUME IInv,
         AskPowerOff \/ AwaitStop \/ RemoveMachine \/ RemoveCluster \/ MachineRemove \/ Interrupt
  PROVE  Safe'
<1>1. /\ cmd \in Commands /\ This \in Names /\ dir \in [Names -> Dirs] /\ TypeOK
      /\ cmd.i \in Nat
  BY CommandFacts DEF IInv, TypeOK
<1>2. ASSUME UNCHANGED <<dir, json>>, End PROVE Safe'
  BY <1>2, CommandEnded DEF IInv, Safe, Same, Known
<1>3. CASE AskPowerOff
  <2>1. UNCHANGED <<dir, json, procs>> /\ cmd.op = "crm" /\ cmd.pc = "ask"
    BY <1>3 DEF AskPowerOff, At
  <2>2. CASE NextOr("stop")
    <3>1. cmd'.op = "crm" /\ (cmd'.pc = "ask" \/ (cmd'.pc = "stop" /\ cmd'.i = 1))
      BY <1>1, <2>1, <2>2, NextOrFacts
    <3>2. QED
      BY <2>1, <3>1, MachineFacts
      DEF IInv, Safe, Known, Creating, Removing, Working, Records, InDir, UpSteps
  <2>3. QED
    BY <1>2, <1>3, <2>1, <2>2 DEF AskPowerOff
<1>4. CASE AwaitStop
  <2>1. UNCHANGED <<dir, json>> /\ cmd.op = "crm" /\ cmd.pc = "stop"
    BY <1>4 DEF AwaitStop, At
  <2>2. CASE NextOr("rm") /\ ~ProcessRunning(dir[This].meta)
    <3>1. ~Runs(This)
      BY <1>1, <2>2, ProcessFacts DEF Runs, ProcessRunning
    <3>2. \A m \in Names : Runs(m)' => Runs(m)
      <4>1. UNCHANGED procs \/ procs' = Kill(jsonHub)
        BY <1>4 DEF AwaitStop
      <4>2. \A p \in Pids : procs'[p] = procs[p] \/ procs'[p] = Free
        BY <1>1, <4>1 DEF TypeOK, Kill
      <4>3. \A m \in Names : dir[m].meta \in 0 .. MaxPid
        BY <1>1 DEF Dirs
      <4>4. \A m \in Names : dir[m].meta # 0 => dir[m].meta \in Pids
        BY <4>3, LocalAssumption DEF LocalAssumption, Pids
      <4>5. QED
        BY <2>1, <4>2, <4>4, ProcessFacts DEF Runs
    <3>3. CASE cmd'.pc = "stop" /\ cmd'.i = cmd.i + 1 /\ cmd'.op = "crm"
      <4>1. \A j \in DOMAIN Machines : j < cmd'.i => ~Runs(Machines[j])
        BY <1>1, <2>1, <3>1, <3>3, MachineFacts DEF IInv, Records, This
      <4>2. \A j \in DOMAIN Machines : j < cmd'.i => ~Runs(Machines[j])'
        BY <3>2, <4>1, MachineFacts
      <4>3. QED
        BY <2>1, <3>3, <4>2
        DEF IInv, Safe, Known, Creating, Removing, Working, Records, InDir, UpSteps
    <3>4. CASE /\ cmd.i = Len(Machines)
               /\ cmd'.pc = "rm" /\ cmd'.i = 1 /\ cmd'.op = "crm"
      <4>1. \A j \in DOMAIN Machines : ~Runs(Machines[j])
        <5>1. \A j \in DOMAIN Machines : j < cmd.i \/ j = cmd.i
          BY <3>4, MachineFacts
        <5>2. QED
          BY <2>1, <3>1, <5>1 DEF IInv, Records, This
      <4>2. \A m \in Names : ~Runs(m)'
        BY <3>2, <4>1, MachineFacts
      <4>3. \A j \in DOMAIN Machines : ~(j < cmd'.i)
        BY <3>4, MachineFacts
      <4>4. QED
        BY <2>1, <3>4, <4>2, <4>3
        DEF IInv, Safe, Known, Creating, Removing, Working, Records, InDir, UpSteps
    <3>5. QED
      BY <1>1, <2>1, <2>2, <3>3, <3>4, NextOrFacts
  <2>3. QED
    BY <1>2, <1>4, <2>1, <2>2 DEF AwaitStop, StopTimeout
<1>5. ASSUME UNCHANGED json, RemovePart(This, dir[This].by), End PROVE Safe'
  <2>1. \A m \in Names : /\ dir[This].there /\ dir'[This].there /\ dir'[This].by = dir[This].by
                         /\ m # This => dir'[m] = dir[m]
    BY <1>1, <1>5, RemovePartFacts
  <2>2. Known' /\ \A m \in Names : ~dir'[m].there => dir'[m].meta = 0
    BY <1>1, <1>5, <2>1 DEF IInv, Known, Records
  <2>3. QED
    BY <1>5, <2>2, CommandOver
<1>6. CASE RemoveMachine /\ RemoveDir(This) /\ NextOr("rmall")
  <2>1. UNCHANGED json /\ cmd.op = "crm" /\ cmd.pc = "rm" /\ RemoveDir(This) /\ NextOr("rmall")
    BY <1>6 DEF RemoveMachine, At
  <2>2. \A m \in Names : /\ dir'[This] = NoDir /\ (m # This => dir'[m] = dir[m])
                         /\ Runs(m)' => Runs(m)
    BY <1>1, <2>1, RemoveDirFacts
  <2>3. Known'
    BY <1>1, <2>1, <2>2, NoDirFacts DEF IInv, Known
  <2>4. \A m \in Names : ~Runs(m)' /\ (~dir'[m].there => dir'[m].meta = 0)
    <3>1. \A m \in Names : ~Runs(m) /\ (~dir[m].there => dir[m].meta = 0)
      BY <1>1, <2>1 DEF IInv, Records
    <3>2. \A m \in Names : ~dir'[m].there => dir'[m].meta = 0
      BY <2>2, <3>1, NoDirFacts
    <3>3. QED
      BY <2>2, <3>1, <3>2
  <2>5. \A j \in DOMAIN Machines : j < cmd.i \/ j = cmd.i => ~dir'[Machines[j]].there
    <3>1. \A m \in Names : ~dir[m].there \/ m = This => ~dir'[m].there
      BY <2>2, NoDirFacts
    <3>2. \A j \in DOMAIN Machines : j < cmd.i => ~dir[Machines[j]].there
      BY <2>1 DEF IInv, Removing
    <3>3. QED
      BY <3>1, <3>2, MachineFacts DEF This
  <2>6. CASE cmd'.op = "crm" /\ cmd'.pc = "rm" /\ cmd'.i = cmd.i + 1
    <3>1. \A j \in DOMAIN Machines : j < cmd'.i => ~dir'[Machines[j]].there
      BY <1>1, <2>5, <2>6, MachineFacts
    <3>2. QED
      BY <2>3, <2>4, <2>6, <3>1 DEF Safe, Creating, Removing, Working, Records, InDir, UpSteps
  <2>7. CASE cmd'.op = "crm" /\ cmd'.pc = "rmall" /\ cmd.i = Len(Machines)
    <3>1. \A j \in DOMAIN Machines : j < cmd.i \/ j = cmd.i
      BY <2>7, MachineFacts
    <3>2. \A m \in Names : ~dir'[m].there
      BY <2>5, <3>1, MachineFacts
    <3>3. QED
      BY <2>3, <2>4, <2>7, <3>2 DEF Safe, Creating, Removing, Working, Records, InDir, UpSteps
  <2>8. QED
    BY <1>1, <2>1, <2>6, <2>7, NextOrFacts
<1>7. CASE RemoveCluster
  <2>1. UNCHANGED dir /\ End /\ \A m \in Names : ~dir[m].there
    BY <1>7 DEF RemoveCluster, At, IInv, Removing
  <2>2. QED
    BY <2>1, CommandEnded DEF IInv, Safe, Same, Known
<1>8. CASE MachineRemove /\ RemoveDir(This)
  <2>1. UNCHANGED json /\ End
    BY <1>8 DEF MachineRemove
  <2>2. \A m \in Names : dir'[This] = NoDir /\ (m # This => dir'[m] = dir[m])
    BY <1>1, <1>8, RemoveDirFacts
  <2>3. Known' /\ \A m \in Names : ~dir'[m].there => dir'[m].meta = 0
    BY <1>1, <2>1, <2>2, NoDirFacts DEF IInv, Known, Records
  <2>4. QED
    BY <2>1, <2>3, CommandOver
<1>9. CASE Interrupt
  BY <1>2, <1>9 DEF Interrupt
<1>10. QED
  BY <1>3, <1>4, <1>5, <1>6, <1>7, <1>8, <1>9 DEF RemoveMachine, MachineRemove

\* Every step keeps the invariant.
LEMMA InvStep == ASSUME IInv, [Next]_vars PROVE IInv'
<1>1. TypeOK' /\ Steps'
  BY TypesStep, StepsStep DEF IInv
<1>2. Safe'
  BY HostStep, StartStep, CreateStep, UpStep, RemoveStep DEF Next, CmdStep
<1>3. QED
  BY <1>1, <1>2 DEF Safe, IInv

\* The invariant holds for ever.
THEOREM Invariant == Spec => []IInv
<1>1. Init => IInv
  BY InvInit
<1>2. IInv /\ [Next]_vars => IInv'
  BY InvStep
<1>3. QED
  BY <1>1, <1>2, PTL DEF Spec

\* Wherever createCluster, clusterRemoveCmd and the commands for single machines are
\* interrupted, and whatever os.RemoveAll fails to remove, a machine that create made
\* is in a cluster.json that `cluster rm` reads, unless cleanupUnstartedCluster gave
\* it up: NoOrphanMachines.
THEOREM AlwaysRemovable == Spec => []NoOrphanMachines
<1>1. IInv => NoOrphanMachines
  BY DEF IInv, Known, NoOrphanMachines
<1>2. QED
  BY <1>1, Invariant, PTL

\* createCluster refuses machines that exist, so that cloneGuestDisk always clones
\* for it, and QEMU starts on that clone or not at all: FreshDisks.
THEOREM AlwaysFreshDisks == Spec => FreshDisks
<1>1. ASSUME IInv, cmd.op = "create", cmd.pc = "start"
      PROVE  dir[This].by = "create" /\ dir[This].disk = "whole"
  BY <1>1 DEF IInv, Working, InDir, UpSteps
<1>2. IInv /\ [Next]_vars =>
         [cmd.op = "create" /\ cmd.pc = "start" /\ cmd'.pc = "wait"
             => dir[This].by = "create" /\ dir[This].disk = "whole"]_vars
  BY <1>1
<1>3. QED
  BY <1>2, Invariant, PTL DEF Spec, FreshDisks

\* clusterRemoveCmd waits for every QEMU on record before it removes a directory, and
\* create cleans up only a first machine that has no record yet: RecordedKept.
THEOREM AlwaysRecordedKept == Spec => RecordedKept
<1> DEFINE Keeps == cmd.op # "mrm" =>
             \A m \in Names : LET p == dir[m].meta
                              IN p # 0 /\ procs[p] \in OnDisk(m) => procs'[p] \notin DiskTaken(m)
<1>1. ASSUME IInv, Next PROVE Keeps
  <2> SUFFICES ASSUME cmd.op # "mrm", NEW m \in Names,
                      dir[m].meta # 0, procs[dir[m].meta] \in OnDisk(m)
               PROVE  procs'[dir[m].meta] \notin DiskTaken(m)
    OBVIOUS
  <2> DEFINE p == dir[m].meta
  <2>1. cmd \in Commands /\ This \in Names /\ TypeOK
    BY <1>1, CommandFacts DEF IInv, TypeOK
  <2>2. Runs(m) /\ procs[p].of = m
    BY ProcessFacts DEF OnDisk, Runs
  <2>3. p \in Pids
    <3>1. p \in 0 .. MaxPid /\ p # 0
      BY <2>1 DEF TypeOK, Dirs
    <3>2. QED
      BY <3>1, LocalAssumption DEF LocalAssumption, Pids
  <2>4. procs[p] \in OnDisk(m)
    OBVIOUS
  <2> HIDE DEF p
  <2>5. \A q : q \in OnDisk(m) \cup {Free, Hub, Other} => q \notin DiskTaken(m)
    <3>1. Lost.of = "lost" /\ Free.of = "none" /\ Hub.of = "hub" /\ Other.of = "other"
      BY DEF Lost, Free, Hub, Other
    <3>2. \A st : Qemu(m, st).of = m /\ Qemu(m, st).st = st
      BY DEF Qemu
    <3>3. m \notin {"lost", "none", "hub", "other"}
      BY MachineFacts
    <3>4. QED
      BY <3>1, <3>2, <3>3 DEF OnDisk, DiskTaken
  <2>6. SUFFICES procs'[p] \in OnDisk(m) \cup {Free, Hub, Other}
    BY <2>5 DEF p
  <2>7. CASE Undo
    <3>1. CASE At("create", "undo1")
      <4>1. dir[This].meta = 0
        BY <1>1, <3>1 DEF IInv, Records, At
      <4>2. m # This
        BY <4>1, <2>2 DEF Runs
      <4>3. QED
        BY <2>1, <2>2, <2>3, <2>4, <2>7, <3>1, <4>2 DEF Undo, At, RemoveDir, RemovePart, TypeOK
    <3>2. CASE ~At("create", "undo1")
      BY <2>1, <2>3, <2>4, <2>7, <3>2 DEF Undo, Kill, TypeOK
    <3>3. QED
      BY <3>1, <3>2
  <2>8. CASE RemoveMachine
    BY <1>1, <2>2, <2>8 DEF RemoveMachine, At, IInv, Records
  <2>9. CASE MachineRemove
    BY <2>9 DEF MachineRemove, At
  <2>10. CASE StartHub \/ StartQemu
    <3>1. procs[p] # Free
      BY <2>2, ProcessFacts
    <3>2. QED
      BY <2>1, <2>3, <2>4, <2>10, <3>1, NextPidFacts DEF StartHub, StartQemu, TypeOK
  <2>11. CASE WriteJSON \/ AwaitStop
    BY <2>1, <2>3, <2>4, <2>11 DEF WriteJSON, AwaitStop, Kill, TypeOK
  <2>12. CASE QemuBinds
    <3>1. PICK q \in Pids, n \in Names : /\ procs[q] = Qemu(n, "starting")
                                        /\ procs' = [procs EXCEPT ![q] = Qemu(n, "up")]
      BY <2>12 DEF QemuBinds
    <3>2. q = p => n = m
      BY <2>2, <3>1, ProcessFacts
    <3>3. QED
      BY <2>1, <2>3, <2>4, <3>1, <3>2 DEF TypeOK, OnDisk
  <2>13. CASE ProcExits \/ OtherStarts
    BY <2>1, <2>3, <2>4, <2>13 DEF ProcExits, OtherStarts, Kill, TypeOK
  <2>14. CASE UNCHANGED procs
    BY <2>4, <2>14
  <2>15. QED
    BY <1>1, <2>7, <2>8, <2>9, <2>10, <2>11, <2>12, <2>13, <2>14
    DEF Next, CmdStep, Create, Up, ClusterRm, MachineRm, Drive, Ready, GuestDir, CloneDisk,
        CheckLive, RemoveSocket, WaitUntilUp, SaveMeta, AskPowerOff, RemoveCluster, Interrupt
<1>2. IInv /\ [Next]_vars => [Keeps]_vars
  BY <1>1
<1>3. QED
  BY <1>2, Invariant, PTL DEF Spec, RecordedKept
=============================================================================
