----------------------------- MODULE BootRecord -----------------------------
(***************************************************************************)
(* The boot record: status.Recorder (internal/status) and its users in     *)
(* cmd/k0smos/init_linux.go. The goroutine of boot records each stage, one *)
(* goroutine per DHCP interface records every lease it applies, and the    *)
(* supervisor's OnExit records every exit of the workload. Each of them    *)
(* reads and changes the record under the mutex, releases it, takes a      *)
(* snapshot under the mutex again and writes the snapshot to               *)
(* /run/k0smos/boot.json with os.WriteFile, which truncates the file and   *)
(* then fills it. Reading and writing the record are steps of their own.   *)
(*                                                                         *)
(* A boot that pivots replaces PID1's image: the record in memory and the  *)
(* initramfs's /run, which switchroot does not move, are both gone.        *)
(***************************************************************************)
EXTENDS Naturals, Sequences, SequencesExt, FiniteSets

CONSTANTS
    Nics,         \* the interfaces configured by DHCP, each with its goroutine
    MaxRenewals,  \* bound: leases each of them applies after the first
    MaxExits      \* bound: times the workload exits

Free == "free"

ASSUME BootRecordAssumptions ==
    /\ Nics \in Seq(STRING) /\ IsInjective(Nics)
    /\ Range(Nics) \cap {"boot", "sup", Free} = {}
    /\ MaxRenewals \in Nat
    /\ MaxExits \in Nat

Renewers == Range(Nics)
Threads == {"boot", "sup"} \cup Renewers

VARIABLES
    stages,    \* what boot has still to do
    started,   \* the goroutines boot has started
    rec,       \* the record in memory
    sink,      \* rec has a sink
    mu,        \* who holds the recorder's mutex
    thread,    \* thread[t]: [at, snap], snap what it last read of the record
    file,      \* boot.json: [is, holds]
    alive,     \* a workload process runs
    exits,     \* history: times the workload has exited
    renewals   \* history: renewals[n], leases applied after the first

recordVars == <<stages, started, rec, sink, mu, thread, file, alive, exits, renewals>>

Step(name) == [op |-> "step", arg |-> name]
Go(t) == [op |-> "go", arg |-> t]
SetHostname == [op |-> "hostname", arg |-> "hostname"]
SetChild == [op |-> "child", arg |-> "child"]
RecordTo == [op |-> "recordTo", arg |-> "boot.json"]
Exec == [op |-> "exec", arg |-> "init"]
SetSwitchedRoot(answer) == [op |-> "switched", arg |-> answer]

\* What a boot records when every stage succeeds, up to the pivot and after it;
\* one that fails a stage records that and ends, or leaves the stage out. A step
\* called network is recorded by apply for each lease, and the interface's
\* renewal goroutine starts after it.
BeforePivot(switched) ==
    << SetSwitchedRoot(switched), Step("mounts"), RecordTo, Step("modules") >>
NetworkStages ==
    [i \in 1 .. 2 * Len(Nics) |->
        IF i % 2 = 1 THEN Step("network") ELSE Go(Nics[i \div 2])]
WholeBoot(before) ==
    before \o << Step("cgroup2"), Step("metadata"), Step("loopback") >>
        \o NetworkStages \o << SetHostname, SetChild, Go("sup") >>

\* A root found by its label is recorded and switched to; root=none stays.
SwitchingBoot ==
    WholeBoot(BeforePivot("no") \o << Step("root"), Exec >> \o BeforePivot("yes"))
InitramfsBoot == WholeBoot(BeforePivot("no"))

EmptyRecord ==
    [switched |-> FALSE, named |-> FALSE, steps |-> << >>, running |-> FALSE, restarts |-> 0]
NoFile == [is |-> "absent", holds |-> EmptyRecord]
Idle == [at |-> "idle", snap |-> EmptyRecord]

StepNames == {"mounts", "modules", "root", "cgroup2", "metadata", "loopback", "network"}

RecordTypeOK ==
    /\ started \subseteq Threads
    /\ rec.steps \in Seq(StepNames)
    /\ rec.switched \in BOOLEAN
    /\ rec.named \in BOOLEAN
    /\ rec.running \in BOOLEAN
    /\ rec.restarts \in 0 .. MaxExits
    /\ sink \in BOOLEAN
    /\ mu \in Threads \cup {Free}
    /\ \A t \in Threads : thread[t].at \in {"idle", "want", "crit", "have", "flush",
                                        "snap", "sink", "write"}
    /\ file.is \in {"absent", "empty", "whole", "torn"}
    /\ alive \in BOOLEAN
    /\ exits \in 0 .. MaxExits
    /\ renewals \in [Renewers -> 0 .. MaxRenewals]

RecordInit ==
    /\ stages \in {SwitchingBoot, InitramfsBoot}
    /\ started = {"boot"}
    /\ rec = EmptyRecord
    /\ sink = FALSE
    /\ mu = Free
    /\ thread = [t \in Threads |-> Idle]
    /\ file = NoFile
    /\ alive = FALSE
    /\ exits = 0
    /\ renewals = [n \in Renewers |-> 0]

-----------------------------------------------------------------------------
(* The recorder.                                                           *)

At(t, place) == thread' = [thread EXCEPT ![t].at = place]

\* Faulty variant of Lock: the mutex is not taken.
LockUnheld(t) ==
    /\ At(t, "crit")
    /\ UNCHANGED mu

\* A goroutine with something to record takes the mutex ...
Lock(t) ==
    /\ mu = Free
    /\ mu' = t
    /\ At(t, "crit")

\* ... reads what it is going to change ...
Read(t) ==
    /\ thread[t].at = "crit"
    /\ thread' = [thread EXCEPT ![t] = [at |-> "have", snap |-> rec]]
    /\ UNCHANGED <<stages, started, rec, sink, mu, file, alive, exits, renewals>>

\* Faulty variant of Record: the record is flushed before the mutex is released.
RecordHolding(t, new) ==
    /\ thread[t].at = "have"
    /\ rec' = new
    /\ IF sink THEN At(t, "flush") /\ UNCHANGED mu ELSE At(t, "idle") /\ mu' = Free

\* ... writes it changed and releases the mutex. Without a sink, flush returns
\* at once.
Record(t, new) ==
    /\ thread[t].at = "have"
    /\ rec' = new
    /\ mu' = Free
    /\ At(t, IF sink THEN "flush" ELSE "idle")

\* flush: Snapshot takes the mutex again ...
SnapshotLock(t) ==
    /\ thread[t].at = "flush"
    /\ mu = Free
    /\ mu' = t
    /\ At(t, "snap")
    /\ UNCHANGED <<stages, started, rec, sink, file, alive, exits, renewals>>

\* ... and copies the record.
Snapshot(t) ==
    /\ thread[t].at = "snap"
    /\ mu' = Free
    /\ thread' = [thread EXCEPT ![t] = [at |-> "sink", snap |-> rec]]
    /\ UNCHANGED <<stages, started, rec, sink, file, alive, exits, renewals>>

\* os.WriteFile opens the file, truncating it ...
Truncate(t) ==
    /\ thread[t].at = "sink"
    /\ file' = [file EXCEPT !.is = "empty"]
    /\ At(t, "write")
    /\ UNCHANGED <<stages, started, rec, sink, mu, alive, exits, renewals>>

\* ... and writes from the start of it. If another goroutine has filled it in
\* between with something longer, the end of that stays.
WriteFile(t) ==
    /\ thread[t].at = "write"
    /\ \/ file' = [is |-> "whole", holds |-> thread[t].snap]
       \/ file.is # "empty" /\ file' = [file EXCEPT !.is = "torn"]
    /\ At(t, "idle")
    /\ UNCHANGED <<stages, started, rec, sink, mu, alive, exits, renewals>>

-----------------------------------------------------------------------------
(* boot's goroutine.                                                       *)

NextStage == stages' = Tail(stages)
Doing(op) == stages # << >> /\ Head(stages).op = op

BootLock ==
    /\ Doing("step") \/ Doing("hostname") \/ Doing("child") \/ Doing("switched")
    /\ thread["boot"].at = "idle"
    /\ Lock("boot")
    /\ UNCHANGED <<stages, started, rec, sink, file, alive, exits, renewals>>

BootStep ==
    /\ Doing("step")
    /\ Record("boot", [rec EXCEPT !.steps = Append(thread["boot"].snap.steps, Head(stages).arg)])
    /\ NextStage
    /\ UNCHANGED <<started, sink, file, alive, exits, renewals>>

BootSetSwitchedRoot ==
    /\ Doing("switched")
    /\ Record("boot", [rec EXCEPT !.switched = Head(stages).arg = "yes"])
    /\ NextStage
    /\ UNCHANGED <<started, sink, file, alive, exits, renewals>>

BootSetHostname ==
    /\ Doing("hostname")
    /\ Record("boot", [rec EXCEPT !.named = TRUE])
    /\ NextStage
    /\ UNCHANGED <<started, sink, file, alive, exits, renewals>>

BootSetChild ==
    /\ Doing("child")
    /\ Record("boot", [rec EXCEPT !.running = TRUE])
    /\ NextStage
    /\ UNCHANGED <<started, sink, file, alive, exits, renewals>>

\* recordTo hands what was recorded so far to a recorder that has a file, or
\* goes on without one if the directory cannot be made.
BootRecordTo ==
    /\ Doing("recordTo")
    /\ thread["boot"].at = "idle"
    /\ NextStage
    /\ \/ sink' = TRUE /\ At("boot", "flush")
       \/ UNCHANGED <<sink, thread>>
    /\ UNCHANGED <<started, rec, mu, file, alive, exits, renewals>>

BootGo ==
    /\ Doing("go")
    /\ thread["boot"].at = "idle"
    /\ NextStage
    /\ started' = started \cup {Head(stages).arg}
    /\ UNCHANGED <<rec, sink, mu, thread, file, alive, exits, renewals>>

\* Faulty variant of BootExec: /run is moved along, with the old record in it.
BootExecKeepsRun ==
    /\ Doing("exec")
    /\ thread["boot"].at = "idle"
    /\ NextStage
    /\ rec' = EmptyRecord
    /\ sink' = FALSE
    /\ UNCHANGED <<started, mu, thread, file, alive, exits, renewals>>

\* execve: the next k0smos starts with a new record and a /run of its own.
BootExec ==
    /\ Doing("exec")
    /\ thread["boot"].at = "idle"
    /\ NextStage
    /\ rec' = EmptyRecord
    /\ sink' = FALSE
    /\ file' = NoFile
    /\ UNCHANGED <<started, mu, thread, alive, exits, renewals>>

-----------------------------------------------------------------------------
(* The renewal goroutines and the supervisor.                              *)

\* A renewed lease was applied; apply goes on to record it.
LeaseApplied(n) ==
    /\ n \in started
    /\ renewals[n] < MaxRenewals
    /\ thread[n].at = "idle"
    /\ renewals' = [renewals EXCEPT ![n] = @ + 1]
    /\ At(n, "want")
    /\ UNCHANGED <<stages, started, rec, sink, mu, file, alive, exits>>

RenewLock(n) ==
    /\ thread[n].at = "want"
    /\ Lock(n)
    /\ UNCHANGED <<stages, started, rec, sink, file, alive, exits, renewals>>

Renewed(n) ==
    /\ Record(n, [rec EXCEPT !.steps = Append(thread[n].snap.steps, "network")])
    /\ UNCHANGED <<stages, started, sink, file, alive, exits, renewals>>

\* supervise.Run starts the workload; nothing is recorded.
ChildStart ==
    /\ "sup" \in started
    /\ thread["sup"].at = "idle"
    /\ ~alive
    /\ exits < MaxExits
    /\ alive' = TRUE
    /\ UNCHANGED <<stages, started, rec, sink, mu, thread, file, exits, renewals>>

ChildExit ==
    /\ alive
    /\ alive' = FALSE
    /\ exits' = exits + 1
    /\ At("sup", "want")
    /\ UNCHANGED <<stages, started, rec, sink, mu, file, renewals>>

\* OnExit, called before the next start.
ExitLock ==
    /\ thread["sup"].at = "want"
    /\ Lock("sup")
    /\ UNCHANGED <<stages, started, rec, sink, file, alive, exits, renewals>>

ChildExited ==
    /\ Record("sup", [rec EXCEPT !.running = FALSE,
                                 !.restarts = thread["sup"].snap.restarts + 1])
    /\ UNCHANGED <<stages, started, sink, file, alive, exits, renewals>>

-----------------------------------------------------------------------------
Flush(t) == SnapshotLock(t) \/ Snapshot(t) \/ Truncate(t) \/ WriteFile(t)

Boot ==
    \/ Read("boot") \/ Flush("boot")
    \/ BootLock \/ BootStep \/ BootSetSwitchedRoot \/ BootSetHostname \/ BootSetChild
    \/ BootRecordTo \/ BootGo \/ BootExec

Renewer(n) == Read(n) \/ Flush(n) \/ RenewLock(n) \/ Renewed(n)

Supervisor == Read("sup") \/ Flush("sup") \/ ExitLock \/ ChildExited

RecordNext ==
    \/ Boot
    \/ \E n \in Renewers : LeaseApplied(n) \/ Renewer(n)
    \/ ChildStart \/ ChildExit \/ Supervisor

(***************************************************************************)
(* Fairness: a goroutine that can go on does; sync.Mutex hands a contended *)
(* lock to its oldest waiter (starvation mode), so a goroutine is not kept *)
(* out of it for ever. No lease has to be renewed and no workload to exit. *)
(***************************************************************************)
RecordFairness ==
    /\ SF_recordVars(Boot)
    /\ SF_recordVars(Supervisor)
    /\ \A n \in Renewers : SF_recordVars(Renewer(n))

RecordSpec == RecordInit /\ [][RecordNext]_recordVars /\ RecordFairness

-----------------------------------------------------------------------------
(* Properties.                                                             *)

Count(name) == Cardinality({i \in DOMAIN rec.steps : rec.steps[i] = name})

\* The leases applied: the first one of every interface, 0, and its renewals.
Leases == {l \in Renewers \X (0 .. MaxRenewals) : l[2] <= renewals[l[1]]}

\* A goroutine has a change to record that is not in the record yet.
Telling(t) == thread[t].at \in {"want", "crit", "have"}
Unrecorded == {n \in Renewers : Telling(n)}

\* No goroutine's change is lost to another's, although each reads the record in
\* one step and writes it in another: once boot has configured the network, the
\* record has a step for every lease applied, and it counts every exit, but for
\* those just being recorded. (And every state is well typed.)
NothingLost ==
    /\ RecordTypeOK
    /\ "sup" \in started =>
          Count("network") + Cardinality(Unrecorded) = Cardinality(Leases)
    /\ rec.restarts = exits - (IF Telling("sup") THEN 1 ELSE 0)

\* What boot.json shows, when it shows a record at all, is a record the node
\* really had: its steps are the first ones of the present record.
FileIsPast ==
    file.is = "whole" =>
        /\ IsPrefix(file.holds.steps, rec.steps)
        /\ file.holds.restarts <= rec.restarts

\* Recording never holds a goroutine up: flush takes the same mutex again, and
\* a goroutine that entered the recorder always leaves it.
RecorderReturns ==
    \A t \in Threads : thread[t].at # "idle" ~> thread[t].at = "idle"
=============================================================================
