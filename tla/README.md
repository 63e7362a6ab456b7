# k0smos in TLA+

k0smos is a Linux init (PID 1) that does nothing but run a k0s node, and
`k0smosctl`, which runs such nodes under QEMU on a host. These modules model the
parts of both in which the order of events matters: several goroutines, a kernel
that reaps and kills, disks that come and go, packets that are lost, and a
machine that may stop at any moment. Every module is translated from the Go
source; `PROJECT.json` names, for each definition, the lines it stands for.

## The system and its parts

The node (`cmd/k0smos`, `internal/`):

| part | state | operations | what is hard |
|---|---|---|---|
| boot sequence (`init_linux.go: boot`, `mount`, `switchroot`, `cgroup`) | mounts, the root, what is written where | mounts, modules, switch_root (execve), overlays, data volume, cgroups, metadata, network, hostname, then the goroutines below | one stage of many failing; the second start; mounts that hide what was written |
| reaping (`reaper`, `main.go: pump`, `sys.Reap`) | a one-slot signal channel, a one-slot trigger, the kernel's children | SIGCHLD, forward, drain with `wait4(-1)` | coalescing wakeups; the race with `cmd.Wait` |
| supervisor (`supervise.Run`) | the child, the backoff | start, wait, sleep, start again | cancellation between any two steps |
| wait loop and shutdown (`boot`, `leaveEtcd`, `shutdown.Do`) | runCtx, the channels of signals, host commands and button presses | leave etcd, cancel, wait, TERM, KILL, unmount, remount, reboot | order across goroutines; hanging children |
| control port (`control`, `answerRequest`, `createJoinToken`) | the virtio-serial port, one reader goroutine | serve a request, acknowledge and pass on a power command, reopen at EOF | one unframed stream shared by host processes |
| boot record (`status`) | the record, its mutex, `boot.json` | record a step, an exit, a renewal; flush | snapshots written outside the mutex; execve |
| data volume (`datavol`, `blkid`) | disks and what they hold | select, identify, mkfs, mount | irreversible step on a device found by probing; crashes |
| DHCP client (`dhcp`, `net`) | lease, interface, exchange id | acquire, apply, renew, rebind, re-acquire | lost, late and duplicated answers of several servers |
| kernel modules (`module`) | what is loaded | resolve and load dependencies, rescan devices | cycles, aliases, bounded rounds |
| metadata (`metadata`) | files written, the plan | find the drive, read its documents, plan, run the actions | two documents, either of which may be unusable |
| configuration (`config`) | the command line's settings | parse, list the NICs, let the drive override | the last of several values, empty values |
| ISO 9660, syscalls | none of their own | parsing and thin wrappers | formats, not behaviour |

The host (`cmd/k0smosctl`):

| part | state | operations | what is hard |
|---|---|---|---|
| network hub (`nethub`, `__hub`) | ports, a lock for each | accept, read, flood, close | goroutines writing to each other's sockets; Close while guests connect |
| machines and clusters (`machine_*`, `cluster_*`, `state.go`) | state files, PIDs, sockets | up, rm, create, token, kubeconfig | interruption between starting a process and recording it |
| artifact cache (`artifact.go`) | files under the cache directory | resolve, download, verify, rename | concurrent and interrupted resolvers |
| control client (`control.go`) | one connection | request with a deadline | a deadline racing the answer |
| other commands | none | flags, text, logs | nothing concurrent |

How they meet: the kernel's SIGCHLD drives the reaper, which shares children with
the supervisor, `leaveEtcd` and `createJoinToken`. The supervisor, the DHCP
renewals and boot all write the boot record. The control port, signals and the
power button feed one wait loop, whose end cancels runCtx for everybody. The hub
carries the traffic of several nodes; `k0smosctl` reaches each through its
control port.

What makes them correct: no zombie and no workload is ever lost; the node leaves
etcd, stops the workload, kills every process and only then lets go of
filesystems, and does all this whenever it is asked and never otherwise; an
answer belongs to its question; the record is what happened; nothing that is on a
disk is destroyed; the address in use is one that was granted; frames arrive
whole; every module is tried, after what it needs; the workload is the one its
drive describes; what `cluster create` leaves can be removed and what it starts
is new; a cached image that was handed out stays what it was.

## Modules

| module | models |
|---|---|
| `Reaper` | SIGCHLD from the kernel through `signal.Notify`'s channel, `pump` and its trigger to `reaper.Run`, against `cmd.Wait` |
| `Pid1` | from the start of supervision to reboot(2): supervisor, wait loop, control-port goroutine, signals, button, `leaveEtcd`, `shutdown.Do` |
| `NodeLifecycle` | the abstract promise: phases in order, the workload killed for good before filesystems go, deeper mounts first, a stop that was asked for happens |
| `ControlPort` | `k0smosctl`'s request, QEMU's relay, the guest's port, `WatchReopen`, `readOnce`, `watchEvents`, the acknowledgement and the hand-over |
| `BootRecord` | `status.Recorder`, its writers, the file and the execve of switch_root |
| `DataVolume` | `datavol.Prepare` and `internal/blkid` over several boots |
| `DhcpClient` | `Client.Acquire`, `Renew`, `rebind`, `net.Configure`, servers and network |
| `NetHub` | `internal/nethub` |
| `ModuleLoader` | `internal/module`: `LoadAll`, the resolver, the device rounds, beside a kernel that shows devices late |
| `Config` | `internal/config`: the command line, the NICs it asks for, what the drive overrides (operators only) |
| `Metadata` | `internal/metadata`: which documents count, user-data, the plan made of `runcmd` (operators only) |
| `Boot` | `boot` and `pivot` from the start of PID 1 to the supervised workload, both starts around switch_root; composes `ModuleLoader`, `Config` and `Metadata` |
| `BootChain` | the abstract promise of a boot: the initramfs left once, nothing mounted over a file, the drive heard after the last mount and before the network, an end unless boot waits for ever where it may |
| `LocalCluster` | `k0smosctl cluster create`, `cluster rm`, `machine up`, `machine rm`, their state directories, QEMU and the hub's process |
| `ArtifactCache` | `artifact.go`: several processes resolving releases into one cache |
| `Pid1_proofs`, `DataVolume_proofs`, `ArtifactCache_proofs`, `LocalCluster_proofs`, `NetHub_proofs`, `Boot_proofs` | theorems about the module named, and in `Boot_proofs` also about `ModuleLoader` |
| `Goroutines_proofs` | theorems about `Reaper` and `ControlPort`, the goroutines of PID1 that `Pid1` takes in one step |
| `Lease_proofs` | theorems about `DhcpClient` and `BootRecord`: how leases are got, and how they are recorded |
| `MC*` | the constants TLC is given |

In each module the variables are named for the fields and locals they stand for,
`at`/`pc`/`main` say which statement a goroutine is about to execute, and an
action is the code between two points at which another goroutine, process or
machine could be noticed. Operators called "faulty variant" are not part of the
specifications: each is what one definition would be with a plausible mistake in
the code, and is there to show that a property would notice.

**Reaper.** `status` is the kernel's view of each process; `sigchld` in the
kernel, `chld`, `pump` and `trigger` are the four places in which a wakeup may
sit, each holding at most one. `CmdWait` and `Reap` compete for a zombie; the loser's
`ECHILD` is an action of its own.

**Pid1.** `main` is boot's goroutine, `sup` the supervisor, `ctl` the
control-port goroutine, `reaper` the reaper (here as a step that may collect any
zombie). A process that was sent SIGKILL is "dying" until it is dead: nobody waits
for that, and meanwhile it may finish a mount. `cmd.Start` looks at the context and
forks in two steps (`SupLook`, `SupFork`), with anything in between; the one timing
assumption is that they are less than termGrace (5 seconds) apart, a guard of
`KillAllKill`. `workload` ranges over the kinds `etcd.LeaveCmd` and `createJoinToken`
tell apart. Mount points are paths as sequences; `todo` is the list
`shutdown.Do` reads once. `asked` is a history of what was requested. A mount
table that cannot be read, or a reboot(2) that fails, makes `Do` return: the
model's "panic". Timers are steps that may come at any time after they are set.

**ControlPort.** The port is external and modelled from the comments and code
that deal with it: one client relayed at a time, lines handed over only while the
port is open, unread lines discarded on close, EOF without a client, writes that
block without one. Payloads are the line they answer, verb and argument. `Heard` is
the lower-casing of the whole line: an answer belongs to a line if it is the answer to
what the node heard of it, and what that does to a path is a question of its own
(`CatAsAsked`).

**BootRecord.** One record, a mutex, and per goroutine the place it has got to:
waiting for the mutex, holding it, with the record read and not yet written, about
to take the snapshot, with a snapshot in hand, with the file truncated. To take the
mutex, to read the record and to write it changed are three steps (`Lock`, `Read`,
`Record`), so that an update would be lost if the mutex did not prevent it. Boot's stages are a list in the order of the source;
`BootExec` replaces the process and keeps only what the next one reads back from
the file.

**DataVolume.** A disk's content is its filesystem, whether the label is ours,
whether it mounts, and whose data it holds. A machine may be given any number of
volumes that carry the label, from the start or later. Names are a numbering drawn
anew at each boot. `late` says whether this machine's drivers may still be probing when
`Prepare` looks; `Flaky` whether reads may fail.

**DhcpClient.** `replies` only grows, and any member may be received at any time
and any number of times: loss, delay, duplication and reordering. A
lease ages through T1, T2 and its end.

**NetHub.** One goroutine for each guest with the rest of the flood it is making,
a lock for each port, and the stream written to each guest. Taking a port's lock
and writing the header are one step: a goroutine that holds the lock before its
first write and one that still waits for it cannot be told apart by anyone.

**ModuleLoader and Boot.** The recursion of `resolver.load` is `stack`, a
sequence of calls with the dependencies each has left; `done`, `loaded` and
`errs` are the resolver's fields. `live` and `present` are the kernel's: a device
behind a driver appears after its `init_module`, whenever it likes. `pc` is the
stage of `boot`; a call that may fail is a disjunct of its stage, which panics or
goes on as the code does. `mnt` is what is visible of the pseudo-filesystems,
`top` the filesystem on top at each directory that boot writes to, `writes` what
was made, by whom and on which filesystem. `Ensure` says what mount.Ensure's loop
leaves visible: a target is hidden again exactly when one that covers it is mounted
after it. `SwitchRoot` keeps of PID 1 only what
survives execve: the modules, the disks and those mounts that were moved.
Seen through `stageBar`, everything up to the drive is one stage of BootChain, and
reading the drive, configuring the network and starting the workload are one step each.
BootChain leaves open which stages there are and when mounts are made; it fixes what
may come after what, and what must be true of the root, of what is on top and of the
files written when it does. `asked` and `stay` are what the command line says, read
from it at any time, so that Boot must carry it unchanged across switch_root.
`Waits` are the stages in which boot is in a call without a deadline: the data volume
(mkfs) and an interface on DHCP.

**Metadata and Config.** A document is its kind and, when it parses, its
fields; a word is a string, and what the code reads inside a word (a path's base,
an environment value, an octal mode) is given by constants. The loops of the code over
tokens, `runcmd` entries, commands and words are recursive functions with one operator
for a turn of the loop (`ParseToken`, `TakeCommand`, `PlanCommand`, `TranslateWord`).
`IdentityHonoured` does not repeat them: `Foreground` says of an install command what
its foreground command must be, word by word. Every word it passes on is an argument of
the install, and every argument is passed on; every value for the environment, whichever
way it is written, is in the environment. Only a word behind an `--env` is left open,
which is a value if that `--env` is not one itself.

**LocalCluster.** `cmd` is the command in progress and the machine of its loop,
`dir` the state directory of each machine with its disk, `guest.json` and socket,
`json` and `jsonHub` the cluster's file. `procs` maps a process number to what
runs under it: when a process ends its number may go to the next QEMU or to a
program of somebody else's. `by` remembers which command made a directory. Every
removal and every write of a file may fail: what is left of a directory is any part of
it, and a QEMU in it keeps running, without its disk (lost), or without its disk but
with a socket on which it answers ("cut"). `cleanupUnstartedCluster` goes on to the
cluster's file all the same; a machine's directory it could not remove is marked
"left". To ask whether the socket answers and to remove it are two steps, and a QEMU
started before may bind it in between. The user may interrupt every command between
any two of its steps.

**ArtifactCache.** A file is absent, bad or good. A download goes to a temporary
file and is renamed, so it is two steps. `spoilt` remembers which files a bad
body was ever written to, `clean` whether an attempt met a fault or another
resolver. Nothing is locked: every step of every resolver may come between.

## Runs

All runs are small enough for a laptop (two workers, at most two minutes each).

| run | distinct states | shows |
|---|---|---|
| `reaper` | 4,218 | `NoLostWakeup`, `WaitedFor`; `ZombiesReaped` under fairness |
| `pid1` | 230,760 | `KilledBeforeFs`, `LeaveFirst`, `PowerAsAsked`; under fairness `StopsWhenAsked`, `Restarted`, and `LifeSpec`: Pid1 implements NodeLifecycle with its progress condition |
| `control_port` | 360,141 | `ReplyMatches`, `AckObeyed`, `PortRecovers` |
| `boot_record` | 93,303 | `NothingLost`, `FileIsPast`, `RecorderReturns` |
| `data_volume` | 427,214 | `RecognisedKept`, `VolumeFoundAgain` |
| `dhcp` | 369,924 | `UsesWhatItAsked`, `AddressGranted`, `BootGoesOn` |
| `net_hub` | 84,632 | `WholeFrames`, `NothingDropped`, `NothingLeft`, `CloseReturns` |
| `boot` | 58,347 | `EachOnce`, `FailsForAReason`, `EverythingTried` of ModuleLoader; `PseudoVisible`, `NothingHidden`, `IdentityHonoured`; under fairness `ChainSpec`: Boot implements BootChain with its progress condition |
| `local_cluster` | 398,604 | `NoOrphanMachines`, `FreshDisks`, `RecordedKept`, `CommandEnds` |
| `artifact_cache` | 578,498 | `ReturnedGood`, `LatestBacked`, `CacheHeals` |

Every module has a type invariant `TypeOK`, with the numeric limits of the code
in it (attempts, rounds, buffers, the backoff). Where no proof shows it, it is a
conjunct of the module's first safety invariant, so that the runs check it too.

Some of the properties say less than their names, and each says so where it is defined.
`KilledBeforeFs` speaks of signals sent, not of processes dead. `ReplyMatches` holds
until somebody gives up on the node's work. `VolumeFoundAgain` promises that no volume
is formatted while another is attached, and that the right one is mounted if it is the
only one. `EverythingTried` is about the devices of the last scan; one that appears
later is not looked at again. `NoOrphanMachines` leaves out a directory that create's
own clean-up failed to remove. `CommandEnds` observes the wait for QEMU's socket; the
other waits are part of the steps they end. `ReturnedGood` and `LatestBacked` leave
out releases of which a bad file was ever written.

Two runs end in a violation, and are findings: a comment says one thing and the
code does another.

* `dhcp_renew_route`. Applying a renewed lease adds the default route again,
  gets `EEXIST`, and `Renew` gives up a lease that was just extended.
* `data_volume_unreadable`. A read error while probing is the same answer as a
  blank disk, and blank means mkfs.

Three more comments are stated as predicates of the modules and are false of the
models, as they are of the code. No run is spent on them; as an INVARIANT in the
configuration named, each gives a short counterexample.

* `QuietFs` (`MCPid1`). "Everything must be gone before the filesystems are touched",
  but `shutdown.Do` does not wait for what it has sent SIGKILL: a process may still be
  dying when the mounts are listed and let go, and a `k0s token create` may even be
  started after the last signal.
* `CatAsAsked` (`MCControlPort`). "RequestCat asks for a file from the node", but the
  whole line is lower-cased before it is understood, the path with it: a path with a
  capital in it is looked for, and answered, in lower case.
* `AmbiguityRefused` (`MCDataVolume`). "Ambiguity is refused rather than guessed at",
  which is so of two blank disks; of two volumes with our label the first by name is
  mounted, whichever holds the cluster.

Met while modelling besides, most of it visible in the modules.

On the node: the design (`docs/superpowers/specs/2026-07-28-k0smos-pid1-init-design.md:134`) has the child stopped with SIGTERM and a
timeout, but `supervise.Run` uses `exec.CommandContext` without a `Cancel`
function, so the first signal k0s gets is SIGKILL; `Child.Running` is set once in
a boot and cleared at every exit, so that after the first restart the record says
for good that the workload is not running; the metadata drive is looked for once,
without waiting for a slow driver as the root is; `k0s token create` runs under a
context of its own and may be alive while
filesystems are detached; `shutdown.Do` returns, and PID 1 with it, if the mount
table cannot be read; a client that gives up leaves an answer for the next one
(`ReplyMatches` holds until `gaveUp`); `boot.json` may be left with the older of two snapshots, and is
empty for a moment at each write; an explicit device that is still being probed
may be formatted (`Overtaken`); a disk with a filesystem the probers do not know
counts as blank; DHCP's timeout starts anew with each foreign packet (the second
disjunct of `BootGoesOn`), and rebinding does not wait for T2; a lease without a
lease time makes the renewal loop run without a pause; of two NICs with DHCP the
second cannot add its default route, so its lease is not renewed.

On the host: `machine up` that waits in vain for the socket leaves QEMU running
without `guest.json`, and `machine rm`, or create's clean-up, then removes the
disk under it; when the clean-up cannot remove the directory, for instance because that
QEMU binds its socket meanwhile, it removes `cluster.json` all the same, and the
directory stays, unknown to `cluster rm`, until `machine rm` (`by = "left"`); `machine up --socket` elsewhere followed by `machine rm` does the
same, because only the default socket is asked (this one is outside the model,
which has the default socket only); a `guest.json` that cannot be written is a
warning, and `cluster rm` does not know of that machine's process; a
`cluster.json` cut short between its creation and its content can be neither
created over nor removed by the tool; a disk whose copy was cut short is used by
the next `machine up`; the hub is stopped by its number alone. A slow resolver
may move `latest` back, and two resolvers that replace the same bad checksum may
make each other fail, without harm to the cache.

### Bounds, and why they are enough

* `reaper`: one waited-for child and two orphans: one zombie can be drained while
  another appears and a third is being waited for. Every channel holds one item,
  so a fourth process would find the same channels full.
* `pid1`: one descendant, a mount below another, one control line (a token or a
  power command) beside the signals and the power button, a workload that leaves
  etcd and one that does not, a backoff that is at its cap from the start: nothing but
  `TypeCorrect`, which is proved for every backoff, is about its length. Each
  source of a stop can come before, after or while another is served; a second
  control line would only meet the channel that the first one met.
* `control_port`: two clients with two requests each: one can give up and ask
  again while the other's answer is on its way. Three lines: slow request,
  request with an argument that has a capital, power command.
* `boot_record`: two interfaces with a renewal each, and an exit: boot, both renewals
  and the supervisor in the recorder at once, boot and the renewals more than once.
* `data_volume`: two disks and a pseudo-device, each blank, a volume with our label or
  a known filesystem of another kind, two boots: what one boot formatted, or left
  half-made, is found by the next, with disks added and names permuted. What a third
  boot finds, a boot can also be given.
* `dhcp`: two servers with an address each, two attempts, four exchanges: a whole
  acquisition, its renewal, its rebind and a new acquisition with the answers of
  all earlier ones still arriving.
* `net_hub`: three guests, the least for two writers of one port, sockets that
  take one write, so every frame blocks in its middle, two frames and one guest
  that leaves or misbehaves. Guests are numbered in the order they are accepted.

* `boot`: a device behind another's driver and disks behind two drivers, three
  module trees (good, with a module that fails, with a cycle), two device rounds,
  command lines for a root that switches, a named one and none, one NIC and two
  with a malformed third, five drives (good, either document bad, unreadable with
  a fallback, not a cloud-config), root images embedded or not. A cycle of two
  modules and a chain of two devices have every case that longer ones have.
* `local_cluster`: a controller and a worker, three commands, three process
  numbers: a hub and both machines, or a machine that is lost, its number given
  out again, and the one that follows. Three commands are what it takes for one
  to be cut short, one to meet what it left, and one to remove it.
* `artifact_cache`: two resolvers, three runs, two releases: two at work on the
  same release and a third that finds what they left, with a release published in
  between.

`CHECK_DEADLOCK FALSE` stands where the modelled world may simply fall silent:
clients have asked all they may, the machine has booted as often as the bound
allows, the hub has closed, the user has run the commands the bound allows.
`reaper`, `pid1` and `boot` check deadlock; in `Pid1` a machine that is off, and
in `Boot` one that runs or has given up, stutters explicitly.

### Fairness

Weak fairness for each goroutine: the Go scheduler runs what can run, and timers
fire. Strong fairness where a goroutine competes for a lock, for each goroutine by
itself: `sync.Mutex` gives itself to a waiter that starves, for the recorder's mutex
and for `port.mu`. `Reap` is fair for each process, because `wait4(-1)` takes the
longest waiting child first. A process that was sent SIGKILL dies (`Exit` of a "dying"
one is fair in `Pid1`): the kernel sees to that, and boot's wait for a killed
`k0s etcd leave` rests on it. Nothing else is assumed of what is not k0smos: no process
exits by itself, no server answers, no client asks, no guest reads, no device appears,
no QEMU comes up, the reaper need not win a race. QEMU is assumed to relay (`Deliver`,
`Accept`) and a client's deadline to pass.

`boot` is one goroutine with weak fairness for its next step, except in `Waits`: mkfs
has no deadline, and DHCP's receive timeout starts anew with each foreign packet
(`client.go:145-157`), so that boot may wait there for ever. `ChainSpec` says that it
ends or does that; `BootGoesOn` in `DhcpClient` says when DHCP does. In `LocalCluster` a
command is one process with weak fairness: its waits for machines, hubs, tokens and
nodes have deadlines, each a disjunct of the waiting action, and the programs it starts
and the files it reads are assumed to answer.

## Theorems

Checked by TLAPS, for every value of the constants that satisfies the modules'
assumptions.

* `Goroutines_proofs`, the reaper: `WakeupsKept`, `WaitLeavesNothing`. The invariant is the
  conjunction of the type invariant and the two properties. `NoLostWakeup` is
  inductive as it stands because it names every place a wakeup may be; the drain
  that ends keeps it because the drain ends only without a zombie.
* `Goroutines_proofs`, the control port: `AnswersOwnRequest`. Nothing on the port
  says whose request a reply answers; what makes it the right one is that until a
  client gives up there is at most one line on its way through the node, or the
  reply to it on its way back, and it belongs to the client that QEMU relays
  (`OneAtATime`): the reply is to the line as the node heard it, argument included. `Relayed` says that this client is waiting, and `Kinds` that
  power commands, and they only, are answered with an acknowledgement.
* `Pid1_proofs`: `TypeCorrect`, `KilledFirst`, `LeavesBeforeStopping`,
  `EndsAsAsked`, `NoSpontaneousStop`, `ImplementsLifecycle`. The properties are not
  inductive alone. `KilledFirst` needs that no fork is under way once everything was
  killed (`NoForkPending`) and that none begins: the context is cancelled exactly from
  stopChild on (`CtxFollowsMain`), so that a supervisor that comes out of its sleep
  afterwards does not pass `cmd.Start`'s look at it, and what passed it before has forked
  before SIGKILL. The invariant adds `ChannelsHoldAsked` (what is in a channel or in
  the control goroutine's hands was asked for) and `ListDone` (`Do` gets to the remount
  only with its list worked off). The step lemma is split by what a step touches:
  processes (`ProcStep`), the channels (`FeedStep`) and boot's own goroutine
  (`MainStep`). `ImplementsLifecycle` shows that every step is one of NodeLifecycle's
  or a stutter under the mapping of `phaseBar`, `Busy` and `todo`, from the same
  invariant.
* `DataVolume_proofs`: `AutoChoosesBlank`, `FormatsOnlyBlank`, `ClusterComesBack`,
  on machines whose
  devices can be read (`Readable`; `data_volume_unreadable` shows that it is
  needed). The invariant says that the device looked at is there when it is
  looked at (`SeenInTime`), that what was found out still holds when mkfs starts
  (`LookedAt`), and what "auto" may have chosen (`Choice`). `ClusterComesBack` is
  about several boots and any volumes the machine is given, and needs an invariant of
  its own, `VolumeUsed`: under auto, with devices found in time, the cluster's data is
  on a volume, and `Prepare` is about to use a volume or has looked at every disk and
  seen that there is none. Which of several volumes it uses is not promised.
* `ArtifactCache_proofs`: `TypeCorrect`, `ReturnedStaysGood`, `LatestServed`,
  `Healing`. The invariant adds what each resolver knows of its release's files
  at each point (`Knows`) and that a bad checksum file is known to be bad
  (`BadKnown`). A step by one resolver keeps what the others know because a file
  that was never spoilt only changes to good (`Grows`). `Healing` has an
  invariant of its own, `Calm`: a resolver whose attempt is still clean is alone,
  and what it has put in place so far is whole.
* `Lease_proofs`, the DHCP client: `AlwaysGranted`, `AlwaysUsesWhatItAsked`. `UsesWhatItAsked`
  is a property of one step, and needs to know that the lease about to be applied
  is the one asked for last (`AppliesAsked`). That holds because an ACK answers a
  request (`Acks`), requests of this exchange are for the address asked
  (`Requests`), and all others carry an older number. `AddressGranted` adds that
  what is held was granted (`HeldGranted`); that no server, other client or passing
  of time undoes a grant before its lease has run out is the lemma `GrantedStays`.
* `Lease_proofs`, the boot record: `EverythingRecorded`, `FileShowsThePast`. A goroutine
  reads the record in one step and writes it in a later one; that nobody wrote in
  between is the mutex's doing (`Excluded`: only its holder is between the two, and what
  it has read is still so). The record's steps are counted against the stages boot has
  left: a lease is in the record or a goroutine has still to record it (`LeasesKept`),
  and each renewal adds one to both sides; exits likewise (`ExitsKept`). This survives
  switch_root because the stages are in order (`Order`): no goroutine is started and no
  lease recorded before the pivot, so nothing is counted in the record that execve
  drops. `WholeBootIs` shows it of the list of stages, for any interfaces. A copy taken
  by `Snapshot` is a prefix of the record for ever after (`CopiesArePast`), whoever else
  records meanwhile; hence what is written from it shows the past. `Recording` says that
  what has not been started records nothing.
* `LocalCluster_proofs`: `AlwaysRemovable`, `AlwaysFreshDisks`,
  `AlwaysRecordedKept`. The invariant follows the commands through their steps
  (`Steps`): what create has made so far and what it has not (`Creating`), which
  machines `cluster rm` is done with (`Removing`), on which disk a machine is
  worked on (`Working`), and who has a `guest.json`, naming a QEMU that runs or
  not (`Records`). Every command may end anywhere, so what must hold of the
  directories between commands (`Known`) holds at each step. Removals and writes may
  fail everywhere; the exception that `AlwaysRemovable` makes, a directory that
  `cleanupUnstartedCluster` could not remove, is the one the code makes.
* `NetHub_proofs`: `AlwaysWholeFrames`, `AlwaysNothingDropped`,
  `AlwaysNothingLeft`. A stream ends with a frame or with the header of the
  goroutine that holds the port's lock (`Locks`, `Streams`): hence whole frames. A
  flood has each port left once and passes over each one's lock (`Floods`,
  `Once`), so that what a port was sent of a guest is every frame from the first
  it got up to the last that guest's flood has passed it with (`InOrder`): hence
  nothing dropped. `Ports` says which connections are ports at each point of the
  accept goroutine, and `Closes` what Close has left behind.
* `Boot_proofs`: `AlwaysEachOnce`, `AlwaysFailsForAReason`, `AlwaysEverythingTried`,
  `AlwaysPseudoVisible`, `AlwaysNothingHidden`, `AlwaysIdentityHonoured`,
  `ImplementsBootChain`. The loader's part of the invariant describes the stack of
  calls: `resolver.done` is what was tried and what is on the stack, one or the
  other and once (`CalledOnce`); each call is for a module the one below needs
  (`Chained`); what a call needs has been called for or is still in its list
  (`Coming`); what was tried and did not fail is in the kernel (`Lives`). When a
  module is refused for one it needs, that one was tried and failed, or is below on
  the stack, and then the stack from there on is a cycle (`InProgress`). A second
  invariant (`Pursued`) says that what `load` has been called for is asked for, or
  needed by what is, and that what is asked for or needed has been called for or is
  among the names its loop has left; with an empty stack and no name left, that is
  `EverythingTried`. It needs that `MatchDevices` lists each driver of the devices
  and nothing else (`MatchedAll`: the order drivers are first seen in is total, so
  that their ranks are the positions of the list), and that `Closure` is the least
  set closed under dependencies (`ClosureLeast`).
  The boot's part is that nothing is visible below what is not (`Nested`: it makes
  `Ensure` complete, and switch_root keeps it because `/dev` moves with what is
  below), and that nothing is written before the last mount (`NoWrites`).
  `IdentityHonoured` has an invariant of its own, `Told`: until the drive is read the
  configuration is the command line's, in the second start as in the first, and nothing
  is written for a drive; from then to the plan, boot holds what `Load` makes of that
  drive (`Heard`). The rest is about what the recursions compute. `ParseSteps`,
  `CommandSteps`, `PlanSteps` and `TranslateSteps` show that each recursive function
  exists and takes one step at each place, and `Reached` carries a fact along these
  steps, as a set of places. With them, the last install of the document is the last
  among its commands (`CommandsAre`), it is translated to its foreground command
  whatever flags it carries (`TranslateIs`, with `Midway` for the words read so far), and
  it is the workload of the plan (`PlanIs`).
  `ImplementsBootChain` shows that each step of boot, or of the kernel beside it, is a
  step of BootChain or a stutter. It needs `Told`, and of the stages (`Ordered`) that
  boot has switched root exactly when it is not on the initramfs, goes on there only if
  told to, and finds every directory bare that it mounts over.

`NoSpontaneousStop` (of `ListenersOpen`: the wait loop ends only when asked),
`AutoChoosesBlank` (of `AutoChoice`) and the two `TypeCorrect` are proved and not
repeated as runs.

The assumptions are the `ASSUME`s of the modules: children and orphans are
different processes, disks are finitely many, mount points are sequences of
names, boot's mounts are among them, the first backoff does not exceed the last,
there is at least one release. A cluster's machines have different names, none of
which is a word the model uses for another process (`planCluster` makes them).
The interfaces of a boot are a list without repetition, and none has the name of
another goroutine or of the mutex's free state; `k0smosctl` has some line to send, and `strings.ToLower` is known
for what its lines may hold. The
index files of a module tree are finite lists of names, those of devices and of the
named set are lists, and a file lies in a
directory that boot may mount over or in none. The fields of a document that parses and
the tokens of a command line have their types, and no word is at once an environment
flag and a flag with a value (`EnvWords`).

Only model-checked: everything about liveness and fairness, the progress
conditions of NodeLifecycle and BootChain included (`ZombiesReaped`, `StopsWhenAsked`, `Restarted`,
`AckObeyed`, `PortRecovers`, `RecorderReturns`, `BootGoesOn`, `CloseReturns`,
`CommandEnds`). The provers have no facts about `SelectSeq`, so nothing is
proved of which files and interfaces a list keeps; no theorem needs it.

## Not modelled

* Byte formats: ISO 9660, superblocks, DHCP options, YAML, module index files,
  the words of the command line. They have no state, and their parsing has unit
  tests. What the models need of them is in constants or in kinds of documents.
* `machine up --attach` and `--interactive` (one foreground QEMU that leaves
  nothing behind but its directory), direct kernel boot, `--socket`.
* Listing, logs, `debug`, `kubeconfig`, `gen` and completion: they change no state
  another part reads.
* The content of a cluster's config drives, and the waiting for its nodes beyond
  the fact that it ends.
* Text: logs, help, tables, the wording of errors.
* `image/`, `e2e/`, build scripts and documents.

## Plan

1. Proofs: refinements of smaller promises (the recorder as one atomic record).
2. Two NICs in `DhcpClient`, with the routes they share.
3. `machine up` in the foreground in `LocalCluster`.
