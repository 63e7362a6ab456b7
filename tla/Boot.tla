-------------------------------- MODULE Boot --------------------------------
(***************************************************************************)
(* The boot of a node: boot and pivot of cmd/k0smos/init_linux.go from the *)
(* start of PID1 to the supervised workload, with internal/mount,          *)
(* internal/switchroot, internal/cgroup and the loop over the NICs, on top *)
(* of ModuleLoader, Config and Metadata. A node that switches root starts  *)
(* twice: the second start, marked --switched-root, goes through the same  *)
(* stages again. Beside it runs the kernel, in which a block device appears*)
(* some time after its driver was loaded.                                  *)
(*                                                                         *)
(* What a call into the kernel returns is a choice. Preparing the data     *)
(* volume and acquiring a lease are outcomes here; DataVolume and          *)
(* DhcpClient model them.                                                  *)
(***************************************************************************)
EXTENDS ModuleLoader, Config, Metadata

CONSTANTS
    Cmdlines,      \* kernel command lines
    BlockDevs,     \* block devices, each with a label and a driver
    LabelOf,       \* LabelOf[b]
    DriverOf,      \* DriverOf[b]: the module that makes b appear
    Drives,        \* the contents a metadata drive may have
    DirOf,         \* DirOf[path]: the directory of MountDirs it is under, if not "/"
    LeaseDNS,      \* the resolvers a lease may carry, "" for none
    RootProbeAttempts

VARIABLES
    pc,        \* the stage of boot, "run" once the workload is supervised,
               \* "panic" once boot returned an error and PID1 exits
    switched,  \* this is the start after switch_root
    cmdline, embedded, builtin,   \* the machine: its command line, a root image
               \* inside the initramfs, block drivers built into the kernel
    cfg,       \* boot's cfg
    mnt,       \* mnt[t]: the pseudo-filesystem t is visible at its target
    root,      \* the filesystem at "/": "initramfs", "rw" or "ro"
    top,       \* top[d]: the filesystem on top at directory d
    disks,     \* block devices in sysfs
    attempts,  \* ResolveWait's attempts so far
    newRoot,   \* how the new root was mounted, "" before
    ud, host,  \* loadMetadata's results: user-data and hostname
    drive,     \* the drive that was read, or NoDrive
    nics,      \* the NICs the loop has left
    dns,       \* boot's dns
    writes,    \* files and directories made: [dir, on, by]
    hostname, workload, env

vars == <<loaderVars, pc, switched, cmdline, embedded, builtin, cfg, mnt, root,
          top, disks, attempts, newRoot, ud, host, drive, nics, dns, writes,
          hostname, workload, env>>

machine == <<cmdline, embedded, builtin>>

\* Faulty variant: devpts before the devtmpfs that covers it
DefaultPtsFirst ==
    << "/proc", "/sys", "/dev/pts", "/dev", "/dev/shm", "/run", "/tmp" >>

\* mount.Default: the targets, in the order they are mounted.
Default == << "/proc", "/sys", "/dev", "/dev/pts", "/dev/shm", "/run", "/tmp" >>

\* switchroot's kernelMounts.
KernelMounts == {"/dev", "/proc", "/sys"}

WritablePaths == << "/etc", "/usr/libexec" >>

MountDirs == {"/etc", "/usr/libexec", "/var", "/"}

ASSUME DirsAssumption == DirOf \in [DOMAIN DirOf -> MountDirs]

ASSUME AttemptsAssumption == RootProbeAttempts \in Nat

Dir(path) == IF path \in DOMAIN DirOf THEN DirOf[path] ELSE "/"

\* The documents of a drive, and whether all of them could be used.
UserDoc(d) == ReadFirst(d, UserDataPaths)
MetaDoc(d) == ReadFirst(d, MetaDataPaths)
Usable(d) == UserDoc(d).kind # "bad" /\ MetaDoc(d).kind # "bad"

\* What yaml.Unmarshal fills in of a document that parses.
ASSUME DocumentsTyped ==
    \A d \in Drives :
       /\ UserDoc(d).kind = "yaml" =>
             /\ UserDoc(d).machine \in [DOMAIN NoMachine -> STRING]
             /\ UserDoc(d).runcmd \in Seq([form : STRING, argv : Seq(STRING)])
       /\ MetaDoc(d).kind = "yaml" => MetaDoc(d).local \in STRING

ASSUME CmdlinesTyped == Cmdlines \subseteq Seq([key : STRING, value : STRING])

\* metadata.Labels
Labels == << "cidata", "config-2" >>

NoDrive == [n \in {} |-> Absent]

\* What mount(2) of t hides.
Under(t) == IF t = "/dev" THEN {"/dev/pts", "/dev/shm"} ELSE {}

TypeOK ==
    /\ LoaderTypeOK
    /\ pc \in {"mounts", "modules", "root", "rootmount", "switch", "overlay",
               "data", "cgroup", "metadata", "network", "nics", "plan",
               "run", "panic"}
    /\ switched \in BOOLEAN
    /\ mnt \in [ToSet(Default) -> BOOLEAN]
    /\ root \in {"initramfs", "rw", "ro"}
    /\ top \in [MountDirs -> {"root", "overlay", "data"}]
    /\ disks \subseteq BlockDevs
    /\ attempts \in 0 .. RootProbeAttempts
    /\ newRoot \in {"", "rw", "ro"}
    /\ \A w \in writes : w.dir \in MountDirs /\ w.by \in {"boot", "drive"}
    /\ pc = "run" => workload # << >>

-----------------------------------------------------------------------------
(* Faulty variants.                                                        *)

\* the second start tries to switch root again
AfterModulesAlways ==
    IF cfg.root = "none" THEN "overlay" ELSE "root"

\* the metadata drive is read before the data volume is mounted
AfterOverlayMetadata(s) ==
    CASE s = "overlay" -> "cgroup"
      [] s = "cgroup" -> "metadata"
      [] s = "metadata" -> "data"
      [] s = "data" -> "network"

-----------------------------------------------------------------------------

Init ==
    /\ LoaderInit
    /\ pc = "mounts" /\ switched = FALSE
    /\ cmdline \in Cmdlines /\ embedded \in BOOLEAN /\ builtin \in BOOLEAN
    /\ cfg = Defaults
    /\ mnt = [t \in ToSet(Default) |-> FALSE]
    /\ root = "initramfs" /\ top = [d \in MountDirs |-> "root"]
    /\ disks = {} /\ attempts = 0 /\ newRoot = ""
    /\ ud = NoUserData /\ host = "" /\ drive = NoDrive
    /\ nics = << >> /\ dns = "" /\ writes = {}
    /\ hostname = "" /\ workload = << >> /\ env = << >>

\* boot returns an error: main panics, and so does the kernel.
Panic ==
    /\ pc' = "panic"
    /\ UNCHANGED <<loaderVars, switched, machine, cfg, mnt, root, top, disks,
                   attempts, newRoot, ud, host, drive, nics, dns, writes,
                   hostname, workload, env>>

\* A target that is mounted before another one.
Before(a, b) == \E i, j \in DOMAIN Default : i < j /\ Default[i] = a /\ Default[j] = b

\* mount.Ensure: what is missing is mounted, in the order of Default, and what is
\* mounted hides what is below its target by then. Without /proc the mount table
\* cannot be read and counts as empty, so everything is mounted, again where it
\* was there.
Ensure(m) ==
    LET new == IF m["/proc"] THEN {t \in DOMAIN m : ~m[t]} ELSE DOMAIN m
    IN [x \in DOMAIN m |-> \A t \in new : x \in Under(t) => x \in new /\ Before(t, x)]

\* mount.Ensure, recordTo and config.Parse.
Mounts ==
    /\ pc = "mounts"
    /\ \/ /\ mnt' = Ensure(mnt)
          /\ cfg' = Parse(cmdline)
          /\ pc' = "modules"
          /\ UNCHANGED <<loaderVars, switched, machine, root, top, disks,
                         attempts, newRoot, ud, host, drive, nics, dns, writes,
                         hostname, workload, env>>
       \/ Panic

\* Leave the initramfs, unless told not to or done already.
AfterModules ==
    IF cfg.root = "none" \/ switched THEN "overlay" ELSE "root"

\* loadModules: switched off, no tree for this kernel, or the loader. The tree is
\* that of the current root.
LoadModules ==
    /\ pc = "modules" /\ phase = "off"
    /\ \E t \in IF cfg.modules = "none" THEN {NoTree} ELSE Trees \cup {NoTree} :
          NewResolver(t)
    /\ UNCHANGED <<live, present, pc, switched, machine, cfg, mnt, root, top,
                   disks, attempts, newRoot, ud, host, drive, nics, dns,
                   writes, hostname, workload, env>>

ModuleStep ==
    /\ pc = "modules"
    /\ LoaderStep
    /\ UNCHANGED <<pc, switched, machine, cfg, mnt, root, top, disks, attempts,
                   newRoot, ud, host, drive, nics, dns, writes, hostname,
                   workload, env>>

\* Failures of single modules are reported and not fatal.
ModulesDone ==
    /\ pc = "modules" /\ phase = "end"
    /\ pc' = AfterModules
    /\ DropResolver
    /\ UNCHANGED <<live, present, switched, machine, cfg, mnt, root, top, disks,
                   attempts, newRoot, ud, host, drive, nics, dns, writes,
                   hostname, workload, env>>

-----------------------------------------------------------------------------
(* The switch of the root.                                                 *)

\* selectRoot: an explicit root, else an embedded image, else LABEL=k0smos.
SelectRoot ==
    IF cfg.root # "" THEN cfg.root ELSE IF embedded THEN "loop" ELSE "LABEL=k0smos"

\* blkid.Resolve: a label needs a visible device; a path is taken as it is.
Resolves(spec) ==
    spec = "LABEL=k0smos" => \E b \in disks : LabelOf[b] = "k0smos"

\* The pivot's errors are fatal.
NoRoot ==
    /\ pc' = "panic"
    /\ UNCHANGED <<newRoot, attempts>>

\* Sys.LoopAttach fails: no loop device, or no image.
LoopAttachFails == SelectRoot = "loop" /\ NoRoot

\* rootDevice: attach the image, or wait for the device a bounded time.
RootDevice ==
    /\ pc = "root"
    /\ IF Resolves(SelectRoot)
       THEN \/ pc' = "rootmount" /\ UNCHANGED <<newRoot, attempts>>
            \/ LoopAttachFails
       ELSE IF attempts < RootProbeAttempts
       THEN attempts' = attempts + 1 /\ UNCHANGED <<pc, newRoot>>
       ELSE NoRoot
    /\ UNCHANGED <<loaderVars, switched, machine, cfg, mnt, root, top, disks,
                   ud, host, drive, nics, dns, writes, hostname, workload, env>>

\* Read-write, else read-only on EACCES and EROFS; a read-only filesystem may
\* take the first mount as well.
RootMount ==
    /\ pc = "rootmount"
    /\ \/ /\ SelectRoot = "loop" \/ \E b \in disks : LabelOf[b] = "k0smos"
          /\ newRoot' \in {"rw", "ro"} /\ pc' = "switch" /\ UNCHANGED attempts
       \/ NoRoot
    /\ UNCHANGED <<loaderVars, switched, machine, cfg, mnt, root, top, disks,
                   ud, host, drive, nics, dns, writes, hostname, workload, env>>

\* switchroot.Do: each kernel filesystem moves or not; /run and /tmp stay behind.
\* The exec starts boot again, with nothing of this process left.
SwitchRoot ==
    /\ pc = "switch"
    /\ \/ \E moved \in SUBSET KernelMounts :
             /\ mnt' = [t \in DOMAIN mnt |->
                          mnt[t] /\ \E m \in moved : t \in {m} \cup Under(m)]
             /\ root' = newRoot
             /\ switched' = TRUE /\ pc' = "mounts"
             /\ attempts' = 0 /\ newRoot' = "" /\ cfg' = Defaults
       \/ /\ NoRoot
          /\ UNCHANGED <<mnt, root, switched, cfg>>
    /\ UNCHANGED <<loaderVars, machine, top, disks, ud, host, drive, nics, dns, writes,
                   hostname, workload, env>>

-----------------------------------------------------------------------------
(* From the root to the workload.                                          *)

\* The order of the stages after the root.
Then(s) ==
    CASE s = "overlay" -> "data"
      [] s = "data" -> "cgroup"
      [] s = "cgroup" -> "metadata"
      [] s = "metadata" -> "network"

\* MakeWritable on a read-only root: overlays up to the first that fails. Not
\* reached when statfs fails.
Overlay ==
    /\ pc = "overlay"
    /\ \E n \in IF root = "ro" THEN 0 .. Len(WritablePaths) ELSE {0} :
          top' = [d \in MountDirs |->
                    IF d \in ToSet(SubSeq(WritablePaths, 1, n)) THEN "overlay"
                    ELSE top[d]]
    /\ pc' = Then("overlay")
    /\ UNCHANGED <<loaderVars, switched, machine, cfg, mnt, root, disks,
                   attempts, newRoot, ud, host, drive, nics, dns, writes,
                   hostname, workload, env>>

\* datavol.Prepare and the directory /opt points to; not fatal.
DataVolumeStage ==
    /\ pc = "data"
    /\ \/ /\ cfg.data # ""
          /\ top' = [top EXCEPT !["/var"] = "data"]
          /\ writes' = writes \cup {[dir |-> "/var", on |-> "data", by |-> "boot"]}
       \/ UNCHANGED <<top, writes>>
    /\ pc' = Then("data")
    /\ UNCHANGED <<loaderVars, switched, machine, cfg, mnt, root, disks,
                   attempts, newRoot, ud, host, drive, nics, dns, hostname,
                   workload, env>>

\* cgroup.Setup; fatal.
Cgroup ==
    /\ pc = "cgroup"
    /\ \/ /\ pc' = Then("cgroup")
          /\ UNCHANGED <<loaderVars, switched, machine, cfg, mnt, root, top,
                         disks, attempts, newRoot, ud, host, drive, nics, dns,
                         writes, hostname, workload, env>>
       \/ Panic

Writable(dir) == top[dir] # "root" \/ root # "ro"

Made(dir, by) == [dir |-> dir, on |-> top[dir], by |-> by]

\* metadata.Apply stops at the first file it cannot write, and passes over those
\* without a path.
Applied(files) ==
    {n \in 0 .. Len(files) :
        \A i \in 1 .. n : files[i].path # "" => Writable(Dir(files[i].path))}

\* The drive loadMetadata picks: the first label some visible device has. It
\* does not wait for a device.
DriveLabels == SelectSeq(Labels, LAMBDA l : \E b \in disks : LabelOf[b] = l)

\* loadMetadata and applyMachineConfig. A drive that cannot be opened says
\* nothing.
ReadDrive ==
    /\ pc = "metadata"
    /\ \E content \in IF DriveLabels = << >> THEN {NoDrive}
                      ELSE {NoDrive} \cup Drives :
          LET said == Load(content)
              files == said.ud.files
          IN /\ drive' = content
             /\ ud' = said.ud /\ host' = said.hostname
             /\ cfg' = ApplyMachineConfig(cfg, said.ud.machine)
             /\ \E n \in Applied(files) :
                   writes' = writes \cup
                      {Made(Dir(files[i].path), "drive") :
                          i \in {k \in 1 .. n : files[k].path # ""}}
    /\ pc' = Then("metadata")
    /\ UNCHANGED <<loaderVars, switched, machine, mnt, root, top, disks,
                   attempts, newRoot, nics, dns, hostname, workload, env>>

\* The loopback, fatal, and the head of the loop over the NICs.
Network ==
    /\ pc = "network"
    /\ \/ /\ pc' = "nics"
          /\ nics' = NICs(cfg) /\ dns' = cfg.dns
          /\ UNCHANGED <<loaderVars, switched, machine, cfg, mnt, root, top,
                         disks, attempts, newRoot, ud, host, drive, writes,
                         hostname, workload, env>>
       \/ Panic

\* One NIC: by DHCP, whose resolver counts when none is known, or static. A
\* failure leaves the node without that NIC.
Nic ==
    /\ pc = "nics" /\ nics # << >>
    /\ \/ UNCHANGED dns
       \/ /\ Head(nics).addr = "dhcp" /\ dns = ""
          /\ dns' \in LeaseDNS
    /\ nics' = Tail(nics)
    /\ UNCHANGED <<loaderVars, pc, switched, machine, cfg, mnt, root, top,
                   disks, attempts, newRoot, ud, host, drive, writes, hostname,
                   workload, env>>

\* metadata's hostname wins over the command line's
Hostname == IF host # "" THEN host ELSE cfg.hostname

\* resolv.conf and sethostname, either of which may fail; then the reaper, the
\* control port and the power button are started.
Resolv ==
    /\ pc = "nics" /\ nics = << >>
    /\ \/ /\ dns # "" /\ Writable("/etc")
          /\ writes' = writes \cup {Made("/etc", "boot")}
       \/ UNCHANGED writes
    /\ hostname' \in {Hostname, hostname}
    /\ pc' = "plan"
    /\ UNCHANGED <<loaderVars, switched, machine, cfg, mnt, root, top, disks,
                   attempts, newRoot, ud, host, drive, nics, dns, workload, env>>

\* metadata.RunActions: which of the actions that make something may succeed; one
\* that fails does not stop the others.
RunActions(actions) ==
    SUBSET {i \in DOMAIN actions : /\ actions[i].kind \in {"mkdir", "symlink"}
                                   /\ Writable(Dir(actions[i].path))}

\* The plan of user-data: its actions and the workload, which is supervised from
\* here on.
RunPlan ==
    /\ pc = "plan"
    /\ LET plan == Plan(ud.runcmd)
       IN /\ \E ok \in RunActions(plan.actions) :
                writes' = writes \cup {Made(Dir(plan.actions[i].path), "drive") :
                                          i \in ok}
          /\ workload' = IF plan.workload # << >> THEN plan.workload
                         ELSE << cfg.exec >>
          /\ env' = plan.env
    /\ pc' = "run"
    /\ UNCHANGED <<loaderVars, switched, machine, cfg, mnt, root, top, disks,
                   attempts, newRoot, ud, host, drive, nics, dns, hostname>>

-----------------------------------------------------------------------------

\* The kernel shows a block device once it has the driver.
DiskAppears ==
    /\ \E b \in BlockDevs \ disks :
          /\ builtin \/ DriverOf[b] \in live
          /\ disks' = disks \cup {b}
    /\ UNCHANGED <<loaderVars, pc, switched, machine, cfg, mnt, root, top,
                   attempts, newRoot, ud, host, drive, nics, dns, writes,
                   hostname, workload, env>>

KernelDevice ==
    /\ DeviceAppears
    /\ UNCHANGED <<pc, switched, machine, cfg, mnt, root, top, disks, attempts,
                   newRoot, ud, host, drive, nics, dns, writes, hostname,
                   workload, env>>

BootStep ==
    \/ Mounts \/ LoadModules \/ ModuleStep \/ ModulesDone
    \/ RootDevice \/ RootMount \/ SwitchRoot
    \/ Overlay \/ DataVolumeStage \/ Cgroup \/ ReadDrive
    \/ Network \/ Nic \/ Resolv \/ RunPlan

Ended == pc \in {"run", "panic"} /\ UNCHANGED vars

Next == BootStep \/ DiskAppears \/ KernelDevice \/ Ended

\* boot is in a call it has no deadline for: it runs mkfs on the data volume, or
\* waits for a DHCP server, whose timeout starts anew with every foreign packet.
Waits ==
    \/ pc = "data" /\ cfg.data # ""
    \/ pc = "nics" /\ nics # << >> /\ Head(nics).addr = "dhcp"

\* boot is one goroutine; every other call it makes returns.
Spec == Init /\ [][Next]_vars /\ WF_vars(BootStep /\ ~Waits)

-----------------------------------------------------------------------------
(* Properties.                                                             *)

\* From the end of mount.Ensure on, in both starts and whatever came across the
\* switch, every pseudo-filesystem is visible at its target: none was mounted
\* before one that covers it, and none that stayed behind is taken for mounted.
\* (And every state is well typed.)
PseudoVisible ==
    /\ TypeOK
    /\ pc \notin {"mounts", "panic"} => \A t \in ToSet(Default) : mnt[t]

\* A file written for the workload is still on top when the workload starts: no
\* overlay and no data volume is mounted over it afterwards.
NothingHidden == \A w \in writes : top[w.dir] = w.on

\* The install commands of a drive that need no shell.
Installs(d) ==
    IF UserDoc(d).kind # "yaml" THEN {}
    ELSE {i \in DOMAIN UserDoc(d).runcmd : /\ Plain(UserDoc(d).runcmd[i])
                                          /\ IsInstall(UserDoc(d).runcmd[i].argv)}

\* The words of an install that are arguments, and the places where a word is not
\* the value of the word before.
Arguments == STRING \ (InstallOnlyFlags \cup EnvFlags \cup DOMAIN EnvEq)
OnItsOwn(cmd, k) == k = 4 \/ cmd[k - 1] \notin EnvFlags

\* argv and vals are the foreground command of an install: its role and arguments,
\* none of them lost or made up or for the installer only, and every value it
\* gives the environment.
Foreground(cmd, argv, vals) ==
    /\ Len(argv) >= 2 /\ argv[1] = cmd[1] /\ argv[2] = cmd[3]
    /\ \A i \in 3 .. Len(argv) : \E k \in 4 .. Len(cmd) : argv[i] = cmd[k] /\ cmd[k] \in Arguments
    /\ \A k \in 4 .. Len(cmd) : OnItsOwn(cmd, k) =>
          /\ cmd[k] \in Arguments => \E i \in 3 .. Len(argv) : argv[i] = cmd[k]
          /\ cmd[k] \in DOMAIN EnvEq => EnvEq[cmd[k]] \in vals
          /\ cmd[k] \in EnvFlags /\ k < Len(cmd) => cmd[k + 1] \in vals

\* The machine is what its drive says, all of it or nothing: the workload of the
\* last install it carries, under the drive's hostname and address. A drive with a
\* document that does not parse leaves the command line's machine and writes
\* nothing.
IdentityHonoured ==
    pc = "run" =>
       LET inst == Installs(drive)
       IN IF Usable(drive)
          THEN /\ IF inst = {} THEN workload = << cfg.exec >>
                  ELSE Foreground(UserDoc(drive).runcmd[Max(inst)].argv,
                                  workload, ToSet(env))
               /\ MetaDoc(drive).kind = "yaml" /\ MetaDoc(drive).local # "" =>
                     hostname \in {"", MetaDoc(drive).local}
               /\ UserDoc(drive).kind = "yaml" /\ UserDoc(drive).machine.ip # "" =>
                     cfg.ip = UserDoc(drive).machine.ip
          ELSE /\ workload = << Parse(cmdline).exec >>
               /\ cfg = Parse(cmdline)
               /\ \A w \in writes : w.by # "drive"

-----------------------------------------------------------------------------
(* Boot implements BootChain.                                              *)

stageBar ==
    CASE pc = "run" -> "up"
      [] pc = "panic" -> "failed"
      [] pc \in {"nics", "plan"} -> "connected"
      [] pc = "network" -> "told"
      [] OTHER -> "booting"

\* What the network has been configured with.
addressBar == IF pc \in {"nics", "plan", "run"} THEN cfg.ip ELSE ""

\* The address a drive names, if it can be used.
AddressOf(d) ==
    IF Usable(d) /\ UserDoc(d).kind = "yaml" THEN UserDoc(d).machine.ip ELSE ""

Chain == INSTANCE BootChain
            WITH Dirs <- MountDirs, Addresses <- STRING, stage <- stageBar,
                 files <- writes, stay <- Parse(cmdline).root = "none",
                 asked <- Parse(cmdline).ip,
                 told <- AddressOf(drive), trusted <- Usable(drive),
                 address <- addressBar, waits <- Waits

\* A node comes up the way docs/design/boot-chain.md says, in the order it calls
\* load-bearing, and every boot ends: the workload is started, or PID1 gives up, or
\* it waits for ever for mkfs or a DHCP server. A module cycle, a root that never
\* appears and a root that starts k0smos again neither reorder it nor hold it up.
ChainSpec == Chain!Spec
=============================================================================
