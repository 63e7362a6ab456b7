----------------------------- MODULE DataVolume -----------------------------
(***************************************************************************)
(* The data volume over the life of a machine: datavol.Prepare with the    *)
(* probing it does through internal/blkid, run once by every boot before   *)
(* the workload, and the crashes and restarts between boots.               *)
(*                                                                         *)
(* Disks have an identity that outlives the boot; the kernel gives them    *)
(* names anew at each boot and may find some of them only after the driver *)
(* has been loaded. mkfs, the mount and the workload are external: mkfs    *)
(* that is cut short leaves a blank device or a filesystem that does not   *)
(* mount.                                                                  *)
(***************************************************************************)
EXTENDS Naturals, FiniteSets

CONSTANTS
    Disks,      \* block devices that may be attached to the machine
    Virtual,    \* those of them that isVirtual excludes: loop, ram, ...
    Contents,   \* what a disk may hold when it is first attached
    Specs,      \* values of k0smos.data: "auto", "label" or "path"
    Flaky,      \* whether reading a device may fail
    MaxBoots    \* bound: boots

\* A disk's content: its filesystem ("none" for a blank disk, "other" for one
\* that no prober knows, a partition table included), whether its label is
\* Options.Label, whether it mounts, and what it holds.
Filesystems == {"none", "ext4", "erofs", "iso9660", "vfat", "other"}
Content == [fs : Filesystems, ours : BOOLEAN, sound : BOOLEAN,
            data : SUBSET {"cluster", "foreign"}]
Blanked == [fs |-> "none", ours |-> FALSE, sound |-> FALSE, data |-> {}]
Formatted == [fs |-> "ext4", ours |-> TRUE, sound |-> TRUE, data |-> {}]
Spoilt == [Formatted EXCEPT !.sound = FALSE]
None == "none"

ASSUME DataVolumeAssumptions ==
    /\ IsFiniteSet(Disks) /\ None \notin Disks
    /\ Virtual \subseteq Disks
    /\ Contents \subseteq Content
    /\ \A c \in Contents : "cluster" \notin c.data
    /\ Specs \subseteq {"auto", "label", "path"}
    /\ Flaky \in BOOLEAN
    /\ MaxBoots \in Nat

VARIABLES
    spec,      \* the machine's k0smos.data
    late,      \* whether its drivers may still be probing when Prepare looks
    disk,      \* disk[d]: the content of d
    attached,  \* disks attached to the machine
    present,   \* those the kernel has found in this boot
    name,      \* name[d]: d's place in the order of device names, in this boot
    pc,        \* where Prepare is
    dev,       \* the device it has chosen
    mounted,   \* the disk mounted at Options.MountPoint
    boots      \* boots so far

vars == <<spec, late, disk, attached, present, name, pc, dev, mounted, boots>>
bootVars == <<spec, late, attached, present, name, boots>>

Names == 1 .. Cardinality(Disks)
Namings == {f \in [Disks -> Names] : \A d, e \in Disks : f[d] = f[e] => d = e}
PathName == 1  \* the name an explicit k0smos.data=/dev/... gives

TypeOK ==
    /\ spec \in Specs
    /\ late \in BOOLEAN
    /\ disk \in [Disks -> Content]
    /\ attached \subseteq Disks
    /\ present \subseteq attached
    /\ name \in Namings
    /\ pc \in {"select", "blank", "identify", "mkfs", "formatting", "mount", "running"}
    /\ dev \in Disks \cup {None}
    /\ mounted \in Disks \cup {None}
    /\ boots \in 0 .. MaxBoots

\* The kernel starts: disks get their names, and all or some are found.
Found(disks) == IF late THEN SUBSET disks ELSE {disks}

\* A machine may be given volumes that earlier ones formatted, any number of them,
\* from the start or later.
Init ==
    /\ spec \in Specs
    /\ late \in BOOLEAN
    /\ disk \in [Disks -> Contents]
    /\ attached \in SUBSET Disks
    /\ present \in Found(attached)
    /\ name \in Namings
    /\ pc = "select"
    /\ dev = None
    /\ mounted = None
    /\ boots = 0

-----------------------------------------------------------------------------
(* internal/blkid.                                                         *)

Recognised(c) == c.fs \notin {"none", "other"}

\* Which answers Identify may give: a device that cannot be read, or is not
\* there yet, looks blank.
Identify(d) ==
    {(d \in present) /\ Recognised(disk[d])} \cup (IF Flaky THEN {FALSE} ELSE {})

\* The volumes: the disks attached that carry Options.Label.
Volumes == {d \in attached : Recognised(disk[d]) /\ disk[d].ours}

\* The devices Resolve may find for LABEL=<Options.Label>: the first by name of
\* those it can read. It does not look whether there is another.
Labelled == Volumes \cap present

Resolve ==
    {d \in Labelled : Flaky \/ \A e \in Labelled : name[d] <= name[e]}
        \cup (IF Flaky \/ Labelled = {} THEN {None} ELSE {})

\* The sets Blank may return.
Blank ==
    LET blank == {d \in present \ Virtual : ~Recognised(disk[d])}
    IN  {blank \cup extra : extra \in IF Flaky THEN SUBSET (present \ Virtual) ELSE {{}}}

-----------------------------------------------------------------------------
(* Prepare.                                                                *)

\* Prepare ends with a device mounted, with none to mount, or with an error that
\* boot logs; the workload starts in any case.
Proceed == pc' = "running" /\ UNCHANGED <<disk, dev, mounted, bootVars>>

Chosen(d) == dev' = d /\ pc' = "identify" /\ UNCHANGED <<disk, mounted, bootVars>>

\* An explicit path is taken as it is, whether the kernel has found the device
\* or not; nothing waits for it to appear.
SelectPath ==
    /\ pc = "select"
    /\ spec = "path"
    /\ \E d \in Disks : name[d] = PathName /\ Chosen(d)

\* Faulty variant of SelectLabel: auto looks for a blank device first.
SelectLabelLast ==
    /\ pc = "select"
    /\ spec \in {"label", "auto"}
    /\ \/ /\ spec = "label"
          /\ \E d \in Resolve : IF d = None THEN Proceed ELSE Chosen(d)
       \/ /\ spec = "auto"
          /\ pc' = "blank"
          /\ UNCHANGED <<disk, dev, mounted, bootVars>>

\* A label that does not resolve means no volume, unless the spec is "auto".
SelectLabel ==
    /\ pc = "select"
    /\ spec \in {"label", "auto"}
    /\ \E d \in Resolve :
          \/ d # None /\ Chosen(d)
          \/ d = None /\ spec = "label" /\ Proceed
          \/ /\ d = None
             /\ spec = "auto"
             /\ pc' = "blank"
             /\ UNCHANGED <<disk, dev, mounted, bootVars>>

\* "auto" takes the one blank device, and refuses to guess between several.
SelectBlank ==
    /\ pc = "blank"
    /\ \E candidates \in Blank :
          \/ \E d \in candidates : candidates = {d} /\ Chosen(d)
          \/ (Flaky \/ Cardinality(candidates) # 1) /\ Proceed

\* Faulty variant of IdentifyDevice: whatever was chosen is formatted.
IdentifySkipped ==
    /\ pc = "identify"
    /\ pc' = "mkfs"
    /\ UNCHANGED <<disk, dev, mounted, bootVars>>

IdentifyDevice ==
    /\ pc = "identify"
    /\ \E formatted \in Identify(dev) : pc' = IF formatted THEN "mount" ELSE "mkfs"
    /\ UNCHANGED <<disk, dev, mounted, bootVars>>

\* mkfs runs; what was on the device is lost as soon as it writes.
Mkfs ==
    /\ pc = "mkfs"
    /\ dev \in present
    /\ pc' = "formatting"
    /\ disk' = [disk EXCEPT ![dev] = Blanked]
    /\ UNCHANGED <<dev, mounted, bootVars>>

MkfsDone ==
    /\ pc = "formatting"
    /\ pc' = "mount"
    /\ disk' = [disk EXCEPT ![dev] = Formatted]
    /\ UNCHANGED <<dev, mounted, bootVars>>

\* mkfs fails, before it writes anything or after.
MkfsFails ==
    /\ pc \in {"mkfs", "formatting"}
    /\ Proceed

\* The device is mounted with Options.FSType, ext4, or not at all.
Mount ==
    /\ pc = "mount"
    /\ pc' = "running"
    /\ \/ disk[dev].fs = "ext4" /\ disk[dev].sound /\ mounted' = dev
       \/ UNCHANGED mounted
    /\ UNCHANGED <<disk, dev, bootVars>>

-----------------------------------------------------------------------------
(* The machine.                                                            *)

\* The workload keeps the cluster's data on the volume, if there is one; without
\* one it uses the root filesystem.
Work ==
    /\ pc = "running"
    /\ mounted # None
    /\ disk' = [disk EXCEPT ![mounted].data = @ \cup {"cluster"}]
    /\ UNCHANGED <<pc, dev, mounted, bootVars>>

\* A driver finishes probing.
Appear(d) ==
    /\ d \in attached \ present
    /\ present' = present \cup {d}
    /\ UNCHANGED <<spec, late, disk, attached, name, pc, dev, mounted, boots>>

\* The machine stops, at any moment, and boots again, maybe with more disks.
\* A mkfs cut short may have left a superblock that does not mount.
Restart ==
    /\ boots < MaxBoots
    /\ boots' = boots + 1
    /\ attached' \in {attached} \cup {attached \cup {d} : d \in Disks}
    /\ present' \in Found(attached')
    /\ name' \in Namings
    /\ pc' = "select"
    /\ dev' = None
    /\ mounted' = None
    /\ \/ UNCHANGED disk
       \/ pc = "formatting" /\ disk' = [disk EXCEPT ![dev] = Spoilt]
    /\ UNCHANGED <<spec, late>>

-----------------------------------------------------------------------------
Prepare ==
    SelectPath \/ SelectLabel \/ SelectBlank \/ IdentifyDevice \/ Mkfs \/ MkfsDone
        \/ MkfsFails \/ Mount

Next == Prepare \/ Work \/ (\E d \in Disks : Appear(d)) \/ Restart

Spec == Init /\ [][Next]_vars

-----------------------------------------------------------------------------
(* Properties.                                                             *)

\* An explicit device is not waited for: with slow drivers it may be looked at
\* before it is there, and formatted once it is.
Overtaken == late /\ spec = "path"

\* blkid.go: "callers must never format something this reports a filesystem
\* for": whatever the names of the boot, the disks attached to the machine and
\* the moment it stopped, a filesystem the probers know is neither replaced nor
\* emptied, on a machine whose devices can be read and whose explicit device, if
\* it has one, is there when Prepare looks.
RecognisedKept ==
    [][\A d \in Disks : Recognised(disk[d]) /\ ~Overtaken =>
          disk'[d].fs = disk[d].fs /\ disk[d].data \subseteq disk'[d].data]_vars

\* The cluster comes back with its data. Under "auto", if devices are found in
\* time: no volume is formatted while another is attached, however the disks are
\* named, added or cut short in mkfs; so as long as nobody attaches a second one,
\* a boot that mounts a volume mounts the one that holds the cluster's data. With
\* a second one attached the first by name is mounted, whichever that is.
\* (And every state is well typed.)
HasCluster(d) == "cluster" \in disk[d].data

VolumeFoundAgain ==
    /\ TypeOK
    /\ spec = "auto" /\ ~late =>
        /\ pc \in {"mkfs", "formatting"} => Volumes = {}
        /\ \A d \in Disks : HasCluster(d) => d \in Volumes
        /\ \A d \in Volumes : HasCluster(d) /\ Volumes = {d} => mounted \in {d, None}

\* Pseudo-devices and drives with a known filesystem (the root, the cloud-init
\* drive) are never formatted by "auto", late devices or not.
AutoChoice ==
    spec = "auto" /\ pc \in {"mkfs", "formatting"} =>
        dev \notin Virtual /\ ~Recognised(disk[dev])

-----------------------------------------------------------------------------
(* What a document says and the code does not do.                          *)

\* datavol.go: "Ambiguity is refused rather than guessed at": of two volumes that
\* both carry the label none is mounted.
AmbiguityRefused ==
    spec \in {"auto", "label"} /\ ~late /\ mounted # None => Volumes = {mounted}

\* datavol.go: "never format a device that already has a filesystem".
FilesystemsKept ==
    [][\A d \in Disks : disk[d].fs # "none" => disk'[d].fs = disk[d].fs]_vars
=============================================================================
