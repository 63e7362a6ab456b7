-------------------------- MODULE DataVolume_proofs --------------------------
(***************************************************************************)
(* For any number of disks, names, contents and boots: on a machine whose  *)
(* devices can be read, and whose explicit device, if it has one, does not *)
(* appear late, Prepare never formats over a filesystem the probers know.  *)
(***************************************************************************)
EXTENDS DataVolume, TLAPS

\* The machines the theorems are about.
Readable == ~Flaky

\* The variables that Prepare's choice depends on have the types they should.
DiskTypes ==
    /\ spec \in Specs
    /\ late \in BOOLEAN
    /\ disk \in [Disks -> Content]
    /\ attached \subseteq Disks
    /\ present \subseteq attached
    /\ mounted \in Disks \cup {None}
    /\ pc \in {"identify", "mkfs", "formatting", "mount"} => dev \in Disks

\* Every disk is found at once, or the device that Prepare looks at is there
\* when it looks.
SeenInTime ==
    /\ ~late => present = attached
    /\ late /\ spec # "path" /\ pc \in {"identify", "mkfs"} => dev \in present

\* What Prepare found out about the device still holds when mkfs starts.
LookedAt ==
    /\ pc = "mkfs" /\ dev \in present /\ ~Overtaken => ~Recognised(disk[dev])
    /\ pc = "formatting" => disk[dev] = Blanked

\* What "auto" has chosen carries the label or is no pseudo-device.
Choice ==
    spec = "auto" =>
        /\ pc = "identify" =>
              dev \in present /\ (Recognised(disk[dev]) \/ dev \notin Virtual)
        /\ pc \in {"mkfs", "formatting"} =>
              dev \in present /\ dev \notin Virtual /\ ~Recognised(disk[dev])

IInv == DiskTypes /\ SeenInTime /\ LookedAt /\ Choice

\* The contents that a disk may get from Prepare, mkfs and a crash are contents,
\* and only what mkfs has finished or spoilt is recognised.
LEMMA ContentFacts ==
    /\ Blanked \in Content /\ ~Recognised(Blanked)
    /\ Formatted \in Content
    /\ Spoilt \in Content
BY DEF Blanked, Formatted, Spoilt, Content, Filesystems, Recognised

\* The invariant holds when the machine first boots.
LEMMA InvInit == ASSUME Readable, Init PROVE IInv
<1> USE DataVolumeAssumptions DEF Init
<1>1. DiskTypes
  BY DEF DataVolumeAssumptions, DiskTypes, Found
<1>2. QED
  BY <1>1 DEF IInv, SeenInTime, LookedAt, Choice, Found

\* Every step keeps the types, whatever can be read.
LEMMA TypesStep == ASSUME DiskTypes, [Next]_vars PROVE DiskTypes'
<1> USE DataVolumeAssumptions DEF DataVolumeAssumptions, DiskTypes, Proceed, Chosen, bootVars
<1>1. CASE SelectPath
  BY <1>1 DEF SelectPath
<1>2. CASE SelectLabel
  BY <1>2 DEF SelectLabel, Resolve, Labelled, Volumes
<1>3. CASE SelectBlank
  BY <1>3 DEF SelectBlank, Blank
<1>4. CASE IdentifyDevice
  BY <1>4 DEF IdentifyDevice
<1>5. CASE Mkfs
  BY <1>5, ContentFacts DEF Mkfs
<1>6. CASE MkfsDone
  BY <1>6, ContentFacts DEF MkfsDone
<1>7. CASE MkfsFails
  BY <1>7 DEF MkfsFails
<1>8. CASE Mount
  BY <1>8 DEF Mount
<1>9. CASE Work
  BY <1>9 DEF Work, Content
<1>10. CASE \E d \in Disks : Appear(d)
  BY <1>10 DEF Appear
<1>11. CASE Restart
  BY <1>11, ContentFacts DEF Restart, Found
<1>12. CASE UNCHANGED vars
  BY <1>12 DEF vars
<1>13. QED
  BY <1>1, <1>2, <1>3, <1>4, <1>5, <1>6, <1>7, <1>8, <1>9, <1>10, <1>11, <1>12
  DEF Next, Prepare

\* Every step keeps the invariant on a readable machine: the disk that mkfs
\* overwrites is the one Prepare looked at, and nothing wrote to it in between.
LEMMA InvStep == ASSUME Readable, IInv, [Next]_vars PROVE IInv'
<1> USE DataVolumeAssumptions DEF DataVolumeAssumptions, IInv
<1>0. DiskTypes'
  BY TypesStep
<1> USE DEF DiskTypes, Readable, SeenInTime, LookedAt, Overtaken, Choice, Proceed, Chosen, bootVars
<1>1. CASE SelectPath
  BY <1>1 DEF SelectPath
<1>2. CASE SelectLabel
  BY <1>2 DEF SelectLabel, Resolve, Labelled, Volumes
<1>3. CASE SelectBlank
  BY <1>3 DEF SelectBlank, Blank
<1>4. CASE IdentifyDevice
  BY <1>0, <1>4 DEF IdentifyDevice, Identify
<1>5. CASE Mkfs
  BY <1>0, <1>5, ContentFacts DEF Mkfs
<1>6. CASE MkfsDone
  BY <1>0, <1>6, ContentFacts DEF MkfsDone
<1>7. CASE MkfsFails
  BY <1>0, <1>7 DEF MkfsFails
<1>8. CASE Mount
  BY <1>0, <1>8 DEF Mount
<1>9. CASE Work
  BY <1>0, <1>9 DEF Work
<1>10. CASE \E d \in Disks : Appear(d)
  BY <1>0, <1>10 DEF Appear
<1>11. CASE Restart
  BY <1>0, <1>11 DEF Restart, Found
<1>12. CASE UNCHANGED vars
  BY <1>0, <1>12 DEF vars
<1>13. QED
  BY <1>1, <1>2, <1>3, <1>4, <1>5, <1>6, <1>7, <1>8, <1>9, <1>10, <1>11, <1>12
  DEF Next, Prepare

\* The inductive invariant of a readable machine.
THEOREM Invariance == ASSUME Readable PROVE Spec => []IInv
<1>1. Init => IInv
  BY InvInit
<1>2. IInv /\ [Next]_vars => IInv'
  BY InvStep
<1>3. QED
  BY <1>1, <1>2, PTL DEF Spec

\* "auto" formats neither a pseudo-device nor a drive with a known filesystem:
\* selectDevice and blkid.Blank, over any number of boots.
THEOREM AutoChoosesBlank == ASSUME Readable PROVE Spec => []AutoChoice
<1>1. IInv => AutoChoice
  BY DEF IInv, Choice, AutoChoice
<1>2. QED
  BY <1>1, Invariance, PTL

\* No step of a machine's life replaces or empties a filesystem that
\* blkid.Identify reports: Prepare formats only what it has found blank.
THEOREM FormatsOnlyBlank == ASSUME Readable PROVE Spec => RecognisedKept
<1> DEFINE Kept == \A d \in Disks : Recognised(disk[d]) /\ ~Overtaken =>
                      disk'[d].fs = disk[d].fs /\ disk[d].data \subseteq disk'[d].data
<1>1. ASSUME IInv, [Next]_vars PROVE [Kept]_vars
  <2> SUFFICES ASSUME NEW d \in Disks, Recognised(disk[d]), ~Overtaken
               PROVE  disk'[d].fs = disk[d].fs /\ disk[d].data \subseteq disk'[d].data
    OBVIOUS
  <2> USE <1>1 DEF IInv, DiskTypes, LookedAt
  <2>1. CASE UNCHANGED disk
    BY <2>1
  <2>2. CASE Mkfs
    BY <2>2 DEF Mkfs
  <2>3. CASE MkfsDone
    BY <2>3, ContentFacts DEF MkfsDone
  <2>4. CASE Work
    <3>1. mounted \in Disks
      BY <2>4 DEF Work
    <3>2. CASE d = mounted
      BY <2>4, <3>1, <3>2 DEF Work, Content
    <3>3. CASE d # mounted
      BY <2>4, <3>1, <3>3 DEF Work
    <3>4. QED
      BY <3>2, <3>3
  <2>5. CASE pc = "formatting" /\ disk' = [disk EXCEPT ![dev] = Spoilt]
    BY <2>5, ContentFacts
  <2>6. UNCHANGED disk \/ Mkfs \/ MkfsDone \/ Work
          \/ (pc = "formatting" /\ disk' = [disk EXCEPT ![dev] = Spoilt])
    BY DEF Next, Prepare, SelectPath, SelectLabel, SelectBlank, IdentifyDevice, MkfsFails,
           Mount, Appear, Restart, Proceed, Chosen, vars
  <2>7. QED
    BY <2>1, <2>2, <2>3, <2>4, <2>5, <2>6
<1>2. QED
  BY <1>1, Invariance, PTL DEF Spec, RecognisedKept

-----------------------------------------------------------------------------
(* The volume of the cluster.                                              *)

\* Under "auto", with every device found in time: the cluster's data is on a volume,
\* and Prepare is about to use a volume or has seen that there is none.
VolumeUsed ==
    spec = "auto" /\ ~late =>
        /\ \A d \in Disks : HasCluster(d) => d \in Volumes
        /\ mounted # None => mounted \in Volumes
        /\ pc \in {"blank", "mkfs", "formatting"} => Volumes = {}
        /\ pc = "identify" => dev \in Volumes \/ (Volumes = {} /\ ~Recognised(disk[dev]))
        /\ pc = "mount" => dev \in Volumes

VInv == TypeOK /\ IInv /\ VolumeUsed

\* Every step keeps the types, names and boots included.
LEMMA TypeStep == ASSUME TypeOK, DiskTypes, [Next]_vars PROVE TypeOK'
<1>1. DiskTypes'
  BY TypesStep
<1>2. /\ name' \in Namings /\ boots' \in 0 .. MaxBoots /\ dev' \in Disks \cup {None}
      /\ pc' \in {"select", "blank", "identify", "mkfs", "formatting", "mount", "running"}
  <2> USE DataVolumeAssumptions DEF DataVolumeAssumptions, TypeOK, Proceed, Chosen, bootVars
  <2>1. CASE Prepare
    BY <2>1 DEF Prepare, SelectPath, SelectLabel, SelectBlank, IdentifyDevice, Mkfs, MkfsDone,
                MkfsFails, Mount, Resolve, Labelled, Blank
  <2>2. CASE Work \/ \E d \in Disks : Appear(d)
    BY <2>2 DEF Work, Appear
  <2>3. CASE Restart
    BY <2>3 DEF Restart
  <2>4. CASE UNCHANGED vars
    BY <2>4 DEF vars
  <2>5. QED
    BY <2>1, <2>2, <2>3, <2>4 DEF Next
<1>3. QED
  BY <1>1, <1>2 DEF TypeOK, DiskTypes

LEMMA VolumeInit == ASSUME Readable, Init PROVE VInv
<1>1. TypeOK
  BY DataVolumeAssumptions DEF DataVolumeAssumptions, Init, TypeOK, Found
<1>2. VolumeUsed
  BY DataVolumeAssumptions DEF DataVolumeAssumptions, Init, VolumeUsed, Volumes, HasCluster
<1>3. QED
  BY <1>1, <1>2, InvInit DEF VInv

\* Every step keeps that: a volume is formatted only where none was found, and
\* everything there was to find was.
LEMMA VolumeStep ==
    ASSUME Readable, TypeOK, IInv, IInv', VolumeUsed, [Next]_vars, spec = "auto", ~late
    PROVE  VolumeUsed'
<1> USE DEF VolumeUsed, Volumes, HasCluster
<1>1. /\ present = attached /\ disk \in [Disks -> Content] /\ attached \subseteq Disks
      /\ spec' = spec /\ late' = late
  BY DEF IInv, SeenInTime, DiskTypes, Next, Prepare, SelectPath, SelectLabel, SelectBlank,
         IdentifyDevice, Mkfs, MkfsDone, MkfsFails, Mount, Work, Appear, Restart, Proceed, Chosen,
         bootVars, vars
<1>2. CASE SelectPath
  BY <1>2 DEF SelectPath
<1>3. CASE SelectLabel
  <2>1. Labelled = Volumes
    BY <1>1 DEF Labelled
  <2>2. PICK d \in Resolve : \/ d # None /\ Chosen(d)
                             \/ d = None /\ pc' = "blank" /\ UNCHANGED <<disk, dev, mounted, bootVars>>
    BY <1>3 DEF SelectLabel
  <2>3. UNCHANGED <<disk, mounted, attached>>
    BY <2>2 DEF Chosen, bootVars
  <2>4. CASE d # None /\ Chosen(d)
    <3>1. d \in Volumes
      BY <2>1, <2>4 DEF Resolve
    <3>2. QED
      BY <2>3, <2>4, <3>1 DEF Chosen
  <2>5. CASE d = None /\ pc' = "blank"
    <3>0. None \notin Volumes
      BY <1>1, DataVolumeAssumptions DEF DataVolumeAssumptions
    <3> HIDE DEF Volumes
    <3>1. Volumes = {}
      BY <2>1, <2>5, <3>0 DEF Resolve, Readable
    <3>2. QED
      BY <2>3, <2>5, <3>1 DEF Volumes
  <2>6. QED
    BY <2>2, <2>4, <2>5
<1>4. CASE SelectBlank
  <2>1. pc = "blank" /\ UNCHANGED <<disk, mounted, attached>>
    BY <1>4 DEF SelectBlank, Chosen, Proceed, bootVars
  <2>2. CASE pc' = "running"
    BY <2>1, <2>2
  <2>3. CASE \E candidates \in Blank : \E d \in candidates : Chosen(d)
    <3>1. PICK d \in Disks : Chosen(d) /\ ~Recognised(disk[d])
      BY <1>1, <2>3 DEF Blank, Readable
    <3>2. QED
      BY <2>1, <3>1 DEF Chosen
  <2>4. QED
    BY <1>4, <2>2, <2>3 DEF SelectBlank, Proceed
<1>5. CASE IdentifyDevice
  <2>1. pc = "identify" /\ UNCHANGED <<disk, mounted, attached, dev>>
    BY <1>5 DEF IdentifyDevice, bootVars
  <2>2. pc' = IF Recognised(disk[dev]) THEN "mount" ELSE "mkfs"
    BY <1>1, <1>5, <2>1 DEF IdentifyDevice, Identify, Readable, IInv, Choice
  <2>3. QED
    BY <2>1, <2>2
<1>6. CASE Mkfs
  <2>1. /\ pc = "mkfs" /\ pc' = "formatting" /\ dev \in Disks
        /\ disk' = [disk EXCEPT ![dev] = Blanked] /\ UNCHANGED <<mounted, attached, dev>>
    BY <1>1, <1>6 DEF Mkfs, bootVars
  <2>2. Blanked.data = {} /\ ~Recognised(Blanked)
    BY ContentFacts DEF Blanked
  <2>3. QED
    BY <1>1, <2>1, <2>2
<1>7. CASE MkfsDone
  <2>1. /\ pc = "formatting" /\ pc' = "mount"
        /\ disk' = [disk EXCEPT ![dev] = Formatted] /\ UNCHANGED <<mounted, attached, dev>>
    BY <1>7 DEF MkfsDone, bootVars
  <2>2. dev \in Disks /\ dev \in attached
    BY <1>1, <2>1 DEF IInv, Choice
  <2>3. Formatted.data = {} /\ Recognised(Formatted) /\ Formatted.ours
    BY DEF Formatted, Recognised
  <2>4. Volumes' = {dev}
    BY <1>1, <2>1, <2>2, <2>3
  <2>5. \A d \in Disks : ~HasCluster(d)'
    BY <1>1, <2>1, <2>2, <2>3
  <2>6. mounted = None
    BY <2>1
  <2>7. QED
    BY <2>1, <2>2, <2>4, <2>5, <2>6
<1>8. CASE MkfsFails
  BY <1>8 DEF MkfsFails, Proceed, bootVars
<1>9. CASE Mount
  BY <1>9 DEF Mount, bootVars
<1>10. CASE Work
  <2>1. /\ pc = "running" /\ mounted \in Volumes
        /\ disk' = [disk EXCEPT ![mounted].data = @ \cup {"cluster"}]
        /\ UNCHANGED <<mounted, attached, dev, pc>>
    BY <1>10 DEF Work, bootVars
  <2>2. \A d \in Disks : disk'[d].fs = disk[d].fs /\ disk'[d].ours = disk[d].ours
    <3>1. disk[mounted] \in Content /\ mounted \in Disks
      BY <1>1, <2>1
    <3>2. disk'[mounted].fs = disk[mounted].fs /\ disk'[mounted].ours = disk[mounted].ours
      BY <1>1, <2>1, <3>1 DEF Content
    <3>3. \A d \in Disks : d # mounted => disk'[d] = disk[d]
      BY <1>1, <2>1
    <3>4. QED
      BY <3>2, <3>3
  <2>3. Volumes' = Volumes
    BY <1>1, <2>1, <2>2 DEF Recognised
  <2>4. \A d \in Disks : d # mounted => disk'[d] = disk[d]
    BY <1>1, <2>1
  <2>5. \A d \in Disks : HasCluster(d)' => d \in Volumes'
    BY <2>1, <2>3, <2>4
  <2>6. QED
    BY <2>1, <2>3, <2>5
<1>11. CASE \E d \in Disks : Appear(d)
  BY <1>11 DEF Appear
<1>12. CASE Restart
  <2>1. pc' = "select" /\ mounted' = None /\ attached \subseteq attached'
    BY <1>12 DEF Restart
  <2>2. CASE UNCHANGED disk
    BY <2>1, <2>2
  <2>3. CASE pc = "formatting" /\ disk' = [disk EXCEPT ![dev] = Spoilt]
    <3>1. dev \in Disks /\ dev \in attached
      BY <1>1, <2>3 DEF IInv, Choice
    <3>2. Spoilt.data = {} /\ Recognised(Spoilt) /\ Spoilt.ours
      BY DEF Spoilt, Formatted, Recognised
    <3>4. \A d \in Disks : ~HasCluster(d)'
      BY <1>1, <2>3, <3>1, <3>2
    <3>5. QED
      BY <2>1, <3>4
  <2>4. QED
    BY <1>12, <2>2, <2>3 DEF Restart
<1>13. CASE UNCHANGED vars
  BY <1>13 DEF vars
<1>14. QED
  BY <1>2, <1>3, <1>4, <1>5, <1>6, <1>7, <1>8, <1>9, <1>10, <1>11, <1>12, <1>13
  DEF Next, Prepare

\* Over any number of boots, whatever volumes the machine is given, with disks renamed,
\* added and cut short in mkfs: "auto" formats nothing while a volume is attached, and
\* with one volume attached a boot that mounts mounts that one (VolumeFoundAgain).
THEOREM ClusterComesBack == ASSUME Readable PROVE Spec => []VolumeFoundAgain
<1>1. Init => VInv
  BY VolumeInit
<1>2. VInv /\ [Next]_vars => VInv'
  <2> SUFFICES ASSUME VInv, [Next]_vars  PROVE VInv'
    OBVIOUS
  <2>1. TypeOK' /\ IInv'
    BY TypeStep, InvStep DEF VInv, IInv
  <2>2. spec' = spec /\ late' = late
    BY DEF Next, Prepare, SelectPath, SelectLabel, SelectBlank, IdentifyDevice, Mkfs, MkfsDone,
           MkfsFails, Mount, Work, Appear, Restart, Proceed, Chosen, bootVars, vars
  <2>3. VolumeUsed'
    BY <2>1, <2>2, VolumeStep DEF VInv, VolumeUsed
  <2>4. QED
    BY <2>1, <2>3 DEF VInv
<1>3. VInv => VolumeFoundAgain
  BY DEF VInv, VolumeUsed, VolumeFoundAgain, TypeOK
<1>4. QED
  BY <1>1, <1>2, <1>3, PTL DEF Spec
=============================================================================
