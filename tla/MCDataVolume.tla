---------------------------- MODULE MCDataVolume ----------------------------
(***************************************************************************)
(* DataVolume with two disks and a loop device, each holding what a        *)
(* machine may be given: nothing, a root or cloud-init drive, or a volume  *)
(* formatted by k0smos before.                                             *)
(***************************************************************************)
EXTENDS DataVolume

MCDisks == {"a", "b", "loop"}
MCVirtual == {"loop"}

MCContents ==
    { Blanked,
      Formatted,
      [fs |-> "iso9660", ours |-> FALSE, sound |-> TRUE, data |-> {"foreign"}] }

\* The run with unreadable devices: two disks, no pseudo-device.
MCPlainDisks == {"a", "b"}
=============================================================================
