----------------------------- MODULE BootChain -----------------------------
(***************************************************************************)
(* What a k0smos node promises about how it comes up, whatever the stages  *)
(* of boot are (docs/design/boot-chain.md, "Two orderings in there are     *)
(* load-bearing"): it leaves the initramfs once, with nothing written      *)
(* there, or stays because it was asked to; nothing is mounted over a file *)
(* once it is written; the cloud-init drive is heard, all of it or         *)
(* nothing, after the last mount and before the network, which gets the    *)
(* address the drive names; and the boot ends, unless it comes to wait for *)
(* ever for mkfs or a DHCP server, for which it has no deadline. Boot is   *)
(* shown to implement this specification.                                  *)
(***************************************************************************)
CONSTANTS Dirs, Addresses

VARIABLES
    stage,    \* "booting", "told", "connected", "up" or "failed"
    root,     \* the filesystem at "/": "initramfs", "rw" or "ro"
    top,      \* top[d]: what is on top at directory d
    files,    \* [dir, on, by]
    stay,     \* the command line asks to stay in the initramfs
    asked,    \* the address the command line asks for, "" for none
    told,     \* the address the drive names, "" for none
    trusted,  \* the drive, if there is one, can be used
    address,  \* what the network is configured with, "" before
    waits     \* boot is in a call that has no deadline; free, not one of vars

vars == <<stage, root, top, files, stay, asked, told, trusted, address>>

Init ==
    /\ stage = "booting"
    /\ root = "initramfs"
    /\ top = [d \in Dirs |-> "root"]
    /\ files = {}
    /\ stay \in BOOLEAN
    /\ asked \in Addresses \cup {""}
    /\ told = ""
    /\ trusted = TRUE
    /\ address = ""

\* A file stays, and a new one is on top of a filesystem that takes it. A drive
\* that cannot be used writes none.
Writes(who) ==
    /\ files \subseteq files'
    /\ \A f \in files' \ files :
          /\ f.by = who /\ f.dir \in Dirs
          /\ f.on = top'[f.dir]
          /\ f.on # "root" \/ root # "ro"
          /\ who = "drive" => trusted'

SwitchRoot ==
    /\ stage = "booting"
    /\ root = "initramfs" /\ ~stay
    /\ files = {}
    /\ \A d \in Dirs : top[d] = "root"
    /\ root' \in {"rw", "ro"}
    /\ UNCHANGED <<stage, top, files, stay, asked, told, trusted, address>>

\* A tmpfs overlay on a read-only root, or the data volume; what is covered has no
\* file and was not covered before.
Cover(D, layer) ==
    /\ stage = "booting"
    /\ \A d \in D : top[d] = "root" /\ \A f \in files : f.dir # d
    /\ layer = "overlay" => root = "ro"
    /\ top' = [d \in Dirs |-> IF d \in D THEN layer ELSE top[d]]
    /\ Writes("boot")
    /\ UNCHANGED <<stage, root, stay, asked, told, trusted, address>>

\* The drive is read, or there is none. The node is on the root it is to stay on.
Tell ==
    /\ stage = "booting"
    /\ root = "initramfs" => stay
    /\ stage' = "told"
    /\ trusted' \in BOOLEAN
    /\ told' \in {""} \cup IF trusted' THEN Addresses ELSE {}
    /\ Writes("drive")
    /\ UNCHANGED <<root, top, stay, asked, address>>

\* The drive's address wins over the command line's.
Connect ==
    /\ stage = "told"
    /\ stage' = "connected"
    /\ address' = IF told # "" THEN told ELSE asked
    /\ UNCHANGED <<root, top, files, stay, asked, told, trusted>>

\* What boot writes once there is a network: its resolver.
Note ==
    /\ stage = "connected"
    /\ Writes("boot")
    /\ UNCHANGED <<stage, root, top, stay, asked, told, trusted, address>>

\* The workload is started.
Serve ==
    /\ stage = "connected"
    /\ stage' = "up"
    /\ Writes("drive")
    /\ UNCHANGED <<root, top, stay, asked, told, trusted, address>>

\* PID1 gives up, and the machine with it. A node that has a network does not.
Fail ==
    /\ stage \in {"booting", "told"}
    /\ stage' = "failed"
    /\ UNCHANGED <<root, top, files, stay, asked, told, trusted, address>>

Next ==
    \/ SwitchRoot
    \/ \E D \in SUBSET Dirs, layer \in {"overlay", "data"} : Cover(D, layer)
    \/ Tell \/ Connect \/ Note \/ Serve \/ Fail

\* Every boot ends, or waits for ever where it has set no deadline.
Progress == <>(stage \in {"up", "failed"}) \/ <>[]waits

Spec == Init /\ [][Next]_vars /\ Progress
=============================================================================
