--------------------------- MODULE NodeLifecycle ---------------------------
(***************************************************************************)
(* What a k0smos node promises about being stopped, whatever PID1 does to  *)
(* keep the promise (docs/design/decisions.md, "Why etcd is left before    *)
(* anything is stopped" and "Why shutdown kills everything before touching *)
(* filesystems"): a request moves the node through its phases in order,    *)
(* the whole workload is killed before filesystems are touched and nothing *)
(* of it is started again, a mount is let go only after the mounts below   *)
(* it, and a node that was asked to stop does stop. Pid1 is shown to       *)
(* implement this specification. Killed is not yet dead: PID1 does not wait*)
(* for what it killed, so this module does not promise that it is gone.    *)
(***************************************************************************)
EXTENDS Sequences, Naturals

CONSTANT Mounts

VARIABLES phase, busy, pending

vars == <<phase, busy, pending>>

Init ==
    /\ phase = "up"
    /\ busy = FALSE
    /\ pending = {}

\* busy: a process of the workload runs that nobody has killed. They come and
\* go, and one may slip in while the workload is being stopped ...
Work ==
    /\ phase \in {"up", "leaving", "stopping"}
    /\ busy' \in BOOLEAN
    /\ UNCHANGED <<phase, pending>>

\* ... but all are killed before the first filesystem is touched, for good.
Kill ==
    /\ phase = "stopping"
    /\ phase' = "killed"
    /\ busy' = FALSE
    /\ UNCHANGED pending

Accept ==
    /\ phase = "up"
    /\ phase' = "leaving"
    /\ UNCHANGED <<busy, pending>>

Stop ==
    /\ phase = "leaving"
    /\ phase' = "stopping"
    /\ UNCHANGED <<busy, pending>>

\* The filesystems to let go are listed once.
BeginDetach ==
    /\ phase = "killed"
    /\ phase' = "detaching"
    /\ pending' \in SUBSET Mounts
    /\ UNCHANGED busy

IsUnder(q, p) == Len(p) < Len(q) /\ SubSeq(q, 1, Len(p)) = p

Detach(t) ==
    /\ phase = "detaching"
    /\ t \in pending
    /\ \A u \in pending : ~IsUnder(u, t)
    /\ pending' = pending \ {t}
    /\ UNCHANGED <<phase, busy>>

\* reboot(2): the machine is off or restarting.
Halt ==
    /\ phase = "detaching"
    /\ pending = {}
    /\ phase' = "halted"
    /\ UNCHANGED <<busy, pending>>

\* The node could not list what to detach, or the kernel refused to restart.
Fail ==
    /\ phase \in {"killed", "detaching"}
    /\ phase' = "failed"
    /\ UNCHANGED <<busy, pending>>

Next ==
    \/ Work \/ Accept \/ Stop \/ Kill \/ BeginDetach
    \/ \E t \in Mounts : Detach(t)
    \/ Halt \/ Fail

Progress ==
    Stop \/ Kill \/ BeginDetach \/ (\E t \in Mounts : Detach(t)) \/ Halt \/ Fail

Spec == Init /\ [][Next]_vars /\ WF_vars(Progress)
=============================================================================
