------------------------------- MODULE Reaper -------------------------------
(***************************************************************************)
(* How PID1 collects exited processes: the SIGCHLD path of                 *)
(* cmd/k0smos/init_linux.go (signal.Notify on a one-slot channel), the     *)
(* pump goroutine of cmd/k0smos/main.go, the reaper goroutine of           *)
(* internal/reaper, and the cmd.Wait calls of os/exec (the supervised      *)
(* workload, `k0s etcd leave`, `k0s token create`) that race the reaper    *)
(* for the same processes.                                                 *)
(*                                                                         *)
(* Processes PID1 started itself are Kids: a goroutine is parked in        *)
(* cmd.Wait for each. Orphans are processes the kernel re-parented to PID1,*)
(* which only the reaper will ever collect.                                *)
(***************************************************************************)
EXTENDS Naturals

CONSTANTS Kids, Orphans

ASSUME DisjointProcs == Kids \cap Orphans = {}

Procs == Kids \cup Orphans

VARIABLES
    status,   \* status[p]: "none", "live" or "zombie", the kernel's view
    waiter,   \* waiter[k]: what k's cmd.Wait is doing or returned last
    sigchld,  \* SIGCHLD is pending in the kernel (it coalesces)
    chld,     \* the signal channel's one slot is occupied
    pump,     \* "recv" or "send"
    trigger,  \* the trigger channel's one slot is occupied
    reaper,   \* "select", "drain" or "done"
    ctxDone   \* runCtx has been cancelled by stopChild

reaperVars == <<status, waiter, sigchld, chld, pump, trigger, reaper, ctxDone>>

ReaperTypeOK ==
    /\ status \in [Procs -> {"none", "live", "zombie"}]
    /\ waiter \in [Kids -> {"idle", "waiting", "exited", "echild"}]
    /\ sigchld \in BOOLEAN
    /\ chld \in BOOLEAN
    /\ pump \in {"recv", "send"}
    /\ trigger \in BOOLEAN
    /\ reaper \in {"select", "drain", "done"}
    /\ ctxDone \in BOOLEAN

ReaperInit ==
    /\ status = [p \in Procs |-> "none"]
    /\ waiter = [k \in Kids |-> "idle"]
    /\ sigchld = FALSE
    /\ chld = FALSE
    /\ pump = "recv"
    /\ trigger = FALSE
    /\ reaper = "select"
    /\ ctxDone = FALSE

-----------------------------------------------------------------------------
(* The kernel.                                                             *)

\* A process ends: it becomes a zombie and SIGCHLD is raised in one step.
Exit(p) ==
    /\ status[p] = "live"
    /\ status' = [status EXCEPT ![p] = "zombie"]
    /\ sigchld' = TRUE
    /\ UNCHANGED <<waiter, chld, pump, trigger, reaper, ctxDone>>

\* A process loses its parent and becomes PID1's to collect.
Adopt(o) ==
    /\ status[o] = "none"
    /\ status' = [status EXCEPT ![o] = "live"]
    /\ UNCHANGED <<waiter, sigchld, chld, pump, trigger, reaper, ctxDone>>

\* os/signal hands a pending signal to the channel without blocking: a full
\* channel drops it.
Notify ==
    /\ sigchld
    /\ sigchld' = FALSE
    /\ chld' = TRUE
    /\ UNCHANGED <<status, waiter, pump, trigger, reaper, ctxDone>>

-----------------------------------------------------------------------------
(* os/exec: Start, and the two ways Wait returns.                          *)

CmdStart(k) ==
    /\ waiter[k] # "waiting"
    /\ status' = [status EXCEPT ![k] = "live"]
    /\ waiter' = [waiter EXCEPT ![k] = "waiting"]
    /\ UNCHANGED <<sigchld, chld, pump, trigger, reaper, ctxDone>>

\* Wait collects the zombie itself and learns the exit status.
CmdWait(k) ==
    /\ waiter[k] = "waiting"
    /\ status[k] = "zombie"
    /\ status' = [status EXCEPT ![k] = "none"]
    /\ waiter' = [waiter EXCEPT ![k] = "exited"]
    /\ UNCHANGED <<sigchld, chld, pump, trigger, reaper, ctxDone>>

\* Faulty variant of CmdWaitECHILD: a Wait is interrupted while its process lives.
CmdWaitInterrupted(k) ==
    /\ waiter[k] = "waiting"
    /\ waiter' = [waiter EXCEPT ![k] = "echild"]
    /\ UNCHANGED <<status, sigchld, chld, pump, trigger, reaper, ctxDone>>

\* The reaper was first: Wait fails with ECHILD and the status is lost.
CmdWaitECHILD(k) ==
    /\ waiter[k] = "waiting"
    /\ status[k] = "none"
    /\ waiter' = [waiter EXCEPT ![k] = "echild"]
    /\ UNCHANGED <<status, sigchld, chld, pump, trigger, reaper, ctxDone>>

-----------------------------------------------------------------------------
(* The pump goroutine.                                                     *)

PumpRecv ==
    /\ pump = "recv"
    /\ chld
    /\ chld' = FALSE
    /\ pump' = "send"
    /\ UNCHANGED <<status, waiter, sigchld, trigger, reaper, ctxDone>>

\* select with a default: a trigger that is already full stands for this one.
PumpSend ==
    /\ pump = "send"
    /\ trigger' = TRUE
    /\ pump' = "recv"
    /\ UNCHANGED <<status, waiter, sigchld, chld, reaper, ctxDone>>

-----------------------------------------------------------------------------
(* The reaper goroutine.                                                   *)

ReaperWake ==
    /\ reaper = "select"
    /\ trigger
    /\ trigger' = FALSE
    /\ reaper' = "drain"
    /\ UNCHANGED <<status, waiter, sigchld, chld, pump, ctxDone>>

\* Faulty variant of Reap: one wait4 per trigger instead of a drain.
ReapOnce(p) ==
    /\ reaper = "drain"
    /\ status[p] = "zombie"
    /\ status' = [status EXCEPT ![p] = "none"]
    /\ reaper' = "select"
    /\ UNCHANGED <<waiter, sigchld, chld, pump, trigger, ctxDone>>

\* wait4(-1, WNOHANG) returns some zombie.
Reap(p) ==
    /\ reaper = "drain"
    /\ status[p] = "zombie"
    /\ status' = [status EXCEPT ![p] = "none"]
    /\ UNCHANGED <<waiter, sigchld, chld, pump, trigger, reaper, ctxDone>>

\* Faulty variant of DrainEnd: a drain collects what it likes and returns.
DrainEndEarly ==
    /\ reaper = "drain"
    /\ reaper' = "select"
    /\ UNCHANGED <<status, waiter, sigchld, chld, pump, trigger, ctxDone>>

\* wait4 reports no child ready, or none at all (ECHILD).
DrainEnd ==
    /\ reaper = "drain"
    /\ \A p \in Procs : status[p] # "zombie"
    /\ reaper' = "select"
    /\ UNCHANGED <<status, waiter, sigchld, chld, pump, trigger, ctxDone>>

ReaperStop ==
    /\ reaper = "select"
    /\ ctxDone
    /\ reaper' = "done"
    /\ UNCHANGED <<status, waiter, sigchld, chld, pump, trigger, ctxDone>>

\* boot calls stopChild on the way down.
CancelRun ==
    /\ ~ctxDone
    /\ ctxDone' = TRUE
    /\ UNCHANGED <<status, waiter, sigchld, chld, pump, trigger, reaper>>

-----------------------------------------------------------------------------
ReaperNext ==
    \/ \E p \in Procs : Exit(p) \/ Reap(p)
    \/ \E o \in Orphans : Adopt(o)
    \/ \E k \in Kids : CmdStart(k) \/ CmdWait(k) \/ CmdWaitECHILD(k)
    \/ Notify \/ PumpRecv \/ PumpSend
    \/ ReaperWake \/ DrainEnd \/ ReaperStop
    \/ CancelRun

(***************************************************************************)
(* Fairness: a runnable goroutine is eventually scheduled, a pending signal*)
(* is eventually delivered, and an exited child wakes its waiter. wait4(-1)*)
(* scans the kernel's list of children from its head and new children go to*)
(* its tail, so a drain cannot pass one zombie over for ever: Reap is fair *)
(* for each process. Nothing obliges a process to exit, to be adopted or   *)
(* started, or the machine to be stopped.                                  *)
(***************************************************************************)
ReaperFairness ==
    /\ WF_reaperVars(Notify)
    /\ WF_reaperVars(PumpRecv \/ PumpSend)
    /\ WF_reaperVars(ReaperWake \/ DrainEnd)
    /\ \A p \in Procs : WF_reaperVars(Reap(p))
    /\ \A k \in Kids : WF_reaperVars(CmdWait(k) \/ CmdWaitECHILD(k))

ReaperSpec == ReaperInit /\ [][ReaperNext]_reaperVars /\ ReaperFairness

-----------------------------------------------------------------------------
(* Properties.                                                             *)

\* The claim behind pump's coalescing (main.go: "Several signals collapsing
\* into one trigger is correct"): as long as a zombie exists and the reaper
\* has not been stopped, a wakeup for it is still somewhere on its way.
Wakeup == sigchld \/ chld \/ pump = "send" \/ trigger \/ reaper = "drain"

NoLostWakeup ==
    (\E p \in Procs : status[p] = "zombie") => Wakeup \/ reaper = "done"

\* When cmd.Wait has returned, with a status or with ECHILD, the process it
\* waited for is gone from the process table: supervise can start the next
\* workload without ever running two, though it never checks.
WaitedFor ==
    \A k \in Kids : waiter[k] # "waiting" => status[k] = "none"

\* Every orphan that dies while PID1 runs the node is collected: zombies do
\* not accumulate until shutdown stops the reaper.
ZombiesReaped ==
    \A o \in Orphans : status[o] = "zombie" ~> status[o] = "none" \/ ctxDone

=============================================================================
