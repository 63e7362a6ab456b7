-------------------------------- MODULE Pid1 --------------------------------
(***************************************************************************)
(* A k0smos node from the moment PID1 supervises its workload to the moment*)
(* the machine is handed back to the kernel: the wait loop and the         *)
(* shutdown path at the end of boot (cmd/k0smos/init_linux.go), the        *)
(* supervisor (internal/supervise), the goroutines that feed the wait loop *)
(* (internal/control, internal/power, os/signal) and internal/shutdown.    *)
(*                                                                         *)
(* Goroutines are interleaved at every channel operation, context check,   *)
(* fork and wait. Timeouts may fire at any moment they are armed. Collecting*)
(* zombies is one step here; module Reaper opens that step up.             *)
(*                                                                         *)
(* boot's own ctx is context.Background(), so its ctx.Done() case and the  *)
(* two closed-channel cases of the wait loop are not reachable before      *)
(* stopChild (ListenersOpen below is what makes the closed-channel cases   *)
(* unreachable); they have no action.                                      *)
(***************************************************************************)
EXTENDS Naturals, Sequences, FiniteSets

CONSTANTS
    Orphans,      \* workload descendants that may end up as PID1's children
    Workloads,    \* the workloads the node may be told to run
    Mounts,       \* mount targets, a path as the sequence of its names
    BootMounts,   \* the ones mounted before the workload starts
    PseudoDirs,   \* names of isPseudo's list: proc, sys, dev, run, tmp
    FirstBackoff, \* supervise's first backoff, in units of it (200ms)
    MaxBackoff,   \* Options.MaxBackoff in the same unit
    MaxLines      \* bound: lines the host sends over the control port

ASSUME Pid1Assumptions ==
    /\ Orphans \cap {"child", "leave", "token"} = {}
    /\ Mounts \subseteq Seq(STRING)
    /\ BootMounts \subseteq Mounts
    /\ FirstBackoff \in Nat \ {0}
    /\ MaxBackoff \in Nat
    /\ FirstBackoff <= MaxBackoff
    /\ MaxLines \in Nat
    /\ Workloads \subseteq [k0s : BOOLEAN, cfgK0s : BOOLEAN,
                            role : {"controller", "worker", "none"}, single : BOOLEAN]
    /\ \A w \in Workloads : w.cfgK0s => w.k0s

Procs == {"child", "leave", "token"} \cup Orphans
ProcStates == {"none", "live", "dying", "zombie", "reaped"}

VARIABLES
    workload,  \* the command being supervised, and whether cfg.Exec, which
               \* user-data may have replaced by another k0s command, is k0s
    main,      \* where boot's goroutine is
    how,       \* the reboot(2) command it will issue
    runCtx,    \* "live" until stopChild cancels it
    proc,      \* "none", "live", "dying" once SIGKILL was sent and until it is
               \* dead, "zombie", or "reaped" before its waiter noticed
    sup,       \* where supervise.Run is
    backoff,   \* its next pause
    reaper,    \* "on" until the reaper goroutine sees the cancellation
    ctl,       \* where the control port goroutine is
    term,      \* a SIGTERM or SIGINT waits in the term channel
    button,    \* a power-button goroutine is blocked sending a press
    lines,     \* control port lines received so far
    mounted,   \* the mount table
    todo,      \* targets shutdown.Do has still to unmount
    asked      \* history: stop requests that reached one of the channels

mainVars == <<main, how, runCtx, mounted, todo>>
supVars == <<sup, backoff>>
ctlVars == <<ctl, lines>>
vars == <<workload, main, how, runCtx, proc, sup, backoff, reaper, ctl,
          term, button, lines, mounted, todo, asked>>

Commands == {"poweroff", "reboot"}
Requests == Commands \cup {"signal", "button"}
CtlIdle == [at |-> "idle", cmd |-> "poweroff"]
CtlStates == [at : {"idle", "fork", "wait", "send", "done"}, cmd : Commands]

ShutdownPhases == {"term", "kill", "mounts", "unmount", "remount", "reboot"}
DownPhases == {"off", "panic"}
\* The phases in which shutdown.Do may change a filesystem, and after them.
FsPhases == {"mounts", "unmount", "remount", "reboot", "off", "panic"}

TypeOK ==
    /\ workload \in Workloads
    /\ main \in {"wait", "leave", "leaving", "stop", "grace"} \cup ShutdownPhases \cup DownPhases
    /\ how \in Commands
    /\ runCtx \in {"live", "cancelled"}
    /\ proc \in [Procs -> ProcStates]
    /\ sup \in {"check", "start", "fork", "wait", "exited", "sleep", "done"}
    /\ backoff \in FirstBackoff .. MaxBackoff
    /\ reaper \in {"on", "off"}
    /\ ctl \in CtlStates
    /\ term \in BOOLEAN
    /\ button \in BOOLEAN
    /\ lines \in 0 .. MaxLines
    /\ mounted \subseteq Mounts
    /\ todo \subseteq Mounts
    /\ asked \subseteq Requests

Init ==
    /\ workload \in Workloads
    /\ main = "wait"
    /\ how = "poweroff"
    /\ runCtx = "live"
    /\ proc = [p \in Procs |-> "none"]
    /\ sup = "check"
    /\ backoff = FirstBackoff
    /\ reaper = "on"
    /\ ctl = CtlIdle
    /\ term = FALSE
    /\ button = FALSE
    /\ lines = 0
    /\ mounted = BootMounts
    /\ todo = {}
    /\ asked = {}

-----------------------------------------------------------------------------
(* The kernel and the workload's own processes.                            *)

Ended(p) == proc[p] \in {"zombie", "reaped"}
Alive(p) == proc[p] \in {"live", "dying"}

\* A process of the workload runs and no SIGKILL was sent to it.
Busy == \E p \in {"child"} \cup Orphans : proc[p] = "live"

\* SIGKILL is sent here and takes effect later: the sender does not wait, and
\* the receiver may first finish the system call it is in.
Kill(ps) == [p \in Procs |-> IF p \in ps /\ proc[p] = "live" THEN "dying" ELSE proc[p]]

\* Any process may end by itself, and one that was killed does (see Fairness).
Exit(p) ==
    /\ Alive(p)
    /\ proc' = [proc EXCEPT ![p] = "zombie"]
    /\ UNCHANGED <<workload, mainVars, supVars, reaper, ctlVars, term, button, asked>>

\* The workload forks: a shim, a pod. A process with SIGKILL pending cannot:
\* fork(2) starts over instead of making the child.
Fork(o) ==
    /\ Busy
    /\ proc[o] = "none"
    /\ proc' = [proc EXCEPT ![o] = "live"]
    /\ UNCHANGED <<workload, mainVars, supVars, reaper, ctlVars, term, button, asked>>

\* The workload mounts a volume or a container root; a mount(2) under way when
\* SIGKILL comes may still complete.
WorkloadMount(m) ==
    /\ \E p \in {"child"} \cup Orphans : Alive(p)
    /\ m \in Mounts \ mounted
    /\ mounted' = mounted \cup {m}
    /\ UNCHANGED <<workload, main, how, runCtx, todo, proc, supVars, reaper,
                   ctlVars, term, button, asked>>

\* The reaper collects a zombie. A process someone waits for is left
\* "reaped": its cmd.Wait will fail with ECHILD.
Reap(p) ==
    /\ reaper = "on"
    /\ proc[p] = "zombie"
    /\ proc' = [proc EXCEPT ![p] = IF p \in Orphans THEN "none" ELSE "reaped"]
    /\ UNCHANGED <<workload, mainVars, supVars, reaper, ctlVars, term, button, asked>>

ReaperStop ==
    /\ reaper = "on"
    /\ runCtx = "cancelled"
    /\ reaper' = "off"
    /\ UNCHANGED <<workload, mainVars, proc, supVars, ctlVars, term, button, asked>>

-----------------------------------------------------------------------------
(* supervise.Run.                                                          *)

\* The check at the top of the loop.
SupCheck ==
    /\ sup = "check"
    /\ sup' = IF runCtx = "cancelled" THEN "done" ELSE "start"
    /\ UNCHANGED <<workload, mainVars, proc, backoff, reaper, ctlVars,
                   term, button, asked>>

\* cmd.Start looks at the context ...
SupLook ==
    /\ sup = "start"
    /\ runCtx = "live"
    /\ sup' = "fork"
    /\ UNCHANGED <<workload, mainVars, proc, backoff, reaper, ctlVars,
                   term, button, asked>>

\* ... and forks, whatever became of the context in between.
SupFork ==
    /\ sup = "fork"
    /\ proc' = [proc EXCEPT !["child"] = "live"]
    /\ sup' = "wait"
    /\ UNCHANGED <<workload, mainVars, backoff, reaper, ctlVars, term, button, asked>>

\* The context is done, or the binary could not be found or executed.
SupStartFails ==
    /\ sup \in {"start", "fork"}
    /\ sup' = "exited"
    /\ UNCHANGED <<workload, mainVars, proc, backoff, reaper, ctlVars,
                   term, button, asked>>

\* cmd.Wait returns, with the exit status or with ECHILD; OnExit runs.
SupWait ==
    /\ sup = "wait"
    /\ Ended("child")
    /\ proc' = [proc EXCEPT !["child"] = "none"]
    /\ sup' = "exited"
    /\ UNCHANGED <<workload, mainVars, backoff, reaper, ctlVars, term, button, asked>>

\* os/exec's watcher kills the process when the context is cancelled, also one
\* that was forked after that.
CtxKill ==
    /\ runCtx = "cancelled"
    /\ sup = "wait"
    /\ proc["child"] = "live"
    /\ proc' = Kill({"child"})
    /\ UNCHANGED <<workload, mainVars, sup, backoff, reaper, ctlVars, term, button, asked>>

\* Faulty variant of SupExited: an exit ends the supervision.
SupExitedForGood ==
    /\ sup = "exited"
    /\ sup' = "done"
    /\ UNCHANGED <<workload, mainVars, proc, backoff, reaper, ctlVars,
                   term, button, asked>>

SupExited ==
    /\ sup = "exited"
    /\ sup' = IF runCtx = "cancelled" THEN "done" ELSE "sleep"
    /\ UNCHANGED <<workload, mainVars, proc, backoff, reaper, ctlVars,
                   term, button, asked>>

\* The pause does not look at the context.
SupSleep ==
    /\ sup = "sleep"
    /\ backoff' = IF 2 * backoff > MaxBackoff THEN MaxBackoff ELSE 2 * backoff
    /\ sup' = "check"
    /\ UNCHANGED <<workload, mainVars, proc, reaper, ctlVars, term, button, asked>>

-----------------------------------------------------------------------------
(* What feeds the wait loop.                                               *)

\* SIGTERM or SIGINT arrives; a full channel drops it.
Signal ==
    /\ ~term
    /\ term' = TRUE
    /\ asked' = asked \cup {"signal"}
    /\ UNCHANGED <<workload, mainVars, proc, supVars, reaper, ctlVars, button>>

\* A press reaches a power-button goroutine, which blocks sending it.
Press ==
    /\ runCtx = "live"
    /\ ~button
    /\ button' = TRUE
    /\ asked' = asked \cup {"button"}
    /\ UNCHANGED <<workload, mainVars, proc, supVars, reaper, ctlVars, term>>

\* The host sends a power command. It is acknowledged before PID1 has it.
CtlPower(c) ==
    /\ ctl.at = "idle"
    /\ lines < MaxLines
    /\ lines' = lines + 1
    /\ ctl' = [at |-> "send", cmd |-> c]
    /\ asked' = asked \cup {c}
    /\ UNCHANGED <<workload, mainVars, proc, supVars, reaper, term, button>>

\* The host asks for a join token. createJoinToken refuses unless cfg.Exec is
\* k0s; watchEvents may deliver the line even after the context is cancelled,
\* because its select picks either ready case.
CtlToken ==
    /\ ctl.at = "idle"
    /\ lines < MaxLines
    /\ lines' = lines + 1
    /\ ctl' = IF workload.cfgK0s THEN [ctl EXCEPT !.at = "fork"] ELSE ctl
    /\ UNCHANGED <<workload, mainVars, proc, supVars, reaper, term, button, asked>>

\* `k0s token create` is started under a context of its own.
CtlFork ==
    /\ ctl.at = "fork"
    /\ \/ /\ proc' = [proc EXCEPT !["token"] = "live"]
          /\ ctl' = [ctl EXCEPT !.at = "wait"]
       \/ /\ ctl' = CtlIdle
          /\ UNCHANGED proc
    /\ UNCHANGED <<workload, mainVars, supVars, reaper, lines, term, button, asked>>

\* tokenTimeout kills it.
CtlTimeout ==
    /\ ctl.at = "wait"
    /\ proc["token"] = "live"
    /\ proc' = Kill({"token"})
    /\ UNCHANGED <<workload, mainVars, supVars, reaper, ctlVars, term, button, asked>>

CtlReply ==
    /\ ctl.at = "wait"
    /\ Ended("token")
    /\ proc' = [proc EXCEPT !["token"] = "none"]
    /\ ctl' = CtlIdle
    /\ UNCHANGED <<workload, mainVars, supVars, reaper, lines, term, button, asked>>

\* The goroutine gives up a blocked send, or ends, once the context is done.
CtlEnd ==
    /\ ctl.at \in {"idle", "send"}
    /\ runCtx = "cancelled"
    /\ ctl' = [ctl EXCEPT !.at = "done"]
    /\ UNCHANGED <<workload, mainVars, proc, supVars, reaper, lines, term, button, asked>>

-----------------------------------------------------------------------------
(* boot's goroutine: the wait loop.                                        *)

TakeSignal ==
    /\ main = "wait"
    /\ term
    /\ term' = FALSE
    /\ main' = "leave"
    /\ UNCHANGED <<workload, how, runCtx, mounted, todo, proc, supVars, reaper,
                   ctlVars, button, asked>>

\* Faulty variant of TakeHostCmd: every host command powers off.
TakeHostCmdPowerOff ==
    /\ main = "wait"
    /\ ctl.at = "send"
    /\ main' = "leave"
    /\ ctl' = CtlIdle
    /\ UNCHANGED <<workload, how, runCtx, mounted, todo, proc, supVars, reaper,
                   lines, term, button, asked>>

TakeHostCmd ==
    /\ main = "wait"
    /\ ctl.at = "send"
    /\ how' = IF ctl.cmd = "reboot" THEN "reboot" ELSE how
    /\ main' = "leave"
    /\ ctl' = CtlIdle
    /\ UNCHANGED <<workload, runCtx, mounted, todo, proc, supVars, reaper,
                   lines, term, button, asked>>

TakeButton ==
    /\ main = "wait"
    /\ button
    /\ button' = FALSE
    /\ main' = "leave"
    /\ UNCHANGED <<workload, how, runCtx, mounted, todo, proc, supVars, reaper,
                   ctlVars, term, asked>>

-----------------------------------------------------------------------------
(* Leaving etcd and stopping the workload.                                 *)

\* etcd.LeaveCmd is nil for anything but a k0s controller without --single.
LeaveCmd(w) == w.k0s /\ w.role = "controller" /\ ~w.single

\* Faulty variant of LeaveEtcd: the command is started and not waited for.
LeaveEtcdAsync ==
    /\ main = "leave"
    /\ LeaveCmd(workload)
    /\ proc' = [proc EXCEPT !["leave"] = "live"]
    /\ main' = "stop"
    /\ UNCHANGED <<workload, how, runCtx, mounted, todo, supVars, reaper, ctlVars,
                   term, button, asked>>

\* The command is started, or there is none, or it cannot be executed.
LeaveEtcd ==
    /\ main = "leave"
    /\ \/ /\ LeaveCmd(workload)
          /\ proc' = [proc EXCEPT !["leave"] = "live"]
          /\ main' = "leaving"
       \/ /\ main' = "stop"
          /\ UNCHANGED proc
    /\ UNCHANGED <<workload, how, runCtx, mounted, todo, supVars, reaper, ctlVars,
                   term, button, asked>>

\* Faulty variant of LeaveTimeout: a leave that may take for ever.
LeaveTimeoutNever == main = "leaving" /\ FALSE /\ UNCHANGED vars

\* etcdLeaveTimeout kills the command.
LeaveTimeout ==
    /\ main = "leaving"
    /\ proc["leave"] = "live"
    /\ proc' = Kill({"leave"})
    /\ UNCHANGED <<workload, mainVars, supVars, reaper, ctlVars, term, button, asked>>

LeaveDone ==
    /\ main = "leaving"
    /\ Ended("leave")
    /\ proc' = [proc EXCEPT !["leave"] = "none"]
    /\ main' = "stop"
    /\ UNCHANGED <<workload, how, runCtx, mounted, todo, supVars, reaper, ctlVars,
                   term, button, asked>>

\* stopChild cancels runCtx, which also releases the power-button goroutines.
StopChild ==
    /\ main = "stop"
    /\ runCtx' = "cancelled"
    /\ button' = FALSE
    /\ main' = "grace"
    /\ UNCHANGED <<workload, how, mounted, todo, proc, supVars, reaper, ctlVars, term, asked>>

\* childDone was closed, or childGrace ran out.
ChildDone ==
    /\ main = "grace"
    /\ sup = "done"
    /\ main' = "term"
    /\ UNCHANGED <<workload, how, runCtx, mounted, todo, proc, supVars, reaper,
                   ctlVars, term, button, asked>>

ChildGraceOver ==
    /\ main = "grace"
    /\ main' = "term"
    /\ UNCHANGED <<workload, how, runCtx, mounted, todo, proc, supVars, reaper,
                   ctlVars, term, button, asked>>

-----------------------------------------------------------------------------
(* shutdown.Do.                                                            *)

IsUnder(q, p) == Len(p) < Len(q) /\ SubSeq(q, 1, Len(p)) = p

isPseudo(t) == t # << >> /\ Head(t) \in PseudoDirs

\* unmountOrder drops "/" and the pseudo-filesystems ...
Unmountable(targets) == {t \in targets : t # << >> /\ ~isPseudo(t)}

\* Faulty variant of Deepest: parents first.
Shallowest(t, targets) == \A u \in targets : Len(u) >= Len(t)

\* ... and puts the rest deepest first; which of several equally deep targets
\* comes first does not matter here.
Deepest(t, targets) == \A u \in targets : Len(u) <= Len(t)

\* kill(-1, SIGTERM): what has a handler may run on; Exit lets anything end.
KillAllTerm ==
    /\ main = "term"
    /\ main' = "kill"
    /\ UNCHANGED <<workload, how, runCtx, mounted, todo, proc, sup, backoff,
                   reaper, ctlVars, term, button, asked>>

\* Faulty variant of KillAllKill: what survived SIGTERM is left alone.
KillAllTermOnly ==
    /\ main = "kill"
    /\ main' = "mounts"
    /\ UNCHANGED <<workload, how, runCtx, mounted, todo, proc, supVars, reaper,
                   ctlVars, term, button, asked>>

\* kill(-1, SIGKILL), after termGrace. Its error, ESRCH when there is nobody to
\* kill, is ignored, and nothing is waited for. Timing assumption: cmd.Start
\* goes from its look at the context to the fork within termGrace (5s).
KillAllKill ==
    /\ main = "kill"
    /\ sup # "fork"
    /\ proc' = Kill(Procs)
    /\ main' = "mounts"
    /\ UNCHANGED <<workload, how, runCtx, mounted, todo, sup, backoff, reaper,
                   ctlVars, term, button, asked>>

\* Sync, then the mount table is read; if it cannot be, Do returns the error
\* and main panics.
ReadMounts ==
    /\ main = "mounts"
    /\ \/ /\ todo' = Unmountable(mounted)
          /\ main' = "unmount"
       \/ /\ main' = "panic"
          /\ UNCHANGED todo
    /\ UNCHANGED <<workload, how, runCtx, mounted, proc, supVars, reaper, ctlVars,
                   term, button, asked>>

\* Unmounting is lazy and best-effort.
Unmount(t) ==
    /\ main = "unmount"
    /\ t \in todo
    /\ Deepest(t, todo)
    /\ todo' = todo \ {t}
    /\ mounted' \in {mounted, mounted \ {t}}
    /\ UNCHANGED <<workload, main, how, runCtx, proc, supVars, reaper, ctlVars,
                   term, button, asked>>

UnmountDone ==
    /\ main = "unmount"
    /\ todo = {}
    /\ main' = "remount"
    /\ UNCHANGED <<workload, how, runCtx, mounted, todo, proc, supVars, reaper,
                   ctlVars, term, button, asked>>

\* Sync and the read-only remount of "/", whose error is ignored.
RemountRoot ==
    /\ main = "remount"
    /\ main' = "reboot"
    /\ UNCHANGED <<workload, how, runCtx, mounted, todo, proc, supVars, reaper,
                   ctlVars, term, button, asked>>

\* reboot(2) does not return unless it fails, and then main panics.
Reboot ==
    /\ main = "reboot"
    /\ main' \in {"off", "panic"}
    /\ UNCHANGED <<workload, how, runCtx, mounted, todo, proc, supVars, reaper,
                   ctlVars, term, button, asked>>

-----------------------------------------------------------------------------
Supervisor ==
    SupCheck \/ SupLook \/ SupFork \/ SupStartFails \/ SupWait \/ SupExited \/ SupSleep

Control ==
    \/ \E c \in Commands : CtlPower(c)
    \/ CtlToken \/ CtlFork \/ CtlTimeout \/ CtlReply \/ CtlEnd

WaitLoop == TakeSignal \/ TakeHostCmd \/ TakeButton

LeavePath == LeaveEtcd \/ LeaveTimeout \/ LeaveDone

StopPath == StopChild \/ ChildDone \/ ChildGraceOver

Do ==
    \/ KillAllTerm \/ KillAllKill \/ ReadMounts
    \/ \E t \in Mounts : Unmount(t)
    \/ UnmountDone \/ RemountRoot \/ Reboot

Kernel ==
    \/ \E p \in Procs : Exit(p) \/ Reap(p)
    \/ \E o \in Orphans : Fork(o)
    \/ \E m \in Mounts : WorkloadMount(m)
    \/ ReaperStop \/ CtxKill

\* Once the machine is off, or the kernel has panicked, nothing runs.
Down == main \in DownPhases /\ UNCHANGED vars

Next ==
    \/ /\ main \notin DownPhases
       /\ \/ Kernel \/ Supervisor \/ Control \/ Signal \/ Press
          \/ WaitLoop \/ LeavePath \/ StopPath \/ Do
    \/ Down

(***************************************************************************)
(* Fairness: PID1's goroutines are scheduled, its timers fire, and a       *)
(* process that was sent SIGKILL dies (cmd.Wait has no WaitDelay here, so  *)
(* boot would wait for a `k0s etcd leave` that cannot). It is not assumed  *)
(* that the host ever sends anything, that a process exits by itself, or   *)
(* that the reaper wins a race.                                            *)
(***************************************************************************)
Fairness ==
    /\ WF_vars(main \notin DownPhases /\ Supervisor)
    /\ WF_vars(main \notin DownPhases /\ (WaitLoop \/ LeavePath \/ StopPath \/ Do))
    /\ WF_vars(main \notin DownPhases /\ (CtlFork \/ CtlTimeout \/ CtlReply))
    /\ \A p \in Procs : WF_vars(main \notin DownPhases /\ proc[p] = "dying" /\ Exit(p))

Spec == Init /\ [][Next]_vars /\ Fairness

-----------------------------------------------------------------------------
(* Safety.                                                                 *)

\* When shutdown.Do goes near the filesystems, everything of the workload and
\* any `k0s etcd leave` has been sent SIGKILL, and nothing of it is started from
\* then on, however the workload forked, crashed, or was being restarted when
\* the stop came. That the killed ones are dead by then is not claimed: QuietFs.
KilledBeforeFs == main \in FsPhases => ~Busy /\ proc["leave"] # "live"

\* What shutdown.go says of the same moment: "Everything must be gone before the
\* filesystems are touched". The code does not keep this: Do does not wait after
\* SIGKILL, and the control port may even start another `k0s token create`.
QuietFs == main \in FsPhases => \A p \in Procs : ~Alive(p)

\* The etcd membership is given up while PID1 still keeps the workload running:
\* the leave command never overlaps the cancelled context (init_linux.go: "it
\* cannot leave once it has been stopped").
LeaveFirst == proc["leave"] # "none" => runCtx = "live" /\ main = "leaving"

\* The machine restarts only if the host asked for a restart, and if nothing
\* but a restart was ever asked for it does not power off.
PowerAsAsked ==
    main \notin {"wait"} =>
        /\ how = "reboot" => "reboot" \in asked
        /\ asked = {"reboot"} => how = "reboot"

\* PID1 never leaves the wait loop without having been asked: a channel that
\* ends while it waits would look like a request, and none of them can end.
ListenersOpen ==
    /\ main = "wait" => ctl.at # "done" /\ runCtx = "live"
    /\ main # "wait" => asked # {}

-----------------------------------------------------------------------------
(* Liveness.                                                               *)

\* A stop request that reached PID1 ends with reboot(2) issued (or the panic
\* that follows when the mount table or reboot(2) fails), whatever the
\* workload, etcd and the control port are doing.
StopsWhenAsked == asked # {} ~> main \in DownPhases

\* A workload that ended is always started again until the node is stopped.
Restarted == sup = "exited" ~> sup = "start" \/ runCtx = "cancelled"

-----------------------------------------------------------------------------
(* Pid1 implements NodeLifecycle.                                          *)

phaseBar ==
    CASE main = "wait" -> "up"
      [] main \in {"leave", "leaving", "stop"} -> "leaving"
      [] main \in {"grace", "term", "kill"} -> "stopping"
      [] main = "mounts" -> "killed"
      [] main \in {"unmount", "remount", "reboot"} -> "detaching"
      [] main = "off" -> "halted"
      [] main = "panic" -> "failed"

Life == INSTANCE NodeLifecycle WITH phase <- phaseBar, busy <- Busy, pending <- todo

\* The node keeps the lifecycle docs/design/decisions.md describes.
LifeSpec == Life!Spec
=============================================================================
