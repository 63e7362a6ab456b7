----------------------------- MODULE Pid1_proofs -----------------------------
(***************************************************************************)
(* Proofs about Pid1 for every set of orphans, workloads and mounts, every *)
(* backoff and every number of control port lines.                         *)
(***************************************************************************)
EXTENDS Pid1, TLAPS

\* The context is cancelled exactly from stopChild on.
CtxFollowsMain ==
    runCtx = "cancelled" <=> main \in {"grace"} \cup ShutdownPhases \cup DownPhases

\* Every request that waits in a channel is one that was made.
ChannelsHoldAsked ==
    /\ term => "signal" \in asked
    /\ button => "button" \in asked
    /\ ctl.at = "send" => ctl.cmd \in asked
    /\ how = "reboot" => "reboot" \in asked

\* Do goes on to remount "/" only when it has worked off its list.
ListDone == main \in {"remount", "reboot", "off"} => todo = {}

\* No supervisor is between its look at the context and its fork once
\* everything was killed: SIGKILL comes termGrace later, and by then the context
\* it looks at is cancelled.
NoForkPending == main \in FsPhases => sup # "fork"

\* The inductive invariant: none of the safety properties is inductive by
\* itself. KilledBeforeFs needs NoForkPending, which needs to know that the
\* context is cancelled while Do runs; PowerAsAsked needs that a channel holds
\* only what was asked for.
IInv ==
    /\ TypeOK
    /\ CtxFollowsMain
    /\ ChannelsHoldAsked
    /\ ListDone
    /\ NoForkPending
    /\ KilledBeforeFs
    /\ LeaveFirst
    /\ PowerAsAsked
    /\ ListenersOpen

\* The state in which boot starts waiting is well typed.
LEMMA TypeInit == Init => TypeOK
<1> SUFFICES ASSUME Init PROVE TypeOK
  OBVIOUS
<1>1. term \in BOOLEAN /\ button \in BOOLEAN
  BY DEF Init
<1>2. ctl \in CtlStates
  BY DEF Init, CtlStates, CtlIdle, Commands
<1>3. backoff \in FirstBackoff .. MaxBackoff /\ lines \in 0 .. MaxLines
  BY Pid1Assumptions DEF Init
<1>4. mounted \subseteq Mounts
  BY Pid1Assumptions DEF Init
<1>5. proc \in [Procs -> ProcStates]
  BY DEF Init, ProcStates
<1> QED
  BY <1>1, <1>2, <1>3, <1>4, <1>5 DEF Init, TypeOK, Commands

\* Killing makes some of the processes that live dying ones.
LEMMA KillLemma ==
  ASSUME NEW ps, proc \in [Procs -> ProcStates]
  PROVE  /\ Kill(ps) \in [Procs -> ProcStates]
         /\ \A p \in Procs : /\ Kill(ps)[p] = "live" => proc[p] = "live" /\ p \notin ps
                             /\ p \notin ps => Kill(ps)[p] = proc[p]
                             /\ Kill(ps)[p] = "none" <=> proc[p] = "none"
  BY DEF Kill, ProcStates

\* Every step of the processes, the supervisor, the listeners, the wait loop and
\* the shutdown keeps the types, the bounds of the backoff included.
LEMMA TypeStep == TypeOK /\ [Next]_vars => TypeOK'
<1> SUFFICES ASSUME TypeOK, [Next]_vars PROVE TypeOK'
  OBVIOUS
<1> USE Pid1Assumptions DEF TypeOK, CtlStates, CtlIdle, Commands, Requests,
        ShutdownPhases, DownPhases, ProcStates
<1>a. {"child", "leave", "token"} \subseteq Procs /\ Orphans \subseteq Procs
  BY DEF Procs
<1>1. CASE UNCHANGED vars
  BY <1>1 DEF vars
<1>2. CASE Kernel
  <2>1. ASSUME NEW p \in Procs, Exit(p) PROVE TypeOK'
    BY <2>1 DEF Exit, mainVars, supVars, ctlVars
  <2>2. ASSUME NEW p \in Procs, Reap(p) PROVE TypeOK'
    BY <2>2 DEF Reap, mainVars, supVars, ctlVars
  <2>3. ASSUME NEW o \in Orphans, Fork(o) PROVE TypeOK'
    BY <2>3, <1>a DEF Fork, mainVars, supVars, ctlVars
  <2>4. ASSUME NEW m \in Mounts, WorkloadMount(m) PROVE TypeOK'
    BY <2>4 DEF WorkloadMount, supVars, ctlVars
  <2>5. CASE ReaperStop
    BY <2>5 DEF ReaperStop, mainVars, supVars, ctlVars
  <2>6. CASE CtxKill
    BY <2>6, KillLemma DEF CtxKill, mainVars, ctlVars
  <2> QED BY <1>2, <2>1, <2>2, <2>3, <2>4, <2>5, <2>6 DEF Kernel
<1>3. CASE Supervisor
  <2>1. CASE SupCheck
    BY <2>1 DEF SupCheck, mainVars, ctlVars
  <2>2. CASE SupLook
    BY <2>2 DEF SupLook, mainVars, ctlVars
  <2>7. CASE SupFork
    BY <2>7, <1>a DEF SupFork, mainVars, ctlVars
  <2>3. CASE SupStartFails
    BY <2>3 DEF SupStartFails, mainVars, ctlVars
  <2>4. CASE SupWait
    BY <2>4, <1>a DEF SupWait, mainVars, ctlVars
  <2>5. CASE SupExited
    BY <2>5 DEF SupExited, mainVars, ctlVars
  <2>6. CASE SupSleep
    BY <2>6 DEF SupSleep, mainVars, ctlVars
  <2> QED BY <1>3, <2>1, <2>2, <2>3, <2>4, <2>5, <2>6, <2>7 DEF Supervisor
<1>4. CASE Control
  <2>1. ASSUME NEW c \in Commands, CtlPower(c) PROVE TypeOK'
    BY <2>1 DEF CtlPower, mainVars, supVars
  <2>2. CASE CtlToken
    BY <2>2 DEF CtlToken, mainVars, supVars
  <2>3. CASE CtlFork
    BY <2>3, <1>a DEF CtlFork, mainVars, supVars
  <2>4. CASE CtlTimeout
    BY <2>4, KillLemma DEF CtlTimeout, mainVars, supVars, ctlVars
  <2>5. CASE CtlReply
    BY <2>5, <1>a DEF CtlReply, mainVars, supVars
  <2>6. CASE CtlEnd
    BY <2>6 DEF CtlEnd, mainVars, supVars
  <2> QED BY <1>4, <2>1, <2>2, <2>3, <2>4, <2>5, <2>6 DEF Control
<1>5. CASE Signal \/ Press
  <2>1. term' \in BOOLEAN /\ button' \in BOOLEAN
    BY <1>5, Zenon DEF Signal, Press
  <2>2. asked' \subseteq Requests
    BY <1>5 DEF Signal, Press
  <2>3. UNCHANGED <<workload, main, how, runCtx, proc, sup, backoff,
                    reaper, ctl, lines, mounted, todo>>
    BY <1>5, Zenon DEF Signal, Press, mainVars, supVars, ctlVars
  <2> QED BY <2>1, <2>2, <2>3
<1>6. CASE WaitLoop
  <2>1. CASE TakeSignal
    <3>1. term' \in BOOLEAN
      BY <2>1 DEF TakeSignal
    <3> QED BY <2>1, <3>1 DEF TakeSignal, supVars, ctlVars
  <2>2. CASE TakeHostCmd
    BY <2>2 DEF TakeHostCmd, supVars
  <2>3. CASE TakeButton
    <3>1. button' \in BOOLEAN
      BY <2>3 DEF TakeButton
    <3> QED BY <2>3, <3>1 DEF TakeButton, supVars, ctlVars
  <2> QED BY <1>6, <2>1, <2>2, <2>3 DEF WaitLoop
<1>7. CASE LeavePath
  <2>1. CASE LeaveEtcd
    BY <2>1, <1>a DEF LeaveEtcd, mainVars, supVars, ctlVars
  <2>2. CASE LeaveTimeout
    BY <2>2, KillLemma DEF LeaveTimeout, mainVars, supVars, ctlVars
  <2>3. CASE LeaveDone
    BY <2>3, <1>a DEF LeaveDone, mainVars, supVars, ctlVars
  <2> QED BY <1>7, <2>1, <2>2, <2>3 DEF LeavePath
<1>8. CASE StopPath
  <2>1. CASE StopChild
    BY <2>1 DEF StopChild, supVars, ctlVars
  <2>2. CASE ChildDone
    BY <2>2 DEF ChildDone, supVars, ctlVars
  <2>3. CASE ChildGraceOver
    BY <2>3 DEF ChildGraceOver, supVars, ctlVars
  <2> QED BY <1>8, <2>1, <2>2, <2>3 DEF StopPath
<1>9. CASE Do
  <2>1. CASE KillAllTerm \/ KillAllKill
    <3>1. CASE KillAllTerm
      BY <3>1 DEF KillAllTerm, ctlVars
    <3>2. CASE KillAllKill
      <4>1. proc' \in [Procs -> ProcStates]
        BY <3>2, KillLemma DEF KillAllKill
      <4>2. main' = "mounts"
        BY <3>2 DEF KillAllKill
      <4>3. UNCHANGED <<workload, how, runCtx, mounted, todo, sup, backoff, reaper,
                        ctl, lines, term, button, asked>>
        BY <3>2 DEF KillAllKill, ctlVars
      <4> QED BY <4>1, <4>2, <4>3
    <3> QED BY <2>1, <3>1, <3>2
  <2>2. CASE ReadMounts
    BY <2>2 DEF ReadMounts, Unmountable, supVars, ctlVars
  <2>3. ASSUME NEW t \in Mounts, Unmount(t) PROVE TypeOK'
    BY <2>3 DEF Unmount, supVars, ctlVars
  <2>4. CASE UnmountDone
    BY <2>4 DEF UnmountDone, supVars, ctlVars
  <2>5. CASE RemountRoot \/ Reboot
    <3>1. CASE RemountRoot
      BY <3>1 DEF RemountRoot, supVars, ctlVars
    <3>2. CASE Reboot
      BY <3>2 DEF Reboot, supVars, ctlVars
    <3> QED BY <2>5, <3>1, <3>2
  <2> QED BY <1>9, <2>1, <2>2, <2>3, <2>4, <2>5 DEF Do
<1> QED
  BY <1>1, <1>2, <1>3, <1>4, <1>5, <1>6, <1>7, <1>8, <1>9 DEF Next, Down

\* Every reachable state of PID1 is well typed.
THEOREM TypeCorrect == Spec => []TypeOK
<1> QED
  BY TypeInit, TypeStep, PTL DEF Spec

-----------------------------------------------------------------------------
(* The safety invariants.                                                  *)

\* The inductive invariant holds when boot starts waiting.
LEMMA SafetyInit == Init => IInv
<1> SUFFICES ASSUME Init PROVE IInv
  OBVIOUS
<1>1. \A p \in {"child", "leave"} \cup Orphans : proc[p] = "none"
  BY DEF Init, Procs
<1> QED
  BY <1>1, TypeInit DEF IInv, Init, CtxFollowsMain, ChannelsHoldAsked, ListDone, NoForkPending,
     KilledBeforeFs, LeaveFirst, PowerAsAsked, ListenersOpen, Busy, FsPhases, ShutdownPhases,
     DownPhases, CtlIdle

\* Steps of processes and of the supervisor leave the channels and boot's
\* goroutine alone; what they can disturb is which processes are alive.
LEMMA ProcStep ==
  ASSUME IInv, Kernel \/ Supervisor, TypeOK'
  PROVE  IInv'
<1> USE DEF IInv
<1>a. {"child", "leave", "token"} \subseteq Procs /\ Orphans \subseteq Procs
  BY DEF Procs
<1>b. Orphans \cap {"child", "leave", "token"} = {}
  BY Pid1Assumptions
<1>1. UNCHANGED <<main, how, runCtx, todo, ctl, term, button, asked>>
  BY DEF Kernel, Supervisor, Exit, Reap, Fork, WorkloadMount, ReaperStop, CtxKill,
     SupCheck, SupLook, SupFork, SupStartFails, SupWait, SupExited, SupSleep,
     mainVars, supVars, ctlVars
<1>2. CtxFollowsMain' /\ ChannelsHoldAsked' /\ ListDone' /\ PowerAsAsked' /\ ListenersOpen'
  BY <1>1 DEF CtxFollowsMain, ChannelsHoldAsked, ListDone, PowerAsAsked, ListenersOpen
<1>3. LeaveFirst'
  <2>1. proc["leave"] = "none" => proc'["leave"] = "none"
    <3>1. CASE CtxKill
      BY <3>1, <1>a, KillLemma DEF TypeOK, CtxKill
    <3>2. CASE ~CtxKill
      BY <3>2, <1>a, <1>b DEF TypeOK, Alive, Kernel, Supervisor, Exit, Reap, Fork,
         WorkloadMount, ReaperStop, SupCheck, SupLook, SupFork, SupStartFails, SupWait,
         SupExited, SupSleep, supVars
    <3> QED BY <3>1, <3>2
  <2> QED BY <1>1, <2>1 DEF LeaveFirst
<1>4. NoForkPending'
  <2> SUFFICES ASSUME main \in FsPhases PROVE sup' # "fork"
    BY <1>1 DEF NoForkPending
  <2>1. sup # "fork" /\ runCtx = "cancelled"
    BY DEF NoForkPending, CtxFollowsMain, FsPhases, ShutdownPhases, DownPhases, TypeOK
  <2> QED
    BY <2>1 DEF Kernel, Supervisor, Exit, Reap, Fork, WorkloadMount, ReaperStop, CtxKill,
       SupCheck, SupLook, SupFork, SupStartFails, SupWait, SupExited, SupSleep, supVars
<1>5. KilledBeforeFs'
  <2> SUFFICES ASSUME main \in FsPhases PROVE (~Busy)' /\ proc'["leave"] # "live"
    BY <1>1 DEF KilledBeforeFs
  <2>1. ~Busy /\ proc["leave"] # "live" /\ sup # "fork"
    BY DEF KilledBeforeFs, NoForkPending
  <2>2. \A p \in Procs : proc[p] # "live" => proc'[p] # "live"
    <3>1. CASE CtxKill
      BY <3>1, KillLemma DEF TypeOK, CtxKill
    <3>2. CASE ~CtxKill
      BY <3>2, <2>1, <1>a DEF TypeOK, Alive, Kernel, Supervisor, Exit, Reap, Fork,
         WorkloadMount, ReaperStop, SupCheck, SupLook, SupFork, SupStartFails, SupWait,
         SupExited, SupSleep, supVars
    <3> QED BY <3>1, <3>2
  <2> QED BY <2>1, <2>2, <1>a DEF Busy
<1> QED BY <1>2, <1>3, <1>4, <1>5

\* Steps that feed the wait loop add to what was asked, and start no process
\* of the workload.
LEMMA FeedStep ==
  ASSUME IInv, Control \/ Signal \/ Press, TypeOK'
  PROVE  IInv'
<1> USE DEF IInv
<1>a. {"child", "leave", "token"} \subseteq Procs /\ Orphans \subseteq Procs
  BY DEF Procs
<1>b. Orphans \cap {"child", "leave", "token"} = {}
  BY Pid1Assumptions
<1>1. UNCHANGED <<main, how, runCtx, todo, sup>>
  BY DEF Control, CtlPower, CtlToken, CtlFork, CtlTimeout, CtlReply, CtlEnd, Signal,
     Press, mainVars, supVars
<1>2. \A p \in {"child", "leave"} \cup Orphans : proc'[p] = proc[p]
  <2>1. CASE CtlTimeout
    BY <2>1, <1>a, <1>b, KillLemma DEF TypeOK, CtlTimeout
  <2>2. CASE ~CtlTimeout
    BY <2>2, <1>a, <1>b DEF TypeOK, Control, CtlPower, CtlToken, CtlFork, CtlReply,
       CtlEnd, Signal, Press
  <2> QED BY <2>1, <2>2
<1>3. CtxFollowsMain' /\ ListDone' /\ LeaveFirst' /\ NoForkPending'
  BY <1>1, <1>2 DEF CtxFollowsMain, ListDone, LeaveFirst, NoForkPending
<1>4. KilledBeforeFs'
  BY <1>1, <1>2 DEF KilledBeforeFs, Busy
<1>5. /\ asked \subseteq asked'
      /\ asked' # asked => asked' \cap {"reboot"} = {} \/ asked # {} \/ main = "wait"
  BY DEF ListenersOpen, Control, CtlPower, CtlToken, CtlFork, CtlTimeout, CtlReply,
     CtlEnd, Signal, Press
<1>6. ChannelsHoldAsked'
  BY <1>1 DEF ChannelsHoldAsked, TypeOK, CtlStates, Control, CtlPower, CtlToken, CtlFork,
     CtlTimeout, CtlReply, CtlEnd, Signal, Press, ctlVars, CtlIdle
<1>7. ListenersOpen'
  BY <1>1, <1>5 DEF ListenersOpen, TypeOK, CtlStates, Control, CtlPower, CtlToken, CtlFork,
     CtlTimeout, CtlReply, CtlEnd, Signal, Press, ctlVars, CtlIdle
<1>8. PowerAsAsked'
  BY <1>1, <1>5 DEF PowerAsAsked, ListenersOpen
<1> QED BY <1>3, <1>4, <1>6, <1>7, <1>8

\* Steps of boot's goroutine.
LEMMA MainStep ==
  ASSUME IInv, WaitLoop \/ LeavePath \/ StopPath \/ Do, TypeOK'
  PROVE  IInv'
<1> USE DEF IInv
<1>a. {"child", "leave", "token"} \subseteq Procs /\ Orphans \subseteq Procs
  BY DEF Procs
<1>b. Orphans \cap {"child", "leave", "token"} = {}
  BY Pid1Assumptions
<1>1. CASE WaitLoop
  <2>1. UNCHANGED <<runCtx, proc, sup, asked>> /\ main = "wait" /\ main' = "leave"
    BY <1>1 DEF WaitLoop, TakeSignal, TakeHostCmd, TakeButton, supVars
  <2>2. CtxFollowsMain' /\ ListDone' /\ LeaveFirst' /\ NoForkPending' /\ KilledBeforeFs'
    BY <2>1 DEF CtxFollowsMain, ListDone, LeaveFirst, NoForkPending, KilledBeforeFs,
       FsPhases, ShutdownPhases, DownPhases
  <2>3. ChannelsHoldAsked'
    BY <1>1 DEF ChannelsHoldAsked, WaitLoop, TakeSignal, TakeHostCmd, TakeButton, ctlVars, CtlIdle
  <2>4. ListenersOpen' /\ PowerAsAsked'
    <3>1. asked # {}
      BY <1>1 DEF ChannelsHoldAsked, WaitLoop, TakeSignal, TakeHostCmd, TakeButton
    <3>2. asked = {"reboot"} => how' = "reboot"
      BY <1>1 DEF ChannelsHoldAsked, WaitLoop, TakeSignal, TakeHostCmd, TakeButton
    <3> QED BY <2>1, <2>3, <3>1, <3>2 DEF ListenersOpen, PowerAsAsked, ChannelsHoldAsked
  <2> QED BY <2>2, <2>3, <2>4
<1>2. CASE LeavePath \/ StopPath
  <2>1. UNCHANGED <<how, ctl, term, asked, sup>> /\ main # "wait" /\ main' # "wait"
    BY <1>2 DEF LeavePath, LeaveEtcd, LeaveTimeout, LeaveDone, StopPath, StopChild,
       ChildDone, ChildGraceOver, mainVars, supVars, ctlVars
  <2>2. PowerAsAsked' /\ ListenersOpen'
    BY <2>1 DEF PowerAsAsked, ListenersOpen
  <2>8. ListDone'
    BY <1>2 DEF ListDone, LeavePath, LeaveEtcd, LeaveTimeout, LeaveDone, StopPath,
       StopChild, ChildDone, ChildGraceOver, mainVars
  <2>3. ChannelsHoldAsked'
    BY <1>2, <2>1 DEF ChannelsHoldAsked, LeavePath, LeaveEtcd, LeaveTimeout, LeaveDone,
       StopPath, StopChild, ChildDone, ChildGraceOver
  <2>4. CtxFollowsMain'
    BY <1>2 DEF CtxFollowsMain, LeavePath, LeaveEtcd, LeaveTimeout, LeaveDone, StopPath,
       StopChild, ChildDone, ChildGraceOver, mainVars, ShutdownPhases, DownPhases
  <2>5. LeaveFirst'
    BY <1>2, <1>a DEF LeaveFirst, TypeOK, CtxFollowsMain, ShutdownPhases, DownPhases,
       LeavePath, LeaveEtcd, LeaveTimeout, LeaveDone, StopPath, StopChild, ChildDone,
       ChildGraceOver, mainVars
  <2>7. KilledBeforeFs' /\ NoForkPending'
    <3>1. main' \notin FsPhases
      BY <1>2 DEF FsPhases, LeavePath, LeaveEtcd, LeaveTimeout, LeaveDone, StopPath,
         StopChild, ChildDone, ChildGraceOver, mainVars
    <3> QED BY <3>1 DEF KilledBeforeFs, NoForkPending
  <2> QED BY <2>2, <2>3, <2>4, <2>5, <2>7, <2>8
<1>3. CASE Do
  <2>1. /\ UNCHANGED <<how, ctl, term, button, asked, sup, runCtx>>
        /\ main \in ShutdownPhases
        /\ main' \in ShutdownPhases \cup DownPhases
    BY <1>3 DEF Do, KillAllTerm, KillAllKill, ReadMounts, Unmount, UnmountDone, RemountRoot,
       Reboot, supVars, ctlVars, ShutdownPhases, DownPhases
  <2>2. CtxFollowsMain' /\ ChannelsHoldAsked' /\ PowerAsAsked' /\ ListenersOpen'
    BY <2>1 DEF CtxFollowsMain, ChannelsHoldAsked, PowerAsAsked, ListenersOpen,
       ShutdownPhases, DownPhases
  <2>3. \A p \in Procs : /\ proc[p] = "none" => proc'[p] = "none"
                         /\ proc[p] # "live" => proc'[p] # "live"
    <3>1. CASE KillAllKill
      BY <3>1, KillLemma DEF TypeOK, KillAllKill
    <3>2. CASE ~KillAllKill
      BY <3>2, <1>3 DEF Do, KillAllTerm, ReadMounts, Unmount, UnmountDone, RemountRoot, Reboot
    <3> QED BY <3>1, <3>2
  <2>4. LeaveFirst'
    <3>1. proc["leave"] = "none"
      BY <2>1 DEF LeaveFirst, ShutdownPhases
    <3> QED BY <2>1, <2>3, <3>1, <1>a DEF LeaveFirst
  <2>5. KilledBeforeFs' /\ NoForkPending'
    <3>1. CASE KillAllKill
      <4>1. \A p \in Procs : proc'[p] # "live"
        BY <3>1, KillLemma DEF KillAllKill, TypeOK
      <4>2. sup' # "fork"
        BY <3>1 DEF KillAllKill
      <4> QED BY <4>1, <4>2, <1>a DEF KilledBeforeFs, NoForkPending, Busy
    <3>2. CASE KillAllTerm
      BY <3>2 DEF KillAllTerm, KilledBeforeFs, NoForkPending, FsPhases
    <3>3. CASE ~KillAllKill /\ ~KillAllTerm
      <4>1. main \in FsPhases
        BY <3>3, <1>3 DEF Do, ReadMounts, Unmount, UnmountDone, RemountRoot, Reboot, FsPhases
      <4>2. sup' # "fork"
        BY <4>1, <2>1 DEF NoForkPending
      <4> QED BY <4>1, <4>2, <2>3, <1>a DEF KilledBeforeFs, NoForkPending, Busy
    <3> QED BY <3>1, <3>2, <3>3
  <2>6. ListDone'
    BY <1>3 DEF ListDone, Do, KillAllTerm, KillAllKill, ReadMounts, Unmount, UnmountDone,
       RemountRoot, Reboot
  <2> QED BY <2>2, <2>4, <2>5, <2>6
<1> QED BY <1>1, <1>2, <1>3

\* Every step of PID1 and its children keeps the inductive invariant.
LEMMA SafetyStep == IInv /\ [Next]_vars => IInv'
<1> SUFFICES ASSUME IInv, [Next]_vars PROVE IInv'
  OBVIOUS
<1>0. TypeOK'
  BY TypeStep DEF IInv
<1>1. CASE UNCHANGED vars
  BY <1>1 DEF vars, IInv, TypeOK, CtxFollowsMain, ChannelsHoldAsked, ListDone,
     NoForkPending, KilledBeforeFs, LeaveFirst, PowerAsAsked, ListenersOpen, Busy
<1>2. CASE Kernel \/ Supervisor
  BY <1>0, <1>2, ProcStep
<1>3. CASE Control \/ Signal \/ Press
  BY <1>0, <1>3, FeedStep
<1>4. CASE WaitLoop \/ LeavePath \/ StopPath \/ Do
  BY <1>0, <1>4, MainStep
<1> QED BY <1>1, <1>2, <1>3, <1>4 DEF Next, Down

\* The inductive invariant, of which the theorems below are consequences.
THEOREM Invariance == Spec => []IInv
<1> QED
  BY SafetyInit, SafetyStep, PTL DEF Spec

\* Everything of the workload was killed before shutdown.Do goes near a
\* filesystem, and nothing of it is started from then on. It says "killed", not
\* "dead": Do does not wait for what it kills.
THEOREM KilledFirst == Spec => []KilledBeforeFs
<1>1. IInv => KilledBeforeFs
  BY DEF IInv
<1> QED BY <1>1, Invariance, PTL

\* The node leaves etcd before its context is cancelled.
THEOREM LeavesBeforeStopping == Spec => []LeaveFirst
<1>1. IInv => LeaveFirst
  BY DEF IInv
<1> QED BY <1>1, Invariance, PTL

\* The machine ends the way it was asked to.
THEOREM EndsAsAsked == Spec => []PowerAsAsked
<1>1. IInv => PowerAsAsked
  BY DEF IInv
<1> QED BY <1>1, Invariance, PTL

\* PID1 stops waiting only when asked, and its listeners outlive the waiting.
THEOREM NoSpontaneousStop == Spec => []ListenersOpen
<1>1. IInv => ListenersOpen
  BY DEF IInv
<1> QED BY <1>1, Invariance, PTL

-----------------------------------------------------------------------------
(* Pid1 implements the safety part of NodeLifecycle.                       *)

\* PID1 starts in an initial state of the abstract lifecycle.
LEMMA RefinesInit == Init => Life!Init
<1> SUFFICES ASSUME Init PROVE Life!Init
  OBVIOUS
<1>1. \A p \in {"child"} \cup Orphans : proc[p] # "live"
  BY DEF Init, Procs
<1> QED BY <1>1 DEF Init, Life!Init, phaseBar, Busy

\* Steps that leave boot's goroutine where it is and its list alone: at most
\* the workload comes or goes.
LEMMA RefinesProcStep ==
  ASSUME IInv, Kernel \/ Supervisor \/ Control \/ Signal \/ Press, TypeOK'
  PROVE  [Life!Next]_(Life!vars)
<1>1. UNCHANGED <<main, runCtx, todo>>
  BY DEF Kernel, Supervisor, Exit, Reap, Fork, WorkloadMount, ReaperStop, CtxKill,
     SupCheck, SupLook, SupFork, SupStartFails, SupWait, SupExited, SupSleep, Control, CtlPower,
     CtlToken, CtlFork, CtlTimeout, CtlReply, CtlEnd, Signal, Press, mainVars
<1>2. phaseBar' = phaseBar
  BY <1>1 DEF phaseBar
<1>3. CASE main \notin FsPhases
  <2>1. phaseBar \in {"up", "leaving", "stopping"}
    BY <1>3 DEF phaseBar, IInv, TypeOK, FsPhases, ShutdownPhases, DownPhases
  <2>2. Busy' \in BOOLEAN
    BY DEF Busy
  <2> QED BY <2>1, <2>2, <1>1, <1>2 DEF Life!Next, Life!Work, Life!vars
<1>4. CASE main \in FsPhases
  <2>1. IInv'
    BY ProcStep, FeedStep
  <2>2. Busy' = Busy
    BY <1>1, <1>4, <2>1 DEF IInv, KilledBeforeFs, Busy
  <2> QED BY <2>2, <1>1, <1>2 DEF Life!vars
<1> QED BY <1>3, <1>4

\* Steps of boot's goroutine move the phase, or work the list of mounts.
LEMMA RefinesMainStep ==
  ASSUME IInv, WaitLoop \/ LeavePath \/ StopPath \/ Do
  PROVE  [Life!Next]_(Life!vars)
<1>a. {"child", "leave", "token"} \subseteq Procs /\ Orphans \subseteq Procs
  BY DEF Procs
<1>b. Orphans \cap {"child", "leave", "token"} = {}
  BY Pid1Assumptions
<1>c. proc \in [Procs -> ProcStates]
  BY DEF IInv, TypeOK
<1>1. CASE WaitLoop
  <2>1. phaseBar = "up" /\ phaseBar' = "leaving"
    BY <1>1 DEF WaitLoop, TakeSignal, TakeHostCmd, TakeButton, phaseBar
  <2>2. Busy' = Busy /\ todo' = todo
    BY <1>1 DEF WaitLoop, TakeSignal, TakeHostCmd, TakeButton, Busy
  <2> QED BY <2>1, <2>2 DEF Life!Next, Life!Accept
<1>2. CASE LeavePath
  <2>1. phaseBar = "leaving" /\ phaseBar' = "leaving"
    BY <1>2 DEF LeavePath, LeaveEtcd, LeaveTimeout, LeaveDone, mainVars, phaseBar
  <2>2. Busy' = Busy
    <3>1. \A p \in {"child"} \cup Orphans : proc'[p] = proc[p]
      BY <1>2, <1>a, <1>b, <1>c, KillLemma DEF LeavePath, LeaveEtcd, LeaveTimeout, LeaveDone
    <3> QED BY <3>1 DEF Busy
  <2>3. todo' = todo
    BY <1>2 DEF LeavePath, LeaveEtcd, LeaveTimeout, LeaveDone, mainVars
  <2> QED BY <2>1, <2>2, <2>3 DEF Life!vars
<1>3. CASE StopPath
  <2>1. Busy' = Busy /\ todo' = todo
    BY <1>3 DEF StopPath, StopChild, ChildDone, ChildGraceOver, Busy
  <2>2. CASE StopChild
    <3>1. phaseBar = "leaving" /\ phaseBar' = "stopping"
      BY <2>2 DEF StopChild, phaseBar
    <3> QED BY <2>1, <3>1 DEF Life!Next, Life!Stop
  <2>3. CASE ChildDone \/ ChildGraceOver
    <3>1. phaseBar = "stopping" /\ phaseBar' = "stopping"
      BY <2>3 DEF ChildDone, ChildGraceOver, phaseBar
    <3> QED BY <2>1, <3>1 DEF Life!vars
  <2> QED BY <1>3, <2>2, <2>3 DEF StopPath
<1>4. CASE KillAllTerm
  <2>1. phaseBar = "stopping" /\ phaseBar' = "stopping" /\ Busy' = Busy /\ todo' = todo
    BY <1>4 DEF KillAllTerm, phaseBar, Busy
  <2> QED BY <2>1 DEF Life!vars
<1>5. CASE KillAllKill
  <2>1. phaseBar = "stopping" /\ phaseBar' = "killed" /\ todo' = todo
    BY <1>5 DEF KillAllKill, phaseBar
  <2>2. Busy' = FALSE
    <3>1. \A p \in Procs : proc'[p] # "live"
      BY <1>5, <1>c, KillLemma DEF KillAllKill
    <3> QED BY <3>1, <1>a DEF Busy
  <2> QED BY <2>1, <2>2 DEF Life!Next, Life!Kill
<1>6. CASE ReadMounts
  <2>1. Busy' = Busy
    BY <1>6 DEF ReadMounts, Busy
  <2>2. CASE main' = "unmount"
    <3>1. phaseBar = "killed" /\ phaseBar' = "detaching"
      BY <1>6, <2>2 DEF ReadMounts, phaseBar
    <3>2. todo' \in SUBSET Mounts
      BY <1>6, <2>2 DEF ReadMounts, Unmountable, IInv, TypeOK
    <3> QED BY <2>1, <3>1, <3>2 DEF Life!Next, Life!BeginDetach
  <2>3. CASE main' = "panic"
    <3>1. phaseBar = "killed" /\ phaseBar' = "failed" /\ todo' = todo
      BY <1>6, <2>3 DEF ReadMounts, phaseBar
    <3> QED BY <2>1, <3>1 DEF Life!Next, Life!Fail
  <2> QED BY <1>6, <2>2, <2>3 DEF ReadMounts
<1>7. ASSUME NEW t \in Mounts, Unmount(t) PROVE [Life!Next]_(Life!vars)
  <2>1. phaseBar = "detaching" /\ phaseBar' = phaseBar /\ Busy' = Busy
    BY <1>7 DEF Unmount, phaseBar, Busy
  <2>2. \A u \in todo : ~Life!IsUnder(u, t)
    <3>1. \A u \in todo : Len(u) \in Nat /\ Len(t) \in Nat
      BY Pid1Assumptions DEF IInv, TypeOK
    <3> QED BY <1>7, <3>1 DEF Unmount, Deepest, Life!IsUnder
  <2>3. Life!Detach(t)
    BY <1>7, <2>1, <2>2 DEF Unmount, Life!Detach
  <2> QED BY <2>3 DEF Life!Next
<1>8. CASE UnmountDone \/ RemountRoot
  <2>1. phaseBar = "detaching" /\ phaseBar' = phaseBar /\ Busy' = Busy /\ todo' = todo
    BY <1>8 DEF UnmountDone, RemountRoot, phaseBar, Busy
  <2> QED BY <2>1 DEF Life!vars
<1>9. CASE Reboot
  <2>1. phaseBar = "detaching" /\ Busy' = Busy /\ todo' = todo
    BY <1>9 DEF Reboot, phaseBar, Busy
  <2>2. CASE main' = "off"
    <3>1. phaseBar' = "halted"
      BY <2>2 DEF phaseBar
    <3>2. todo = {}
      BY <1>9 DEF Reboot, IInv, ListDone
    <3> QED BY <2>1, <3>1, <3>2 DEF Life!Next, Life!Halt
  <2>3. CASE main' = "panic"
    <3>1. phaseBar' = "failed"
      BY <2>3 DEF phaseBar
    <3> QED BY <2>1, <3>1 DEF Life!Next, Life!Fail
  <2> QED BY <1>9, <2>2, <2>3 DEF Reboot
<1> QED
  BY <1>1, <1>2, <1>3, <1>4, <1>5, <1>6, <1>7, <1>8, <1>9 DEF Do

\* Every behaviour of Pid1 is, seen through phaseBar, a behaviour NodeLifecycle
\* allows: the phases come in order, the whole workload is killed before the
\* mounts are looked at and nothing of it is started again, and the mounts are
\* let go deepest first.
THEOREM ImplementsLifecycle == Spec => Life!Init /\ [][Life!Next]_(Life!vars)
<1>1. IInv /\ [Next]_vars => [Life!Next]_(Life!vars)
  <2> SUFFICES ASSUME IInv, [Next]_vars PROVE [Life!Next]_(Life!vars)
    OBVIOUS
  <2>1. CASE UNCHANGED vars
    BY <2>1 DEF vars, Life!vars, phaseBar, Busy
  <2>2. CASE Kernel \/ Supervisor \/ Control \/ Signal \/ Press
    <3>1. TypeOK'
      BY TypeStep DEF IInv
    <3> QED BY <2>2, <3>1, RefinesProcStep
  <2>3. CASE WaitLoop \/ LeavePath \/ StopPath \/ Do
    BY <2>3, RefinesMainStep
  <2> QED BY <2>1, <2>2, <2>3 DEF Next, Down
<1> QED
  BY <1>1, RefinesInit, Invariance, PTL DEF Spec
=============================================================================
