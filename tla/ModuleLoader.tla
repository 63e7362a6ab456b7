---------------------------- MODULE ModuleLoader ----------------------------
(***************************************************************************)
(* Kernel modules at boot: internal/module's LoadAll and the resolver it   *)
(* shares between the named set and the drivers found by matching device   *)
(* modaliases. The recursion of resolver.load is an explicit stack. Beside *)
(* it runs the kernel, in which a driver's children appear some time after *)
(* init_module returned (internal/sys's Modaliases sees them or not).      *)
(*                                                                         *)
(* A tree is what /lib/modules/<release> holds: deps (modules.dep, keyed by*)
(* module name), soft (modules.softdep, the "pre:" entries), alias (the    *)
(* plain names of modules.alias), patterns (its device globs, each paired  *)
(* with the device it matches), and bad, the modules init_module refuses   *)
(* or whose image cannot be read or decompressed.                          *)
(***************************************************************************)
EXTENDS Naturals, Sequences, FiniteSets, SequencesExt

CONSTANTS
    Trees,         \* the module trees considered
    NoTree,        \* readDeps found no modules.dep: nil, and no resolver
    Devices,       \* devices with a modalias, in the order the walk meets them
    Parent,        \* Parent[d]: the module that makes d appear, or NoParent
    NoParent,
    Names,         \* the named set: cfg.Modules or module.Default
    MaxDeviceRounds

ASSUME RoundsPositive == MaxDeviceRounds \in Nat \ {0}

\* The index files list what a module needs, before and for itself, and what
\* devices it drives.
ASSUME TreesIndexed ==
    \A t \in Trees : /\ IsFiniteSet(DOMAIN t.deps)
                     /\ t.deps \in [DOMAIN t.deps -> Seq(STRING)]
                     /\ t.soft \in [DOMAIN t.deps -> Seq(STRING)]
                     /\ t.patterns \in Seq([device : STRING, module : STRING])

ASSUME ModulesNamed == \A t \in Trees : "" \notin DOMAIN t.deps

ASSUME Listed == Names \in Seq(STRING) /\ Devices \in Seq(STRING)

VARIABLES
    tree,     \* the index files read by newResolver, or NoTree
    phase,    \* "off", "names", "scan", "match" or "end"
    todo,     \* the names the current loop of LoadAll or loadDevices has left
    stack,    \* the calls of resolver.load in progress, outermost first
    done,     \* resolver.done
    tried,    \* the modules whose image was read, in that order
    loaded,   \* resolver.loaded
    named,    \* what LoadAll reports as Loaded
    failed,   \* the modules in resolver.errs
    round,    \* the rounds of loadDevices so far
    before,   \* resolver.loaded at the start of this round
    seen,     \* the devices the last round saw
    live,     \* modules in the kernel
    present   \* devices in sysfs

resolver == <<tree, phase, todo, stack, done, tried, loaded, named, failed,
              round, before, seen>>
loaderVars == <<tree, phase, todo, stack, done, tried, loaded, named, failed,
                round, before, seen, live, present>>

\* What resolve returns for a name that is no module: "".
Unresolved == ""

AllModules == UNION {DOMAIN t.deps : t \in Trees}

LoaderTypeOK ==
    /\ tree \in Trees \cup {NoTree}
    /\ phase \in {"off", "names", "scan", "match", "end"}
    /\ \A i \in DOMAIN stack : stack[i].mod \in AllModules
    /\ done \subseteq AllModules
    /\ ToSet(tried) \subseteq AllModules
    /\ failed \subseteq ToSet(tried)
    /\ loaded \in Nat
    /\ named \in 0 .. loaded
    /\ round \in 0 .. MaxDeviceRounds
    /\ before \in 0 .. loaded
    /\ seen \subseteq present
    /\ present \subseteq ToSet(Devices)
    /\ live \subseteq AllModules

-----------------------------------------------------------------------------
(* Faulty variants: what a mistake in the definition named would look like.*)

\* load takes what a module needs from modules.softdep alone
FirstSoftOnly(key) == tree.soft[key]

\* named and discovered modules are loaded with bookkeeping of their own
NamesDoneForgets ==
    /\ phase = "names" /\ stack = << >> /\ todo = << >>
    /\ named' = loaded
    /\ done' = {}
    /\ phase' = "scan"
    /\ UNCHANGED <<tree, todo, stack, tried, loaded, failed, round, before,
                   seen, live, present>>

\* the first module that fails ends the load it is part of
InitModuleGivesUp ==
    /\ stack # << >> /\ Last(stack).next = << >>
    /\ LET key == Last(stack).mod
       IN /\ tried' = Append(tried, key)
          /\ IF key \in tree.bad
             THEN /\ failed' = failed \cup {key}
                  /\ stack' = << >>
                  /\ UNCHANGED <<loaded, live>>
             ELSE /\ live' = live \cup {key}
                  /\ loaded' = loaded + 1
                  /\ stack' = Front(stack)
                  /\ UNCHANGED failed
    /\ UNCHANGED <<tree, phase, todo, done, named, round, before, seen, present>>

-----------------------------------------------------------------------------
(* The resolver.                                                           *)

\* A name that is a module, else the module its exact alias names.
Resolve(name) ==
    IF name \in DOMAIN tree.deps THEN name
    ELSE IF name \in DOMAIN tree.alias /\ tree.alias[name] \in DOMAIN tree.deps
    THEN tree.alias[name]
    ELSE Unresolved

\* What load(key) loads before key itself: soft dependencies, then hard ones.
First(key) == tree.soft[key] \o tree.deps[key]

\* The call load(name) on top of st, unless it returns at once.
Push(name, st) ==
    LET key == Resolve(name)
    IN IF key = Unresolved \/ key \in done
       THEN st
       ELSE Append(st, [mod |-> key, next |-> First(key)])

Called(name) == done \cup ({Resolve(name)} \ {Unresolved})

\* A resolver over tree t that has done nothing.
Fresh(t, p, names) ==
    /\ tree' = t /\ phase' = p /\ todo' = names
    /\ stack' = << >> /\ tried' = << >>
    /\ done' = {} /\ failed' = {} /\ seen' = {}
    /\ loaded' = 0 /\ named' = 0 /\ round' = 0 /\ before' = 0

\* newResolver and the start of LoadAll, which returns at once without a tree.
NewResolver(t) ==
    IF t = NoTree THEN Fresh(t, "end", << >>) ELSE Fresh(t, "names", Names)

\* LoadAll returned: nothing keeps the resolver.
DropResolver == Fresh(NoTree, "off", << >>)

\* The loops of LoadAll and loadDevices call load for the next name.
LoadNext ==
    /\ phase \in {"names", "match"} /\ stack = << >> /\ todo # << >>
    /\ stack' = Push(Head(todo), stack)
    /\ done' = Called(Head(todo))
    /\ todo' = Tail(todo)
    /\ UNCHANGED <<tree, phase, tried, loaded, named, failed, round, before,
                   seen, live, present>>

\* load calls itself for the next dependency.
LoadDep ==
    /\ stack # << >>
    /\ LET top == Last(stack)
       IN /\ top.next # << >>
          /\ stack' = Push(Head(top.next), Append(Front(stack),
                              [top EXCEPT !.next = Tail(@)]))
          /\ done' = Called(Head(top.next))
    /\ UNCHANGED <<tree, phase, todo, tried, loaded, named, failed, round,
                   before, seen, live, present>>

\* The modules m needs, hard and soft.
Needs(m) ==
    {Resolve(d) : d \in ToSet(tree.soft[m]) \cup ToSet(tree.deps[m])}
       \ {Unresolved}

\* The kernel resolves a module's symbols against those it needs.
Refused(key) == key \in tree.bad \/ ~(Needs(key) \subseteq live)

\* load reads the image and calls init_module; a module the kernel already has
\* (EEXIST) counts as loaded.
InitModule ==
    /\ stack # << >>
    /\ LET key == Last(stack).mod
       IN /\ Last(stack).next = << >>
          /\ tried' = Append(tried, key)
          /\ IF key \notin live /\ Refused(key)
             THEN /\ failed' = failed \cup {key}
                  /\ UNCHANGED <<loaded, live>>
             ELSE /\ live' = live \cup {key}
                  /\ loaded' = loaded + 1
                  /\ UNCHANGED failed
    /\ stack' = Front(stack)
    /\ UNCHANGED <<tree, phase, todo, done, named, round, before, seen, present>>

NamesDone ==
    /\ phase = "names" /\ stack = << >> /\ todo = << >>
    /\ named' = loaded
    /\ phase' = "scan"
    /\ UNCHANGED <<tree, todo, stack, done, tried, loaded, failed, round,
                   before, seen, live, present>>

\* The modules driving the given devices.
Drivers(devs) == {e.module : e \in {x \in ToSet(tree.patterns) : x.device \in devs}}

\* Where a pattern of module m matches: at which device of the walk, in which
\* line of modules.alias.
Hits(m, devs) ==
    {p \in (DOMAIN Devices) \X (DOMAIN tree.patterns) :
        /\ Devices[p[1]] \in devs
        /\ tree.patterns[p[2]] = [device |-> Devices[p[1]], module |-> m]}

\* m is seen before k: at an earlier device, or the same and in an earlier line.
Sooner(m, k, devs) ==
    \E p \in Hits(m, devs) : \A q \in Hits(k, devs) :
        p[1] < q[1] \/ (p[1] = q[1] /\ p[2] < q[2])

\* The drivers in the order first seen, each of them once.
MatchDevices(devs) ==
    LET D == Drivers(devs)
    IN [i \in 1 .. Cardinality(D) |->
           CHOOSE m \in D : Cardinality({k \in D : Sooner(k, m, devs)}) = i - 1]

\* One round of loadDevices enumerates sysfs. Modaliases skips what it cannot
\* read and returns no error, so the error path of loadDevices is not taken.
Scan ==
    /\ phase = "scan"
    /\ seen' = present
    /\ before' = loaded
    /\ todo' = MatchDevices(present)
    /\ phase' = "match"
    /\ UNCHANGED <<tree, stack, done, tried, loaded, named, failed, round, live,
                   present>>

\* The round is over: again, unless it loaded nothing or was the last one.
RoundDone ==
    /\ phase = "match" /\ stack = << >> /\ todo = << >>
    /\ round' = round + 1
    /\ phase' = IF loaded = before \/ round + 1 = MaxDeviceRounds
                THEN "end" ELSE "scan"
    /\ UNCHANGED <<tree, todo, stack, done, tried, loaded, named, failed,
                   before, seen, live, present>>

\* The kernel enumerates the devices behind a driver it has.
DeviceAppears ==
    \E d \in ToSet(Devices) \ present :
       /\ Parent[d] \in live
       /\ present' = present \cup {d}
       /\ UNCHANGED resolver
       /\ UNCHANGED live

LoaderInit ==
    /\ tree = NoTree
    /\ phase = "off"
    /\ todo = << >> /\ stack = << >> /\ tried = << >>
    /\ done = {} /\ failed = {} /\ seen = {} /\ live = {}
    /\ loaded = 0 /\ named = 0 /\ round = 0 /\ before = 0
    /\ present = {d \in ToSet(Devices) : Parent[d] = NoParent}

LoaderStep ==
    \/ LoadNext \/ LoadDep \/ InitModule
    \/ NamesDone \/ Scan \/ RoundDone

-----------------------------------------------------------------------------
(* Properties.                                                             *)

\* The modules reached from S through dependencies: those in every set that
\* contains S and what its members need.
Closure(S) ==
    {m \in DOMAIN tree.deps :
        \A C \in SUBSET DOMAIN tree.deps :
            S \subseteq C /\ (\A k \in C : Needs(k) \subseteq C) => m \in C}

\* The modules that names ask for.
Keys(names) == {Resolve(n) : n \in names} \ {Unresolved}

\* A module is handed to init_module at most once, however often it is named,
\* aliased, depended on or matched by a device, and so what LoadAll reports
\* counts every driver exactly once.
EachOnce ==
    /\ \A i, j \in DOMAIN tried : tried[i] = tried[j] => i = j
    /\ loaded = Cardinality(ToSet(tried) \ failed)

\* No module fails because of the order: one that the kernel refuses is bad
\* itself, needs one that failed, or is part of a dependency cycle.
FailsForAReason ==
    \A m \in failed : \/ m \in tree.bad
                      \/ Needs(m) \cap failed # {}
                      \/ m \in Closure(Needs(m))

\* When LoadAll returns, everything asked for has been tried: the named set, the
\* drivers of the devices the last round saw, and all they depend on. A module
\* that fails costs the machine none of the others, and a cycle none either.
EverythingTried ==
    phase = "end" /\ tree # NoTree =>
       Closure(Keys(ToSet(Names) \cup Drivers(seen))) = ToSet(tried)
=============================================================================
