----------------------------- MODULE Boot_proofs -----------------------------
(***************************************************************************)
(* For any machine, module trees, devices and drives: a boot tries each    *)
(* module once, none too early, and every one it was asked for; it mounts  *)
(* nothing over what it needs and hides nothing it has written; the        *)
(* machine that runs is the one its drive describes; and the stages come   *)
(* in the order BootChain calls for.                                       *)
(***************************************************************************)
EXTENDS Boot, FiniteSetTheorems, SequenceTheorems, NaturalsInduction,
        WellFoundedInduction, TLAPS

\* The calls of resolver.load in progress, and the modules they are for.
Calls == [mod : AllModules, next : Seq(STRING)]
Mods == {stack[i].mod : i \in DOMAIN stack}

\* A resolver at work has a tree; what its calls have left is what their modules
\* need.
Stacked ==
    /\ phase \in {"names", "scan", "match"} => tree \in Trees /\ round < MaxDeviceRounds
    /\ tried # << >> => tree \in Trees
    /\ stack # << >> => phase \in {"names", "match"}
    /\ stack \in Seq(Calls)
    /\ Mods \subseteq DOMAIN tree.deps
    /\ \A i \in DOMAIN stack : \A k \in DOMAIN stack[i].next :
          stack[i].next[k] \in ToSet(tree.soft[stack[i].mod]) \cup ToSet(tree.deps[stack[i].mod])
    /\ tried \in Seq(AllModules)

\* resolver.done holds the modules that have been tried and those whose call is in
\* progress, each of which is one or the other, and once.
CalledOnce ==
    /\ done = ToSet(tried) \cup Mods
    /\ ToSet(tried) \cap Mods = {}
    /\ \A i, j \in DOMAIN stack : stack[i].mod = stack[j].mod => i = j
    /\ EachOnce

\* A call is for a module that the call below it needs.
Chained ==
    \A i \in DOMAIN stack : i + 1 \in DOMAIN stack => stack[i + 1].mod \in Needs(stack[i].mod)

\* What a module in progress needs has been called for or is still to be.
Coming ==
    \A i \in DOMAIN stack : \A m \in Needs(stack[i].mod) :
        m \in done \/ \E k \in DOMAIN stack[i].next : Resolve(stack[i].next[k]) = m

\* A module that was tried and did not fail is in the kernel.
Lives == ToSet(tried) \ failed \subseteq live

LoaderInv ==
    LoaderTypeOK /\ Stacked /\ CalledOnce /\ Chained /\ Coming /\ Lives /\ FailsForAReason

-----------------------------------------------------------------------------
(* Trees, calls and sequences.                                             *)

\* What a module needs before it is a list of names.
LEMMA TreeFacts ==
    ASSUME tree \in Trees
    PROVE  /\ IsFiniteSet(DOMAIN tree.deps) /\ "" \notin DOMAIN tree.deps
           /\ DOMAIN tree.deps \subseteq AllModules
           /\ \A m \in DOMAIN tree.deps : /\ tree.soft[m] \in Seq(STRING)
                                          /\ tree.deps[m] \in Seq(STRING)
BY TreesIndexed, ModulesNamed DEF AllModules

\* The list is made of the soft dependencies and the hard ones, and no others.
LEMMA FirstIs ==
    ASSUME tree \in Trees, NEW m \in DOMAIN tree.deps
    PROVE  /\ First(m) \in Seq(STRING)
           /\ \A x \in ToSet(tree.soft[m]) \cup ToSet(tree.deps[m]) :
                 \E k \in DOMAIN First(m) : First(m)[k] = x
           /\ \A k \in DOMAIN First(m) :
                 First(m)[k] \in ToSet(tree.soft[m]) \cup ToSet(tree.deps[m])
<1> DEFINE s == tree.soft[m]
           d == tree.deps[m]
<1>1. s \in Seq(STRING) /\ d \in Seq(STRING)
  BY TreeFacts
<1>2. First(m) = s \o d
  BY DEF First
<1> HIDE DEF s, d
<1>3. /\ s \o d \in Seq(STRING) /\ DOMAIN (s \o d) = 1 .. Len(s) + Len(d)
      /\ DOMAIN s = 1 .. Len(s) /\ DOMAIN d = 1 .. Len(d) /\ Len(s) \in Nat /\ Len(d) \in Nat
      /\ \A k \in 1 .. Len(s) : (s \o d)[k] = s[k]
      /\ \A k \in Len(s) + 1 .. Len(s) + Len(d) : (s \o d)[k] = d[k - Len(s)]
  BY <1>1
<1>4. ASSUME NEW x \in ToSet(s) \cup ToSet(d)
      PROVE  \E k \in DOMAIN (s \o d) : (s \o d)[k] = x
  <2>1. CASE x \in ToSet(s)
    BY <1>3, <2>1 DEF ToSet
  <2>2. CASE x \in ToSet(d)
    <3>1. PICK k \in 1 .. Len(d) : d[k] = x
      BY <1>3, <2>2 DEF ToSet
    <3>2. /\ k + Len(s) \in Len(s) + 1 .. Len(s) + Len(d)
          /\ k + Len(s) \in 1 .. Len(s) + Len(d) /\ (k + Len(s)) - Len(s) = k
      BY <1>3
    <3> QED
      BY <1>3, <3>1, <3>2
  <2> QED
    BY <1>4, <2>1, <2>2
<1>5. ASSUME NEW k \in DOMAIN (s \o d)  PROVE (s \o d)[k] \in ToSet(s) \cup ToSet(d)
  <2>1. CASE k \in 1 .. Len(s)
    BY <1>3, <2>1 DEF ToSet
  <2>2. CASE k \notin 1 .. Len(s)
    <3>1. k \in Len(s) + 1 .. Len(s) + Len(d) /\ k - Len(s) \in 1 .. Len(d)
      BY <1>3, <2>2
    <3> QED
      BY <1>3, <3>1 DEF ToSet
  <2> QED
    BY <2>1, <2>2
<1> QED
  BY <1>2, <1>3, <1>4, <1>5 DEF s, d

\* A name resolves to a module of the tree or to none.
LEMMA Resolved ==
    ASSUME tree \in Trees, NEW name
    PROVE  /\ Resolve(name) \in DOMAIN tree.deps \cup {Unresolved}
           /\ Unresolved \notin DOMAIN tree.deps
BY TreeFacts DEF Resolve, Unresolved

LEMMA NeedsIs ==
    ASSUME tree \in Trees, NEW m \in DOMAIN tree.deps
    PROVE  /\ Needs(m) \subseteq DOMAIN tree.deps
           /\ \A d \in Needs(m) : \E k \in DOMAIN First(m) : Resolve(First(m)[k]) = d
<1>1. Needs(m) \subseteq DOMAIN tree.deps
  BY Resolved DEF Needs
<1>2. ASSUME NEW d \in Needs(m)  PROVE \E k \in DOMAIN First(m) : Resolve(First(m)[k]) = d
  <2>1. PICK x \in ToSet(tree.soft[m]) \cup ToSet(tree.deps[m]) : d = Resolve(x)
    BY DEF Needs
  <2> QED
    BY <2>1, FirstIs
<1> QED
  BY <1>1, <1>2

\* load(name) returns at once, or is in progress for a module it had not seen.
LEMMA Pushed ==
    ASSUME tree \in Trees, NEW name, NEW st
    PROVE  \/ /\ Push(name, st) = st /\ Called(name) = done
              /\ Resolve(name) \in done \cup {Unresolved}
           \/ /\ Resolve(name) \in DOMAIN tree.deps /\ Resolve(name) \notin done
              /\ Push(name, st) = Append(st, [mod |-> Resolve(name),
                                              next |-> First(Resolve(name))])
              /\ Called(name) = done \cup {Resolve(name)}
<1>1. /\ Resolve(name) \in DOMAIN tree.deps \cup {Unresolved}
      /\ Unresolved \notin DOMAIN tree.deps
  BY Resolved
<1>2. CASE Resolve(name) = Unresolved
  BY <1>2 DEF Push, Called
<1>3. CASE Resolve(name) \in done /\ Resolve(name) # Unresolved
  BY <1>3 DEF Push, Called
<1>4. CASE Resolve(name) \notin done /\ Resolve(name) # Unresolved
  BY <1>1, <1>4 DEF Push, Called
<1> QED
  BY <1>2, <1>3, <1>4

\* What a call needs stays the same while its tree does.
LEMMA SameTree ==
    ASSUME UNCHANGED tree
    PROVE  /\ \A x : Resolve(x)' = Resolve(x)
           /\ \A m : Needs(m)' = Needs(m) /\ First(m)' = First(m)
           /\ \A S : Closure(S)' = Closure(S)
BY DEF Resolve, Needs, First, Closure

LEMMA SameReasons == UNCHANGED <<tree, failed>> /\ FailsForAReason => FailsForAReason'
BY SameTree DEF FailsForAReason

\* A set of numbers has a least one.
LEMMA Least ==
    ASSUME NEW S, S \subseteq Nat, S # {}
    PROVE  \E x \in S : \A y \in S : x <= y
<1>1. PICK x \in S : \A y \in S : <<y, x>> \notin OpToRel(<, Nat)
  BY WFMin, NatLessThanWellFounded
<1>2. \A y \in S : ~(y < x)
  BY <1>1 DEF OpToRel
<1> QED
  BY <1>2

-----------------------------------------------------------------------------
(* The steps of the loader keep its invariant.                             *)

\* A call of load, from a loop or from another call.
LEMMA Calling ==
    ASSUME LoaderInv, tree \in Trees, phase \in {"names", "match"},
           NEW name, NEW st \in Seq(Calls), Len(st) = Len(stack),
           \A i \in DOMAIN stack : st[i].mod = stack[i].mod,
           \A i \in DOMAIN st : \A k \in DOMAIN st[i].next :
               st[i].next[k] \in ToSet(tree.soft[st[i].mod]) \cup ToSet(tree.deps[st[i].mod]),
           \A i \in DOMAIN st : \A m \in Needs(st[i].mod) :
               \/ m \in done \/ m = Resolve(name)
               \/ \E k \in DOMAIN st[i].next : Resolve(st[i].next[k]) = m,
           stack # << >> => Resolve(name) \in Needs(stack[Len(stack)].mod) \cup {Unresolved},
           stack' = Push(name, st), done' = Called(name),
           UNCHANGED <<tree, phase, tried, loaded, named, failed, round, before, seen, live,
                       present>>
    PROVE  LoaderInv'
<1> DEFINE key == Resolve(name)
           c == [mod |-> key, next |-> First(key)]
           n == Len(st)
<1>1. /\ n \in Nat /\ DOMAIN st = 1 .. n /\ DOMAIN stack = 1 .. n
      /\ st \in Seq(Calls) /\ \A i \in 1 .. n : st[i].mod = stack[i].mod
  BY DEF LoaderInv, Stacked
<1>2. /\ \A x : Resolve(x)' = Resolve(x)
      /\ \A m : Needs(m)' = Needs(m)
  BY SameTree
<1>3. \/ stack' = st /\ done' = done /\ key \in done \cup {Unresolved}
      \/ /\ key \in DOMAIN tree.deps /\ key \notin done
         /\ stack' = Append(st, c) /\ done' = done \cup {key}
  BY Pushed
<1>4. key \in DOMAIN tree.deps => c \in Calls
  BY TreeFacts, FirstIs DEF Calls
<1>5. Unresolved \notin DOMAIN tree.deps
  BY Resolved
<1>6. /\ Mods \subseteq DOMAIN tree.deps /\ done = ToSet(tried) \cup Mods
      /\ ToSet(tried) \cap Mods = {}
      /\ Mods = {st[i].mod : i \in 1 .. n}
  <2>1. Mods \subseteq DOMAIN tree.deps
    BY DEF LoaderInv, Stacked
  <2>2. done = ToSet(tried) \cup Mods /\ ToSet(tried) \cap Mods = {}
    BY DEF LoaderInv, CalledOnce
  <2> HIDE DEF n
  <2>3. Mods = {st[i].mod : i \in 1 .. n}
    BY <1>1 DEF Mods
  <2> QED
    BY <2>1, <2>2, <2>3
<1>7. Lives' /\ FailsForAReason' /\ EachOnce'
  BY SameReasons DEF LoaderInv, Lives, CalledOnce, EachOnce
<1> HIDE DEF key, c, n
<1>8. CASE stack' = st /\ done' = done /\ key \in done \cup {Unresolved}
  <2>1. Mods' = Mods
    BY <1>1, <1>6, <1>8 DEF Mods
  <2>2. LoaderTypeOK'
    BY <1>1, <1>8 DEF LoaderInv, LoaderTypeOK
  <2>3. Stacked'
    <3>1. \A i \in DOMAIN stack' : \A k \in DOMAIN stack'[i].next :
             stack'[i].next[k] \in ToSet(tree.soft[stack'[i].mod])
                                  \cup ToSet(tree.deps[stack'[i].mod])
      BY <1>8
    <3> QED
      BY <1>1, <1>8, <2>1, <3>1 DEF LoaderInv, Stacked
  <2>4. CalledOnce'
    BY <1>1, <1>7, <1>8, <2>1 DEF LoaderInv, CalledOnce
  <2>5. Chained'
    BY <1>1, <1>2, <1>8 DEF LoaderInv, Chained
  <2>6. Coming'
    <3> SUFFICES ASSUME NEW i \in 1 .. n, NEW m \in Needs(st[i].mod), m \notin done
                 PROVE  \E k \in DOMAIN st[i].next : Resolve(st[i].next[k]) = m
      BY <1>1, <1>2, <1>8 DEF Coming
    <3>1. m \in DOMAIN tree.deps
      BY <1>6, NeedsIs
    <3>2. m # Resolve(name)
      BY <1>5, <1>8, <3>1 DEF key
    <3> QED
      BY <1>1, <3>2
  <2> QED
    BY <1>7, <2>2, <2>3, <2>4, <2>5, <2>6 DEF LoaderInv
<1>9. CASE /\ key \in DOMAIN tree.deps /\ key \notin done
           /\ stack' = Append(st, c) /\ done' = done \cup {key}
  <2>1. /\ c \in Calls /\ Len(stack') = n + 1 /\ DOMAIN stack' = 1 .. n + 1
        /\ stack' \in Seq(Calls)
        /\ stack'[n + 1] = c /\ \A i \in 1 .. n : stack'[i] = st[i]
    BY <1>1, <1>4, <1>9 DEF n
  <2>2. c.mod = key /\ c.next = First(key)
    BY DEF c
  <2>3. \A i \in 1 .. n + 1 : i \in 1 .. n \/ i = n + 1
    BY <1>1
  <2>4. n + 1 \in 1 .. n + 1 /\ \A i \in 1 .. n : i \in 1 .. n + 1 /\ i # n + 1
    BY <1>1
  <2>5. Mods' = Mods \cup {key}
    <3>1. Mods' = {stack'[i].mod : i \in 1 .. n + 1}
      BY <2>1 DEF Mods
    <3>2. \A i \in 1 .. n : stack'[i].mod = st[i].mod
      BY <2>1
    <3>3. stack'[n + 1].mod = key
      BY <2>1, <2>2
    <3> QED
      BY <1>6, <2>3, <2>4, <3>1, <3>2, <3>3
  <2>6. LoaderTypeOK'
    <3>1. DOMAIN tree.deps \subseteq AllModules
      BY TreeFacts
    <3>2. \A i \in DOMAIN stack' : stack'[i].mod \in AllModules
      <4>1. \A i \in DOMAIN stack' : stack'[i] \in Calls
        BY <2>1
      <4> QED
        BY <4>1 DEF Calls
    <3>3. done' \subseteq AllModules
      BY <1>9, <3>1 DEF LoaderInv, LoaderTypeOK
    <3> QED
      BY <3>2, <3>3 DEF LoaderInv, LoaderTypeOK
  <2>7. Stacked'
    <3>1. \A i \in 1 .. n + 1 : \A k \in DOMAIN stack'[i].next :
             stack'[i].next[k] \in ToSet(tree.soft[stack'[i].mod])
                                  \cup ToSet(tree.deps[stack'[i].mod])
      <4>1. ASSUME NEW i \in 1 .. n, NEW k \in DOMAIN stack'[i].next
            PROVE  stack'[i].next[k] \in ToSet(tree.soft[stack'[i].mod])
                                         \cup ToSet(tree.deps[stack'[i].mod])
        BY <1>1, <2>1
      <4>2. ASSUME NEW k \in DOMAIN c.next
            PROVE  c.next[k] \in ToSet(tree.soft[c.mod]) \cup ToSet(tree.deps[c.mod])
        BY <1>9, <2>2, FirstIs
      <4> QED
        BY <2>1, <2>3, <4>1, <4>2
    <3>2. Mods' \subseteq DOMAIN tree.deps
      BY <1>6, <1>9, <2>5
    <3>3. UNCHANGED <<tree, phase, round, tried>>
      OBVIOUS
    <3> QED
      BY <2>1, <3>1, <3>2, <3>3 DEF LoaderInv, Stacked
  <2>8. CalledOnce'
    <3>1. \A i \in 1 .. n : stack'[i].mod = stack[i].mod /\ stack[i].mod \in Mods
      BY <1>1, <2>1 DEF Mods
    <3>2. stack'[n + 1].mod = key /\ key \notin Mods /\ key \notin ToSet(tried)
      BY <1>6, <1>9, <2>1, <2>2
    <3>3. \A i, j \in 1 .. n : stack[i].mod = stack[j].mod => i = j
      BY <1>1 DEF LoaderInv, CalledOnce
    <3>4. \A i, j \in 1 .. n + 1 : stack'[i].mod = stack'[j].mod => i = j
      BY <2>3, <3>1, <3>2, <3>3
    <3>5. done' = ToSet(tried') \cup Mods' /\ ToSet(tried') \cap Mods' = {}
      BY <1>6, <1>9, <2>5, <3>2
    <3> QED
      BY <1>7, <2>1, <3>4, <3>5 DEF CalledOnce
  <2>9. Chained'
    <3> SUFFICES ASSUME NEW i \in 1 .. n + 1, i + 1 \in 1 .. n + 1
                 PROVE  stack'[i + 1].mod \in Needs(stack'[i].mod)
      BY <1>2, <2>1 DEF Chained
    <3>1. i \in 1 .. n
      BY <1>1
    <3>2. CASE i + 1 \in 1 .. n
      BY <1>1, <2>1, <3>1, <3>2 DEF LoaderInv, Chained
    <3>3. CASE i = n
      <4>1. stack # << >> /\ Len(stack) = n
        BY <1>1, <3>1 DEF n
      <4>2. key \in Needs(stack[n].mod)
        BY <1>5, <1>9, <4>1 DEF key
      <4> QED
        BY <1>1, <2>1, <2>2, <3>1, <3>3, <4>2
    <3> QED
      BY <1>1, <3>1, <3>2, <3>3
  <2>10. Coming'
    <3> SUFFICES ASSUME NEW i \in 1 .. n + 1, NEW m \in Needs(stack'[i].mod)
                 PROVE  \/ m \in done'
                        \/ \E k \in DOMAIN stack'[i].next : Resolve(stack'[i].next[k]) = m
      BY <1>2, <2>1 DEF Coming
    <3>1. CASE i \in 1 .. n
      <4>1. stack'[i] = st[i] /\ m \in Needs(st[i].mod) /\ i \in DOMAIN st
        BY <1>1, <2>1, <3>1
      <4>2. m \in done \/ m = key \/ \E k \in DOMAIN st[i].next : Resolve(st[i].next[k]) = m
        BY <4>1 DEF key
      <4> QED
        BY <1>9, <4>1, <4>2
    <3>2. CASE i = n + 1
      BY <1>9, <2>1, <2>2, <3>2, NeedsIs
    <3> QED
      BY <2>3, <3>1, <3>2
  <2> QED
    BY <1>7, <2>6, <2>7, <2>8, <2>9, <2>10 DEF LoaderInv
<1> QED
  BY <1>3, <1>8, <1>9

LEMMA LoadNextKeeps == LoaderInv /\ LoadNext => LoaderInv'
<1> SUFFICES ASSUME LoaderInv, LoadNext  PROVE LoaderInv'
  OBVIOUS
<1>1. tree \in Trees /\ phase \in {"names", "match"} /\ stack = << >>
  BY DEF LoadNext, LoaderInv, Stacked
<1>2. stack \in Seq(Calls) /\ DOMAIN stack = {}
  BY <1>1
<1> QED
  BY <1>1, <1>2, Calling DEF LoadNext

\* The call that makes another one has one name less left.
LEMMA LoadDepKeeps == LoaderInv /\ LoadDep => LoaderInv'
<1> SUFFICES ASSUME LoaderInv, LoadDep  PROVE LoaderInv'
  OBVIOUS
<1> DEFINE n == Len(stack)
           call == stack[n]
           name == Head(call.next)
           rest == [call EXCEPT !.next = Tail(@)]
           st == Append(Front(stack), rest)
<1>1. /\ stack # << >> /\ call.next # << >>
      /\ stack' = Push(name, st) /\ done' = Called(name)
      /\ UNCHANGED <<tree, phase, todo, tried, loaded, named, failed, round, before, seen, live,
                     present>>
  BY DEF LoadDep, Last
<1>2. /\ tree \in Trees /\ phase \in {"names", "match"} /\ stack \in Seq(Calls)
      /\ n \in Nat /\ DOMAIN stack = 1 .. n /\ n \in 1 .. n
  BY <1>1 DEF LoaderInv, Stacked
<1>3. call \in Calls /\ call.mod \in DOMAIN tree.deps
  BY <1>2 DEF LoaderInv, Stacked, Mods
<1>4. call.next \in Seq(STRING)
  BY <1>3 DEF Calls
<1>5. /\ Tail(call.next) \in Seq(STRING) /\ Len(call.next) >= 1 /\ 1 \in DOMAIN call.next
      /\ name = call.next[1] /\ DOMAIN call.next = 1 .. Len(call.next) /\ Len(call.next) \in Nat
      /\ DOMAIN Tail(call.next) = 1 .. Len(call.next) - 1
      /\ \A k \in 1 .. Len(call.next) - 1 : Tail(call.next)[k] = call.next[k + 1]
  <2> DEFINE s == call.next
  <2>1. s \in Seq(STRING) /\ s # << >>
    BY <1>1, <1>4
  <2> HIDE DEF s
  <2>2. /\ Tail(s) \in Seq(STRING) /\ Len(s) >= 1 /\ 1 \in DOMAIN s
        /\ Head(s) = s[1] /\ DOMAIN s = 1 .. Len(s) /\ Len(s) \in Nat
    BY <2>1
  <2>3. /\ DOMAIN Tail(s) = 1 .. Len(s) - 1
        /\ \A k \in 1 .. Len(s) - 1 : Tail(s)[k] = s[k + 1]
    BY <2>1
  <2> QED
    BY <2>2, <2>3 DEF s
<1>6. rest \in Calls /\ rest.mod = call.mod /\ rest.next = Tail(call.next)
  BY <1>3, <1>5 DEF Calls
<1>7. /\ Front(stack) \in Seq(Calls) /\ Len(Front(stack)) = n - 1
      /\ \A i \in 1 .. n - 1 : Front(stack)[i] = stack[i]
  <2>1. stack \in Seq(Calls) /\ 1 \in 1 .. n + 1 /\ n - 1 \in (1 - 1) .. n /\ n - 1 \in Nat
    BY <1>2
  <2> HIDE DEF n
  <2>2. SubSeq(stack, 1, n - 1) \in Seq(Calls)
    BY <1>2, <2>1 DEF n
  <2> QED
    BY <1>2, <2>1, <2>2 DEF Front, n
<1> HIDE DEF n, call, name, rest
<1>8. /\ st \in Seq(Calls) /\ Len(st) = n /\ DOMAIN st = 1 .. n
      /\ st[n] = rest /\ \A i \in 1 .. n - 1 : st[i] = stack[i]
  BY <1>2, <1>6, <1>7
<1> HIDE DEF st
<1>9. \A i \in 1 .. n : i = n \/ i \in 1 .. n - 1
  BY <1>2
<1>10. \A i \in DOMAIN stack : st[i].mod = stack[i].mod
  BY <1>2, <1>6, <1>8, <1>9 DEF call
<1>11. ASSUME NEW i \in DOMAIN st, NEW k \in DOMAIN st[i].next
       PROVE  st[i].next[k] \in ToSet(tree.soft[st[i].mod]) \cup ToSet(tree.deps[st[i].mod])
  <2>1. \A j \in 1 .. n : \A l \in DOMAIN stack[j].next :
           stack[j].next[l] \in ToSet(tree.soft[stack[j].mod]) \cup ToSet(tree.deps[stack[j].mod])
    BY <1>2 DEF LoaderInv, Stacked
  <2>2. CASE i \in 1 .. n - 1
    BY <1>2, <1>8, <1>11, <2>1, <2>2
  <2>3. CASE i = n
    <3>1. k + 1 \in DOMAIN call.next /\ st[i].next[k] = call.next[k + 1]
      <4>1. st[i].next = Tail(call.next) /\ k \in 1 .. Len(call.next) - 1
        BY <1>5, <1>6, <1>8, <1>11, <2>3
      <4>2. k + 1 \in 1 .. Len(call.next)
        BY <1>5, <4>1
      <4> QED
        BY <1>5, <4>1, <4>2
    <3> QED
      BY <1>2, <1>6, <1>8, <2>1, <2>3, <3>1 DEF call
  <2> QED
    BY <1>8, <1>9, <2>2, <2>3
<1>12. ASSUME NEW i \in DOMAIN st, NEW m \in Needs(st[i].mod)
       PROVE  \/ m \in done \/ m = Resolve(name)
              \/ \E k \in DOMAIN st[i].next : Resolve(st[i].next[k]) = m
  <2>1. \A j \in 1 .. n : \A d \in Needs(stack[j].mod) :
           d \in done \/ \E l \in DOMAIN stack[j].next : Resolve(stack[j].next[l]) = d
    BY <1>2 DEF LoaderInv, Coming
  <2>2. CASE i \in 1 .. n - 1
    BY <1>2, <1>8, <1>12, <2>1, <2>2
  <2>3. CASE i = n
    <3>1. m \in done \/ \E l \in DOMAIN call.next : Resolve(call.next[l]) = m
      BY <1>2, <1>6, <1>8, <1>12, <2>1, <2>3 DEF call
    <3>2. ASSUME NEW l \in DOMAIN call.next, Resolve(call.next[l]) = m, l # 1
          PROVE  \E k \in DOMAIN st[i].next : Resolve(st[i].next[k]) = m
      <4>1. l - 1 \in 1 .. Len(call.next) - 1 /\ (l - 1) + 1 = l
        BY <1>5, <3>2
      <4>2. rest.next[l - 1] = call.next[l] /\ l - 1 \in DOMAIN rest.next
        BY <1>5, <1>6, <4>1
      <4> QED
        BY <1>8, <2>3, <3>2, <4>2
    <3> QED
      BY <1>5, <3>1, <3>2
  <2> QED
    BY <1>8, <1>9, <2>2, <2>3
<1>13. Resolve(name) \in Needs(call.mod) \cup {Unresolved}
  <2>1. name \in ToSet(tree.soft[call.mod]) \cup ToSet(tree.deps[call.mod])
    BY <1>2, <1>5 DEF LoaderInv, Stacked, call
  <2> QED
    BY <2>1 DEF Needs
<1>14. Len(st) = Len(stack) /\ call = stack[Len(stack)]
  BY <1>8 DEF n, call
<1> QED
  BY <1>1, <1>2, <1>8, <1>10, <1>11, <1>12, <1>13, <1>14, Calling

\* A module that needs one whose call is in progress is on a cycle: it is the last
\* of a stack of calls each of which the one below needs.
LEMMA InProgress ==
    ASSUME LoaderInv, stack # << >>, NEW i \in DOMAIN stack,
           stack[i].mod \in Needs(stack[Len(stack)].mod)
    PROVE  stack[Len(stack)].mod \in Closure(Needs(stack[Len(stack)].mod))
<1> DEFINE n == Len(stack)
<1>1. /\ n \in Nat /\ DOMAIN stack = 1 .. n /\ i \in 1 .. n /\ n \in 1 .. n
      /\ stack[n].mod \in DOMAIN tree.deps
  BY DEF LoaderInv, Stacked, Mods
<1> SUFFICES ASSUME NEW C \in SUBSET DOMAIN tree.deps, Needs(stack[n].mod) \subseteq C,
                    \A k \in C : Needs(k) \subseteq C
             PROVE  stack[n].mod \in C
  BY <1>1 DEF Closure
<1> HIDE DEF n
<1> DEFINE Out == {j \in i .. n : stack[j].mod \notin C}
<1> SUFFICES ASSUME Out # {}  PROVE FALSE
  BY <1>1
<1>2. PICK j \in Out : \A k \in Out : j <= k
  <2>1. Out \subseteq Nat
    BY <1>1
  <2> QED
    BY <2>1, Least
<1>3. j \in i .. n /\ stack[j].mod \notin C
  OBVIOUS
<1>4. j # i
  BY <1>3 DEF n
<1>5. j - 1 \in i .. n /\ j - 1 \in 1 .. n /\ (j - 1) + 1 = j /\ j \in 1 .. n /\ ~(j <= j - 1)
  BY <1>1, <1>3, <1>4
<1>6. stack[j - 1].mod \in C
  BY <1>2, <1>5
<1>7. stack[j].mod \in Needs(stack[j - 1].mod)
  BY <1>1, <1>5 DEF LoaderInv, Chained
<1> QED
  BY <1>3, <1>6, <1>7

LEMMA InitModuleKeeps == LoaderInv /\ InitModule => LoaderInv'
<1> SUFFICES ASSUME LoaderInv, InitModule  PROVE LoaderInv'
  OBVIOUS
<1> DEFINE n == Len(stack)
           key == stack[n].mod
           T == ToSet(tried)
<1>1. /\ stack # << >> /\ stack[n].next = << >>
      /\ tried' = Append(tried, key) /\ stack' = Front(stack)
      /\ UNCHANGED <<tree, phase, todo, done, named, round, before, seen, present>>
      /\ \/ /\ key \notin live /\ Refused(key) /\ failed' = failed \cup {key}
            /\ UNCHANGED <<loaded, live>>
         \/ live' = live \cup {key} /\ loaded' = loaded + 1 /\ UNCHANGED failed
  BY DEF InitModule, Last
<1>2. /\ tree \in Trees /\ phase \in {"names", "match"} /\ stack \in Seq(Calls)
      /\ n \in Nat /\ DOMAIN stack = 1 .. n /\ n \in 1 .. n
  BY <1>1 DEF LoaderInv, Stacked
<1>3. /\ key \in Mods /\ key \in DOMAIN tree.deps /\ key \in AllModules
      /\ key \notin T /\ key \notin failed
      /\ tried \in Seq(AllModules) /\ failed \subseteq T /\ T \subseteq AllModules
  <2>1. key \in Mods /\ key \in DOMAIN tree.deps
    BY <1>2 DEF LoaderInv, Stacked, Mods
  <2>2. key \in AllModules
    BY <1>2, <2>1, TreeFacts
  <2>3. tried \in Seq(AllModules) /\ failed \subseteq T /\ T \subseteq AllModules
    BY DEF LoaderInv, LoaderTypeOK, Stacked
  <2>4. key \notin T
    BY <2>1 DEF LoaderInv, CalledOnce
  <2> QED
    BY <2>1, <2>2, <2>3, <2>4
<1>4. /\ stack' \in Seq(Calls) /\ Len(stack') = n - 1 /\ DOMAIN stack' = 1 .. n - 1
      /\ \A i \in 1 .. n - 1 : stack'[i] = stack[i] /\ i \in 1 .. n
  <2>1. stack \in Seq(Calls) /\ n - 1 \in Nat
    BY <1>2
  <2> HIDE DEF n
  <2>2. SubSeq(stack, 1, n - 1) \in Seq(Calls)
    BY <1>2, <2>1 DEF n
  <2> QED
    BY <1>1, <1>2, <2>1, <2>2 DEF Front, n
<1>5. \A x : Resolve(x)' = Resolve(x)
  BY <1>1, SameTree
<1>6. \A m : Needs(m)' = Needs(m)
  BY <1>1, SameTree
<1>7. /\ tried' \in Seq(AllModules) /\ tried' # << >> /\ Len(tried) \in Nat
      /\ DOMAIN tried = 1 .. Len(tried) /\ DOMAIN tried' = 1 .. Len(tried) + 1
      /\ tried'[Len(tried) + 1] = key
      /\ \A i \in 1 .. Len(tried) : tried'[i] = tried[i]
  BY <1>1, <1>3
<1> HIDE DEF n, key
<1>8. ToSet(tried') = T \cup {key}
  <2>1. \A i \in 1 .. Len(tried) + 1 : i \in 1 .. Len(tried) \/ i = Len(tried) + 1
    BY <1>7
  <2>2. \A i \in 1 .. Len(tried) : i \in 1 .. Len(tried) + 1
    BY <1>7
  <2>3. Len(tried) + 1 \in 1 .. Len(tried) + 1
    BY <1>7
  <2> QED
    BY <1>7, <2>1, <2>2, <2>3 DEF ToSet
<1>9. Mods' = Mods \ {key}
  <2>1. Mods' = {stack[i].mod : i \in 1 .. n - 1}
    BY <1>4 DEF Mods
  <2>2. Mods = {stack[i].mod : i \in 1 .. n}
    BY <1>2 DEF Mods
  <2>3. \A i, j \in 1 .. n : stack[i].mod = stack[j].mod => i = j
    BY <1>2 DEF LoaderInv, CalledOnce
  <2>4. \A i \in 1 .. n - 1 : i \in 1 .. n /\ i # n
    BY <1>2
  <2>5. \A i \in 1 .. n : i = n \/ i \in 1 .. n - 1
    BY <1>2
  <2> QED
    BY <1>2, <2>1, <2>2, <2>3, <2>4, <2>5 DEF key
<1>10. IsFiniteSet(T)
  <2>1. tried \in Surjection(1 .. Len(tried), T)
    BY <1>3, <1>7 DEF Surjection, ToSet
  <2>2. IsFiniteSet(1 .. Len(tried))
    BY <1>7, FS_Interval
  <2> HIDE DEF T
  <2> QED
    BY <2>1, <2>2, FS_Surjection
<1>11. loaded = Cardinality(T \ failed) /\ loaded \in Nat
  BY DEF LoaderInv, LoaderTypeOK, CalledOnce, EachOnce
<1>12. /\ loaded' = Cardinality(ToSet(tried') \ failed') /\ loaded' \in Nat /\ loaded <= loaded'
       /\ failed' \subseteq T \cup {key}
       /\ ToSet(tried') \ failed' \subseteq live' /\ live' \subseteq AllModules
  <2>1. T \ failed \subseteq live /\ live \subseteq AllModules
    BY DEF LoaderInv, Lives, LoaderTypeOK
  <2> HIDE DEF T
  <2>2. CASE failed' = failed \cup {key} /\ UNCHANGED <<loaded, live>>
    <3>1. (T \cup {key}) \ (failed \cup {key}) = T \ failed
      BY <1>3
    <3> QED
      <4>1. loaded' = Cardinality(ToSet(tried') \ failed') /\ loaded' \in Nat /\ loaded <= loaded'
        BY <1>8, <1>11, <2>2, <3>1
      <4>2. failed' \subseteq T \cup {key}
        BY <1>3, <2>2
      <4>3. ToSet(tried') \ failed' \subseteq live' /\ live' \subseteq AllModules
        BY <1>8, <2>1, <2>2, <3>1
      <4> QED
        BY <4>1, <4>2, <4>3
  <2>3. CASE live' = live \cup {key} /\ loaded' = loaded + 1 /\ UNCHANGED failed
    <3>1. (T \cup {key}) \ failed = (T \ failed) \cup {key} /\ key \notin T \ failed
      BY <1>3
    <3>2. IsFiniteSet(T \ failed)
      BY <1>10, FS_Difference
    <3>3. Cardinality((T \ failed) \cup {key}) = Cardinality(T \ failed) + 1
      BY <3>1, <3>2, FS_AddElement
    <3> QED
      <4>1. loaded' = Cardinality(ToSet(tried') \ failed') /\ loaded' \in Nat /\ loaded <= loaded'
        BY <1>8, <1>11, <2>3, <3>1, <3>3
      <4>2. failed' \subseteq T \cup {key}
        BY <1>3, <2>3
      <4>3. ToSet(tried') \ failed' \subseteq live' /\ live' \subseteq AllModules
        BY <1>3, <1>8, <2>1, <2>3, <3>1
      <4> QED
        BY <4>1, <4>2, <4>3
  <2> QED
    BY <1>1, <2>2, <2>3
<1>13. LoaderTypeOK'
  <2>1. \A i \in DOMAIN stack' : stack'[i].mod \in AllModules
    BY <1>2, <1>4 DEF LoaderInv, LoaderTypeOK
  <2>2. named \in 0 .. loaded' /\ before \in 0 .. loaded'
    BY <1>11, <1>12 DEF LoaderInv, LoaderTypeOK
  <2>3. ToSet(tried') \subseteq AllModules /\ failed' \subseteq ToSet(tried')
    BY <1>3, <1>8, <1>12
  <2> HIDE DEF T
  <2> QED
    BY <1>1, <1>12, <2>1, <2>2, <2>3 DEF LoaderInv, LoaderTypeOK
<1>14. Stacked'
  <2>1. Mods' \subseteq DOMAIN tree.deps
    BY <1>9 DEF LoaderInv, Stacked
  <2>2. \A i \in DOMAIN stack' : \A k \in DOMAIN stack'[i].next :
           stack'[i].next[k] \in ToSet(tree.soft[stack'[i].mod])
                                \cup ToSet(tree.deps[stack'[i].mod])
    BY <1>2, <1>4 DEF LoaderInv, Stacked
  <2> QED
    BY <1>1, <1>2, <1>4, <1>7, <2>1, <2>2 DEF LoaderInv, Stacked
<1>15. CalledOnce'
  <2>1. done' = ToSet(tried') \cup Mods' /\ ToSet(tried') \cap Mods' = {}
    BY <1>1, <1>3, <1>8, <1>9 DEF LoaderInv, CalledOnce
  <2>2. \A i, j \in DOMAIN stack' : stack'[i].mod = stack'[j].mod => i = j
    BY <1>2, <1>4 DEF LoaderInv, CalledOnce
  <2>3. \A i, j \in DOMAIN tried' : tried'[i] = tried'[j] => i = j
    <3>1. \A i, j \in 1 .. Len(tried) : tried[i] = tried[j] => i = j
      BY <1>7 DEF LoaderInv, CalledOnce, EachOnce
    <3>2. \A i \in 1 .. Len(tried) : tried[i] # key
      BY <1>3, <1>7 DEF ToSet
    <3>3. \A i \in 1 .. Len(tried) + 1 : i \in 1 .. Len(tried) \/ i = Len(tried) + 1
      BY <1>7
    <3> QED
      BY <1>7, <3>1, <3>2, <3>3
  <2> QED
    BY <1>12, <2>1, <2>2, <2>3 DEF CalledOnce, EachOnce
<1>16. Chained'
  <2> SUFFICES ASSUME NEW i \in 1 .. n - 1, i + 1 \in 1 .. n - 1
               PROVE  stack'[i + 1].mod \in Needs(stack'[i].mod)
    BY <1>4, <1>6 DEF Chained
  <2> QED
    BY <1>2, <1>4 DEF LoaderInv, Chained
<1>17. Coming'
  <2> SUFFICES ASSUME NEW i \in 1 .. n - 1, NEW m \in Needs(stack'[i].mod)
               PROVE  \/ m \in done
                      \/ \E k \in DOMAIN stack'[i].next : Resolve(stack'[i].next[k]) = m
    BY <1>1, <1>4, <1>5, <1>6 DEF Coming
  <2> QED
    BY <1>2, <1>4 DEF LoaderInv, Coming
<1>18. Lives'
  BY <1>12 DEF Lives
<1>19. FailsForAReason'
  <2>1. ASSUME NEW m \in failed
        PROVE  m \in tree.bad \/ Needs(m) \cap failed' # {} \/ m \in Closure(Needs(m))
    BY <1>1 DEF LoaderInv, FailsForAReason
  <2>2. ASSUME key \notin live, Refused(key)
        PROVE  key \in tree.bad \/ Needs(key) \cap failed # {} \/ key \in Closure(Needs(key))
    <3>1. CASE key \in tree.bad
      BY <3>1
    <3>2. CASE ~(Needs(key) \subseteq live)
      <4>1. PICK d \in Needs(key) : d \notin live
        BY <3>2
      <4>2. d \in done
        <5>1. DOMAIN stack[n].next = {}
          BY <1>1
        <5> QED
          BY <1>2, <4>1, <5>1 DEF LoaderInv, Coming, key
      <4>3. CASE d \in T
        BY <4>1, <4>3 DEF LoaderInv, Lives
      <4>4. CASE d \in Mods
        <5>1. PICK i \in DOMAIN stack : stack[i].mod = d
          BY <4>4 DEF Mods
        <5>2. key \in Closure(Needs(key))
          BY <1>1, <4>1, <5>1, InProgress DEF key, n
        <5> QED
          BY <5>2
      <4> QED
        BY <4>2, <4>3, <4>4 DEF LoaderInv, CalledOnce
    <3> QED
      BY <2>2, <3>1, <3>2 DEF Refused
  <2>3. \A m \in failed' : m \in tree.bad \/ Needs(m) \cap failed' # {} \/ m \in Closure(Needs(m))
    BY <1>1, <2>1, <2>2
  <2>4. \A S : Closure(S)' = Closure(S)
    BY <1>1, SameTree
  <2> QED
    BY <1>1, <1>6, <2>3, <2>4 DEF FailsForAReason
<1> QED
  BY <1>13, <1>14, <1>15, <1>16, <1>17, <1>18, <1>19 DEF LoaderInv

LEMMA NamesDoneKeeps == LoaderInv /\ NamesDone => LoaderInv'
<1> SUFFICES ASSUME LoaderInv, NamesDone  PROVE LoaderInv'
  OBVIOUS
<1>1. /\ phase = "names" /\ stack = << >> /\ named' = loaded /\ phase' = "scan"
      /\ UNCHANGED <<tree, todo, stack, done, tried, loaded, failed, round, before, seen, live,
                     present>>
  BY DEF NamesDone
<1>2. LoaderTypeOK'
  <2>1. loaded \in Nat /\ loaded \in 0 .. loaded
    BY DEF LoaderInv, LoaderTypeOK
  <2> QED
    BY <1>1, <2>1 DEF LoaderInv, LoaderTypeOK
<1>3. (\A x : Resolve(x)' = Resolve(x)) /\ (\A m : Needs(m)' = Needs(m))
  BY <1>1, SameTree
<1>4. Stacked'
  BY <1>1 DEF LoaderInv, Stacked, Mods
<1>5. CalledOnce' /\ Lives' /\ FailsForAReason'
  BY <1>1, SameReasons DEF LoaderInv, CalledOnce, EachOnce, Mods, Lives
<1>6. Chained' /\ Coming'
  BY <1>1, <1>3 DEF LoaderInv, Chained, Coming
<1> QED
  BY <1>2, <1>4, <1>5, <1>6 DEF LoaderInv

LEMMA ScanKeeps == LoaderInv /\ Scan => LoaderInv'
<1> SUFFICES ASSUME LoaderInv, Scan  PROVE LoaderInv'
  OBVIOUS
<1>1. /\ phase = "scan" /\ seen' = present /\ before' = loaded /\ phase' = "match"
      /\ UNCHANGED <<tree, stack, done, tried, loaded, named, failed, round, live, present>>
  BY DEF Scan
<1>2. LoaderTypeOK'
  <2>1. loaded \in Nat /\ loaded \in 0 .. loaded
    BY DEF LoaderInv, LoaderTypeOK
  <2> QED
    BY <1>1, <2>1 DEF LoaderInv, LoaderTypeOK
<1>3. (\A x : Resolve(x)' = Resolve(x)) /\ (\A m : Needs(m)' = Needs(m))
  BY <1>1, SameTree
<1>4. Stacked'
  BY <1>1 DEF LoaderInv, Stacked, Mods
<1>5. CalledOnce' /\ Lives' /\ FailsForAReason'
  BY <1>1, SameReasons DEF LoaderInv, CalledOnce, EachOnce, Mods, Lives
<1>6. Chained' /\ Coming'
  BY <1>1, <1>3 DEF LoaderInv, Chained, Coming
<1> QED
  BY <1>2, <1>4, <1>5, <1>6 DEF LoaderInv

LEMMA RoundDoneKeeps == LoaderInv /\ RoundDone => LoaderInv'
<1> SUFFICES ASSUME LoaderInv, RoundDone  PROVE LoaderInv'
  OBVIOUS
<1>1. /\ phase = "match" /\ stack = << >> /\ round' = round + 1 /\ phase' \in {"end", "scan"}
      /\ round + 1 = MaxDeviceRounds => phase' = "end"
      /\ UNCHANGED <<tree, todo, stack, done, tried, loaded, named, failed, before, seen, live,
                     present>>
  BY DEF RoundDone
<1>2. /\ tree \in Trees /\ round < MaxDeviceRounds /\ round \in Nat /\ MaxDeviceRounds \in Nat
  BY <1>1, RoundsPositive DEF LoaderInv, Stacked, LoaderTypeOK
<1>3. round' \in 0 .. MaxDeviceRounds /\ (phase' = "scan" => round' < MaxDeviceRounds)
  BY <1>1, <1>2
<1>4. LoaderTypeOK'
  BY <1>1, <1>3 DEF LoaderInv, LoaderTypeOK
<1>5. (\A x : Resolve(x)' = Resolve(x)) /\ (\A m : Needs(m)' = Needs(m))
  BY <1>1, SameTree
<1>6. Stacked'
  BY <1>1, <1>2, <1>3 DEF LoaderInv, Stacked, Mods
<1>7. CalledOnce' /\ Lives' /\ FailsForAReason'
  BY <1>1, SameReasons DEF LoaderInv, CalledOnce, EachOnce, Mods, Lives
<1>8. Chained' /\ Coming'
  BY <1>1, <1>5 DEF LoaderInv, Chained, Coming
<1> QED
  BY <1>4, <1>6, <1>7, <1>8 DEF LoaderInv

LEMMA LoaderStepKeeps == LoaderInv /\ LoaderStep => LoaderInv'
BY LoadNextKeeps, LoadDepKeeps, InitModuleKeeps, NamesDoneKeeps, ScanKeeps, RoundDoneKeeps
   DEF LoaderStep

\* A resolver that has done nothing.
LEMMA FreshInv ==
    ASSUME NEW t \in Trees \cup {NoTree}, NEW p \in {"off", "names", "end"}, NEW names,
           p = "names" => t \in Trees, Fresh(t, p, names), LoaderTypeOK,
           UNCHANGED <<live, present>>
    PROVE  LoaderInv'
<1>1. /\ tree' = t /\ phase' = p /\ stack' = << >> /\ tried' = << >>
      /\ done' = {} /\ failed' = {} /\ seen' = {}
      /\ loaded' = 0 /\ named' = 0 /\ round' = 0 /\ before' = 0
  BY DEF Fresh
<1>2. stack' \in Seq(Calls) /\ DOMAIN stack' = {} /\ tried' \in Seq(AllModules) /\ DOMAIN tried' = {}
  BY <1>1
<1>3. 0 < MaxDeviceRounds /\ 0 \in 0 .. MaxDeviceRounds
  BY RoundsPositive
<1>4. ToSet(tried') = {} /\ Mods' = {} /\ Cardinality({} \ {}) = 0
  BY <1>2, FS_EmptySet DEF ToSet, Mods
<1>5. LoaderTypeOK'
  BY <1>1, <1>2, <1>3, <1>4 DEF LoaderTypeOK
<1>6. Stacked'
  BY <1>1, <1>2, <1>3, <1>4 DEF Stacked
<1>7. CalledOnce'
  BY <1>1, <1>2, <1>4 DEF CalledOnce, EachOnce
<1>8. Chained' /\ Coming' /\ Lives' /\ FailsForAReason'
  BY <1>1, <1>2, <1>4 DEF Chained, Coming, Lives, FailsForAReason
<1> QED
  BY <1>5, <1>6, <1>7, <1>8 DEF LoaderInv

LEMMA NewResolverInv ==
    ASSUME LoaderInv, NEW t \in Trees \cup {NoTree}, NewResolver(t), UNCHANGED <<live, present>>
    PROVE  LoaderInv'
<1>1. CASE t = NoTree
  BY <1>1, FreshInv DEF NewResolver, LoaderInv
<1>2. CASE t # NoTree
  BY <1>2, FreshInv DEF NewResolver, LoaderInv
<1> QED
  BY <1>1, <1>2

LEMMA DropResolverInv ==
    ASSUME LoaderInv, DropResolver, UNCHANGED <<live, present>>
    PROVE  LoaderInv'
BY FreshInv DEF DropResolver, LoaderInv

LEMMA SameLoader == LoaderInv /\ UNCHANGED loaderVars => LoaderInv'
<1> SUFFICES ASSUME LoaderInv, UNCHANGED loaderVars  PROVE LoaderInv'
  OBVIOUS
<1>1. UNCHANGED <<tree, phase, todo, stack, done, tried, loaded, named, failed, round, before,
                  seen, live, present>>
  BY DEF loaderVars
<1>2. (\A x : Resolve(x)' = Resolve(x)) /\ (\A m : Needs(m)' = Needs(m))
  BY <1>1, SameTree
<1>3. LoaderTypeOK' /\ Stacked' /\ Lives' /\ FailsForAReason'
  BY <1>1, SameReasons DEF LoaderInv, LoaderTypeOK, Stacked, Mods, Lives
<1>4. CalledOnce' /\ Chained' /\ Coming'
  BY <1>1, <1>2 DEF LoaderInv, CalledOnce, EachOnce, Mods, Chained, Coming
<1> QED
  BY <1>3, <1>4 DEF LoaderInv

LEMMA DeviceAppearsKeeps == LoaderInv /\ DeviceAppears => LoaderInv'
<1> SUFFICES ASSUME LoaderInv, DeviceAppears  PROVE LoaderInv'
  OBVIOUS
<1>1. PICK d \in ToSet(Devices) : present' = present \cup {d}
  BY DEF DeviceAppears
<1>2. UNCHANGED <<tree, phase, todo, stack, done, tried, loaded, named, failed, round, before,
                  seen, live>>
  BY DEF DeviceAppears, resolver
<1>3. (\A x : Resolve(x)' = Resolve(x)) /\ (\A m : Needs(m)' = Needs(m))
  BY <1>2, SameTree
<1>4. LoaderTypeOK' /\ Stacked' /\ Lives' /\ FailsForAReason'
  BY <1>1, <1>2, SameReasons DEF LoaderInv, LoaderTypeOK, Stacked, Mods, Lives
<1>5. CalledOnce' /\ Chained' /\ Coming'
  BY <1>2, <1>3 DEF LoaderInv, CalledOnce, EachOnce, Mods, Chained, Coming
<1> QED
  BY <1>4, <1>5 DEF LoaderInv

\* Nothing is loaded when the machine starts.
LEMMA LoaderStarts == LoaderInit => LoaderInv
<1> SUFFICES ASSUME LoaderInit  PROVE LoaderInv
  OBVIOUS
<1>1. /\ tree = NoTree /\ phase = "off" /\ stack = << >> /\ tried = << >>
      /\ done = {} /\ failed = {} /\ seen = {} /\ live = {}
      /\ loaded = 0 /\ named = 0 /\ round = 0 /\ before = 0
      /\ present \subseteq ToSet(Devices)
  BY DEF LoaderInit
<1>2. stack \in Seq(Calls) /\ DOMAIN stack = {} /\ tried \in Seq(AllModules) /\ DOMAIN tried = {}
  BY <1>1
<1>3. 0 \in 0 .. MaxDeviceRounds
  BY RoundsPositive
<1>4. ToSet(tried) = {} /\ Mods = {} /\ Cardinality({} \ {}) = 0
  BY <1>2, FS_EmptySet DEF ToSet, Mods
<1>5. LoaderTypeOK
  BY <1>1, <1>2, <1>3, <1>4 DEF LoaderTypeOK
<1>6. Stacked
  BY <1>1, <1>2, <1>4 DEF Stacked
<1>7. CalledOnce
  BY <1>1, <1>2, <1>4 DEF CalledOnce, EachOnce
<1>8. Chained /\ Coming /\ Lives /\ FailsForAReason
  BY <1>1, <1>2, <1>4 DEF Chained, Coming, Lives, FailsForAReason
<1> QED
  BY <1>5, <1>6, <1>7, <1>8 DEF LoaderInv

-----------------------------------------------------------------------------
(* What the drivers of the devices are, and in which order.                *)

\* A place in the walk before another.
Lex(p, q) == p[1] < q[1] \/ (p[1] = q[1] /\ p[2] < q[2])

\* Places in the walk have a first one.
LEMMA FirstPlace ==
    ASSUME NEW H \in SUBSET (Nat \X Nat), H # {}
    PROVE  \E p \in H : \A q \in H : p = q \/ Lex(p, q)
<1> DEFINE A == {p[1] : p \in H}
<1>1. PICK a \in A : \A x \in A : a <= x
  <2>1. A \subseteq Nat /\ A # {}
    OBVIOUS
  <2> QED
    BY <2>1, Least
<1> DEFINE B == {p[2] : p \in {q \in H : q[1] = a}}
<1>2. PICK b \in B : \A y \in B : b <= y
  <2>1. B \subseteq Nat /\ B # {}
    BY <1>1
  <2> QED
    BY <2>1, Least
<1>3. PICK p \in H : p[1] = a /\ p[2] = b
  BY <1>2
<1>4. ASSUME NEW q \in H  PROVE p = q \/ Lex(p, q)
  <2>1. /\ p = <<p[1], p[2]>> /\ q = <<q[1], q[2]>>
        /\ p[1] \in Nat /\ p[2] \in Nat /\ q[1] \in Nat /\ q[2] \in Nat
    OBVIOUS
  <2>2. a <= q[1]
    BY <1>1
  <2>3. q[1] = a => b <= q[2]
    BY <1>2
  <2> HIDE DEF A, B
  <2>4. p[1] < q[1] \/ (p[1] = q[1] /\ p[2] < q[2]) \/ (p[1] = q[1] /\ p[2] = q[2])
    BY <1>3, <2>1, <2>2, <2>3
  <2> QED
    BY <2>1, <2>4 DEF Lex
<1> QED
  BY <1>4

\* Every driver of devices that are there matches somewhere, and no place is a
\* match of two.
LEMMA HitsAre ==
    ASSUME tree \in Trees, NEW devs, devs \subseteq ToSet(Devices)
    PROVE  /\ \A m : Hits(m, devs) \in SUBSET (Nat \X Nat)
           /\ \A m \in Drivers(devs) : Hits(m, devs) # {}
           /\ \A m, k : \A p \in Hits(m, devs) : p \in Hits(k, devs) => m = k
<1> DEFINE n == Len(tree.patterns)
           D == Len(Devices)
           Entry == [device : STRING, module : STRING]
<1>1. /\ n \in Nat /\ D \in Nat /\ DOMAIN tree.patterns = 1 .. n /\ DOMAIN Devices = 1 .. D
      /\ \A k \in 1 .. n : tree.patterns[k] \in Entry
  <2>1. tree.patterns \in Seq(Entry) /\ Devices \in Seq(STRING)
    BY TreesIndexed, Listed
  <2> HIDE DEF Entry
  <2> QED
    BY <2>1
<1> HIDE DEF n, D
<1>2. \A m : Hits(m, devs) \in SUBSET (Nat \X Nat)
  BY <1>1 DEF Hits
<1>3. ASSUME NEW m \in Drivers(devs)  PROVE Hits(m, devs) # {}
  <2>1. PICK k \in 1 .. n : tree.patterns[k].module = m /\ tree.patterns[k].device \in devs
    BY <1>1 DEF Drivers, ToSet
  <2>2. PICK i \in 1 .. D : Devices[i] = tree.patterns[k].device
    BY <1>1, <2>1 DEF ToSet
  <2>3. tree.patterns[k] = [device |-> Devices[i], module |-> m]
    BY <1>1, <2>1, <2>2
  <2>4. <<i, k>> \in Hits(m, devs)
    BY <1>1, <2>1, <2>2, <2>3 DEF Hits
  <2> QED
    BY <2>4
<1>4. ASSUME NEW m, NEW k, NEW p \in Hits(m, devs), p \in Hits(k, devs)  PROVE m = k
  <2>1. [device |-> Devices[p[1]], module |-> m] = [device |-> Devices[p[1]], module |-> k]
    BY <1>4 DEF Hits
  <2> QED
    BY <2>1
<1> QED
  BY <1>2, <1>3, <1>4

\* Sooner is a strict total order on the drivers.
LEMMA SoonerOrders ==
    ASSUME tree \in Trees, NEW devs, devs \subseteq ToSet(Devices)
    PROVE  /\ \A m \in Drivers(devs) : ~Sooner(m, m, devs)
           /\ \A l, m, k \in Drivers(devs) :
                 Sooner(l, m, devs) /\ Sooner(m, k, devs) => Sooner(l, k, devs)
           /\ \A m, k \in Drivers(devs) : m # k => Sooner(m, k, devs) \/ Sooner(k, m, devs)
<1> DEFINE H(m) == Hits(m, devs)
<1>1. /\ \A m : H(m) \in SUBSET (Nat \X Nat)
      /\ \A m \in Drivers(devs) : H(m) # {}
      /\ \A m, k : \A p \in H(m) : p \in H(k) => m = k
  BY HitsAre
<1>2. \A m, k : Sooner(m, k, devs) <=> \E p \in H(m) : \A q \in H(k) : Lex(p, q)
  BY DEF Sooner, Lex
<1>3. /\ \A p \in Nat \X Nat : ~Lex(p, p)
      /\ \A p, q, r \in Nat \X Nat : Lex(p, q) /\ Lex(q, r) => Lex(p, r)
      /\ \A p, q \in Nat \X Nat : p = q \/ Lex(p, q) \/ Lex(q, p)
  <2>1. \A p \in Nat \X Nat : p[1] \in Nat /\ p[2] \in Nat /\ p = <<p[1], p[2]>>
    OBVIOUS
  <2>2. \A p \in Nat \X Nat : ~Lex(p, p)
    BY <2>1 DEF Lex
  <2>3. \A p, q, r \in Nat \X Nat : Lex(p, q) /\ Lex(q, r) => Lex(p, r)
    BY <2>1 DEF Lex
  <2>4. ASSUME NEW p \in Nat \X Nat, NEW q \in Nat \X Nat, ~Lex(p, q), ~Lex(q, p)
        PROVE  p = q
    <3>1. p[1] = q[1] /\ p[2] = q[2]
      BY <2>1, <2>4 DEF Lex
    <3> QED
      BY <2>1, <3>1
  <2> QED
    BY <2>2, <2>3, <2>4
<1> HIDE DEF H
<1>4. ASSUME NEW m \in Drivers(devs)  PROVE ~Sooner(m, m, devs)
  BY <1>1, <1>2, <1>3
<1>5. ASSUME NEW l \in Drivers(devs), NEW m \in Drivers(devs), NEW k \in Drivers(devs),
             Sooner(l, m, devs), Sooner(m, k, devs)
      PROVE  Sooner(l, k, devs)
  <2>1. PICK p \in H(l) : \A q \in H(m) : Lex(p, q)
    BY <1>2, <1>5
  <2>2. PICK q \in H(m) : \A r \in H(k) : Lex(q, r)
    BY <1>2, <1>5
  <2>3. \A r \in H(k) : Lex(p, r)
    BY <1>1, <1>3, <2>1, <2>2
  <2> QED
    BY <1>2, <2>3
<1>6. ASSUME NEW m \in Drivers(devs), NEW k \in Drivers(devs), m # k
      PROVE  Sooner(m, k, devs) \/ Sooner(k, m, devs)
  <2>1. PICK p \in H(m) : \A q \in H(m) : p = q \/ Lex(p, q)
    BY <1>1, FirstPlace
  <2>2. PICK r \in H(k) : \A q \in H(k) : r = q \/ Lex(r, q)
    BY <1>1, FirstPlace
  <2>3. p \in Nat \X Nat /\ r \in Nat \X Nat /\ p # r
    BY <1>1, <1>6
  <2>4. CASE Lex(p, r)
    <3>1. \A q \in H(k) : Lex(p, q)
      BY <1>1, <1>3, <2>2, <2>3, <2>4
    <3> QED
      BY <1>2, <3>1
  <2>5. CASE Lex(r, p)
    <3>1. \A q \in H(m) : Lex(r, q)
      BY <1>1, <1>3, <2>1, <2>3, <2>5
    <3> QED
      BY <1>2, <3>1
  <2> QED
    BY <1>3, <2>3, <2>4, <2>5
<1> QED
  BY <1>4, <1>5, <1>6

\* The list holds every driver, and nothing else.
LEMMA MatchedAll ==
    ASSUME tree \in Trees, NEW devs, devs \subseteq ToSet(Devices)
    PROVE  /\ MatchDevices(devs) \in Seq(STRING)
           /\ ToSet(MatchDevices(devs)) = Drivers(devs)
<1> DEFINE D == Drivers(devs)
           S(m) == {k \in D : Sooner(k, m, devs)}
           rank == [m \in D |-> Cardinality(S(m)) + 1]
           n == Cardinality(D)
           out == [i \in 1 .. n |-> CHOOSE m \in D : Cardinality(S(m)) = i - 1]
<1>1. D \subseteq STRING /\ IsFiniteSet(D)
  <2> DEFINE Entry == [device : STRING, module : STRING]
             P == tree.patterns
             R == {x \in ToSet(P) : x.device \in devs}
             f == [x \in R |-> x.module]
  <2>1. P \in Seq(Entry)
    BY TreesIndexed
  <2> HIDE DEF Entry, P
  <2>2. Len(P) \in Nat /\ DOMAIN P = 1 .. Len(P) /\ P \in [1 .. Len(P) -> Entry]
    BY <2>1
  <2>3. IsFiniteSet(ToSet(P)) /\ ToSet(P) \subseteq Entry
    <3>1. P \in Surjection(1 .. Len(P), ToSet(P))
      BY <2>2 DEF Surjection, ToSet
    <3>2. IsFiniteSet(1 .. Len(P))
      BY <2>2, FS_Interval
    <3>3. ToSet(P) \subseteq Entry
      BY <2>2 DEF ToSet
    <3> QED
      BY <3>1, <3>2, <3>3, FS_Surjection
  <2>4. IsFiniteSet(R)
    <3>1. R \in SUBSET ToSet(P)
      OBVIOUS
    <3> QED
      BY <2>3, <3>1, FS_Subset
  <2>5. D = {x.module : x \in R}
    BY DEF Drivers, P
  <2>6. f \in Surjection(R, D)
    BY <2>5 DEF Surjection
  <2>7. D \subseteq STRING
    BY <2>3, <2>5 DEF Entry
  <2> HIDE DEF D, R, f
  <2> QED
    BY <2>4, <2>6, <2>7, FS_Surjection
<1>2. /\ \A m \in D : ~Sooner(m, m, devs)
      /\ \A l, m, k \in D : Sooner(l, m, devs) /\ Sooner(m, k, devs) => Sooner(l, k, devs)
      /\ \A m, k \in D : m # k => Sooner(m, k, devs) \/ Sooner(k, m, devs)
  BY SoonerOrders
<1>3. MatchDevices(devs) = out
  BY DEF MatchDevices
<1> HIDE DEF D
<1>4. n \in Nat
  BY <1>1, FS_CardinalityType
\* No driver is before itself, so that a rank is one of 1 .. n.
<1>5. ASSUME NEW m \in D
      PROVE  IsFiniteSet(S(m)) /\ Cardinality(S(m)) \in Nat /\ Cardinality(S(m)) < n
  <2>1. S(m) \in SUBSET D /\ S(m) # D
    BY <1>2
  <2> HIDE DEF S
  <2>2. IsFiniteSet(S(m)) /\ Cardinality(S(m)) <= n /\ Cardinality(S(m)) # n
    BY <1>1, <2>1, FS_Subset
  <2> QED
    BY <1>4, <2>2, FS_CardinalityType
\* What is before another has the smaller rank.
<1>6. ASSUME NEW m \in D, NEW k \in D, Sooner(m, k, devs)
      PROVE  Cardinality(S(m)) < Cardinality(S(k))
  <2>1. S(m) \in SUBSET S(k) /\ S(m) # S(k)
    BY <1>2, <1>6
  <2> HIDE DEF S
  <2>2. Cardinality(S(m)) <= Cardinality(S(k)) /\ Cardinality(S(m)) # Cardinality(S(k))
    BY <1>5, <2>1, FS_Subset
  <2> QED
    BY <1>5, <2>2
<1>7. \A m, k \in D : Cardinality(S(m)) = Cardinality(S(k)) => m = k
  <2> HIDE DEF S
  <2> SUFFICES ASSUME NEW m \in D, NEW k \in D, m # k
               PROVE  Cardinality(S(m)) # Cardinality(S(k))
    OBVIOUS
  <2>1. Sooner(m, k, devs) \/ Sooner(k, m, devs)
    BY <1>2
  <2>2. Cardinality(S(m)) \in Nat /\ Cardinality(S(k)) \in Nat
    BY <1>5
  <2> QED
    BY <1>6, <2>1, <2>2
<1> HIDE DEF S
<1>8. rank \in Injection(D, 1 .. n)
  <2>1. \A m \in D : rank[m] \in 1 .. n
    BY <1>4, <1>5
  <2>2. \A m, k \in D : rank[m] = rank[k] => m = k
    BY <1>5, <1>7
  <2> QED
    BY <2>1, <2>2 DEF Injection, IsInjective
<1>9. rank \in Surjection(D, 1 .. n)
  <2>1. IsFiniteSet(1 .. n) /\ Cardinality(1 .. n) = n
    BY <1>4, FS_Interval
  <2> HIDE DEF rank
  <2> QED
    BY <1>8, <2>1, FS_Injection
<1>10. ASSUME NEW i \in 1 .. n  PROVE out[i] \in D /\ Cardinality(S(out[i])) = i - 1
  <2>1. PICK m \in D : rank[m] = i
    BY <1>9 DEF Surjection
  <2>2. Cardinality(S(m)) = i - 1
    BY <1>5, <2>1
  <2> QED
    BY <2>2
<1>11. ASSUME NEW m \in D  PROVE \E i \in 1 .. n : out[i] = m
  <2>1. rank[m] \in 1 .. n /\ rank[m] - 1 = Cardinality(S(m))
    BY <1>4, <1>5
  <2>2. out[rank[m]] \in D /\ Cardinality(S(out[rank[m]])) = Cardinality(S(m))
    BY <1>10, <2>1
  <2>3. out[rank[m]] = m
    BY <1>7, <2>2
  <2> QED
    BY <2>1, <2>3
<1>12. DOMAIN out = 1 .. n
  OBVIOUS
<1> HIDE DEF out, n
<1>13. out \in [1 .. n -> STRING]
  BY <1>1, <1>10, <1>12 DEF out
<1>14. out \in Seq(STRING)
  BY <1>4, <1>13
<1>15. ToSet(out) = D
  BY <1>10, <1>11, <1>12 DEF ToSet
<1> QED
  BY <1>3, <1>14, <1>15 DEF D

-----------------------------------------------------------------------------
(* All that is asked for is tried, and nothing else.                       *)

\* The modules asked for: the named set, and the drivers of the devices last seen.
Asked == Keys(ToSet(Names) \cup Drivers(seen))

\* What resolver.load has been called for is asked for or needed by what is; and
\* what is asked for or needed has been called for, or LoadAll still has its name.
Pursued ==
    tree # NoTree =>
       /\ done \subseteq Closure(Asked)
       /\ Keys(ToSet(todo)) \subseteq Asked
       /\ todo \in Seq(STRING)
       /\ phase \in {"scan", "end"} => todo = << >>
       /\ Keys(ToSet(Names)) \subseteq done \cup Keys(ToSet(todo))
       /\ phase \in {"match", "end"} =>
             Keys(Drivers(seen)) \subseteq done \cup Keys(ToSet(todo))
       /\ \A m \in ToSet(tried) : Needs(m) \subseteq done

\* Closure(S) is the least set that contains S and what its members need.
LEMMA ClosureLeast ==
    ASSUME tree \in Trees, NEW S \in SUBSET DOMAIN tree.deps
    PROVE  /\ S \subseteq Closure(S) /\ Closure(S) \subseteq DOMAIN tree.deps
           /\ \A m \in Closure(S) : Needs(m) \subseteq Closure(S)
           /\ \A C \in SUBSET DOMAIN tree.deps :
                 S \subseteq C /\ (\A m \in C : Needs(m) \subseteq C) => Closure(S) \subseteq C
<1>1. ASSUME NEW m \in Closure(S), NEW d \in Needs(m)  PROVE d \in Closure(S)
  <2>1. d \in DOMAIN tree.deps
    BY NeedsIs DEF Closure
  <2> QED
    BY <2>1 DEF Closure
<1> QED
  BY <1>1 DEF Closure

LEMMA ClosureGrows ==
    ASSUME tree \in Trees, NEW S, NEW T \in SUBSET DOMAIN tree.deps, S \subseteq T
    PROVE  Closure(S) \subseteq Closure(T)
BY DEF Closure

LEMMA KeysAre ==
    ASSUME tree \in Trees, NEW A, NEW B
    PROVE  /\ Keys(A) \subseteq DOMAIN tree.deps
           /\ Keys(A \cup B) = Keys(A) \cup Keys(B)
           /\ A \subseteq B => Keys(A) \subseteq Keys(B)
           /\ \A x \in A : Resolve(x) \in Keys(A) \cup {Unresolved}
<1>1. \A x : Resolve(x) \in DOMAIN tree.deps \cup {Unresolved}
  BY Resolved
<1> QED
  BY <1>1 DEF Keys

\* What was asked for when fewer devices were there is asked for.
LEMMA AskedGrows ==
    ASSUME tree \in Trees, NEW devs, seen \subseteq devs
    PROVE  /\ Asked \in SUBSET DOMAIN tree.deps
           /\ Asked \subseteq Keys(ToSet(Names) \cup Drivers(devs))
           /\ Closure(Asked) \subseteq Closure(Keys(ToSet(Names) \cup Drivers(devs)))
<1> DEFINE A == ToSet(Names) \cup Drivers(seen)
           B == ToSet(Names) \cup Drivers(devs)
<1>1. A \subseteq B
  BY DEF Drivers
<1> HIDE DEF A, B
<1>2. Keys(A) \subseteq Keys(B) /\ Keys(A) \subseteq DOMAIN tree.deps /\ Keys(B) \subseteq DOMAIN tree.deps
  BY <1>1, KeysAre
<1>3. Closure(Keys(A)) \subseteq Closure(Keys(B))
  BY <1>2, ClosureGrows
<1> QED
  BY <1>2, <1>3 DEF Asked, A, B

\* A resolver keeps what it was asked while its tree stays.
LEMMA SameAsked ==
    ASSUME UNCHANGED <<tree, seen>>
    PROVE  /\ \A m : Needs(m)' = Needs(m)
           /\ \A S : Closure(S)' = Closure(S) /\ Keys(S)' = Keys(S) /\ Drivers(S)' = Drivers(S)
           /\ Asked' = Asked
BY SameTree DEF Asked, Keys, Drivers, Resolve

LEMMA SamePursued == Pursued /\ UNCHANGED resolver => Pursued'
<1> SUFFICES ASSUME Pursued, UNCHANGED resolver  PROVE Pursued'
  OBVIOUS
<1>1. UNCHANGED <<tree, phase, todo, done, tried, seen>>
  BY DEF resolver
<1> QED
  BY <1>1, SameAsked DEF Pursued

\* With a tree, the lists of names are lists.
LEMMA LoadNextPursues == LoaderInv /\ Pursued /\ LoadNext => Pursued'
<1> SUFFICES ASSUME LoaderInv, Pursued, LoadNext  PROVE Pursued'
  OBVIOUS
<1>1. /\ todo # << >> /\ done' = Called(Head(todo)) /\ todo' = Tail(todo)
      /\ phase \in {"names", "match"} /\ UNCHANGED <<tree, phase, tried, seen>>
  BY DEF LoadNext
<1> SUFFICES ASSUME tree # NoTree  PROVE Pursued'
  BY <1>1 DEF Pursued
<1>2. tree \in Trees /\ todo \in Seq(STRING)
  BY <1>1 DEF LoaderInv, Stacked, Pursued
<1>3. Tail(todo) \in Seq(STRING) /\ ToSet(todo) = {Head(todo)} \cup ToSet(Tail(todo))
  <2>1. /\ Len(todo) \in Nat /\ Len(todo) >= 1 /\ DOMAIN todo = 1 .. Len(todo)
        /\ Head(todo) = todo[1] /\ DOMAIN Tail(todo) = 1 .. Len(todo) - 1
        /\ \A k \in 1 .. Len(todo) - 1 : Tail(todo)[k] = todo[k + 1]
        /\ Tail(todo) \in Seq(STRING)
    BY <1>1, <1>2
  <2> DEFINE T == Tail(todo)
  <2> HIDE DEF T
  <2>2. \A k \in 1 .. Len(todo) : k = 1 \/ (k - 1 \in 1 .. Len(todo) - 1 /\ (k - 1) + 1 = k)
    BY <2>1
  <2>3. \A k \in 1 .. Len(todo) - 1 : k + 1 \in 1 .. Len(todo)
    BY <2>1
  <2>4. 1 \in 1 .. Len(todo)
    BY <2>1
  <2>5. ASSUME NEW x \in ToSet(todo)  PROVE x = todo[1] \/ x \in ToSet(T)
    <3>1. PICK k \in 1 .. Len(todo) : todo[k] = x
      BY <2>1 DEF ToSet
    <3>2. CASE k # 1
      <4>1. k - 1 \in DOMAIN T /\ T[k - 1] = x
        BY <2>1, <2>2, <3>1, <3>2 DEF T
      <4> QED
        BY <4>1 DEF ToSet
    <3> QED
      BY <3>1, <3>2
  <2>6. \A x \in ToSet(T) : x \in ToSet(todo)
    BY <2>1, <2>3 DEF ToSet, T
  <2>7. todo[1] \in ToSet(todo)
    BY <2>1, <2>4 DEF ToSet
  <2> QED
    BY <2>1, <2>5, <2>6, <2>7 DEF T
<1>4. /\ Keys(ToSet(todo)) = Keys({Head(todo)}) \cup Keys(ToSet(Tail(todo)))
      /\ Called(Head(todo)) = done \cup Keys({Head(todo)})
  BY <1>2, <1>3, KeysAre DEF Called, Keys
<1>5. Asked \subseteq Closure(Asked)
  BY <1>2, AskedGrows, ClosureLeast
<1>6. \A S : S \subseteq done \cup Keys(ToSet(todo)) => S \subseteq done' \cup Keys(ToSet(todo'))
  BY <1>1, <1>4
<1>7. done' \subseteq Closure(Asked) /\ Keys(ToSet(todo')) \subseteq Asked /\ done \subseteq done'
  BY <1>1, <1>4, <1>5 DEF Pursued
<1>8. phase \notin {"scan", "end"}
  BY <1>1
<1>9. /\ Keys(ToSet(Names)) \subseteq done' \cup Keys(ToSet(todo'))
      /\ phase = "match" => Keys(Drivers(seen)) \subseteq done' \cup Keys(ToSet(todo'))
  BY <1>6 DEF Pursued
<1>10. \A m \in ToSet(tried) : Needs(m) \subseteq done'
  BY <1>7 DEF Pursued
<1> QED
  BY <1>1, <1>3, <1>7, <1>8, <1>9, <1>10, SameAsked DEF Pursued

\* A call asks for what its module needs.
LEMMA LoadDepPursues == LoaderInv /\ Pursued /\ LoadDep => Pursued'
<1> SUFFICES ASSUME LoaderInv, Pursued, LoadDep  PROVE Pursued'
  OBVIOUS
<1> DEFINE n == Len(stack)
           m == stack[n].mod
           name == Head(stack[n].next)
<1>1. /\ stack # << >> /\ stack[n].next # << >> /\ done' = Called(name)
      /\ UNCHANGED <<tree, phase, todo, tried, seen>>
  BY DEF LoadDep, Last
<1> SUFFICES ASSUME tree # NoTree  PROVE Pursued'
  BY <1>1 DEF Pursued
<1>2. /\ tree \in Trees /\ stack \in Seq(Calls) /\ n \in DOMAIN stack /\ m \in Mods
  BY <1>1 DEF LoaderInv, Stacked, Mods
<1>3. name \in ToSet(tree.soft[m]) \cup ToSet(tree.deps[m])
  <2>1. stack[n] \in Calls
    BY <1>2
  <2>2. stack[n].next \in Seq(STRING)
    BY <2>1 DEF Calls
  <2>3. 1 \in DOMAIN stack[n].next /\ name = stack[n].next[1]
    <3> DEFINE s == stack[n].next
    <3>1. s \in Seq(STRING) /\ s # << >>
      BY <1>1, <2>2
    <3> HIDE DEF s
    <3>2. 1 \in DOMAIN s /\ Head(s) = s[1]
      BY <3>1
    <3> QED
      BY <3>2 DEF s
  <2> QED
    BY <1>2, <2>3 DEF LoaderInv, Stacked
<1>4. done' = done \cup ({Resolve(name)} \ {Unresolved}) /\ {Resolve(name)} \ {Unresolved} \subseteq Needs(m)
  BY <1>1, <1>3 DEF Called, Needs
<1>5. m \in done /\ done \subseteq Closure(Asked)
  BY <1>2 DEF LoaderInv, CalledOnce, Pursued
<1>6. Needs(m) \subseteq Closure(Asked)
  BY <1>2, <1>5, AskedGrows, ClosureLeast
<1> HIDE DEF m, name
<1>7. done' \subseteq Closure(Asked) /\ done \subseteq done'
  BY <1>4, <1>5, <1>6
<1> QED
  BY <1>1, <1>7, SameAsked DEF Pursued

\* What a module needs has been called for when its own turn comes.
LEMMA InitModulePursues == LoaderInv /\ Pursued /\ InitModule => Pursued'
<1> SUFFICES ASSUME LoaderInv, Pursued, InitModule  PROVE Pursued'
  OBVIOUS
<1> DEFINE key == stack[Len(stack)].mod
<1>1. /\ stack # << >> /\ stack[Len(stack)].next = << >> /\ tried' = Append(tried, key)
      /\ UNCHANGED <<tree, phase, todo, done, seen>>
  BY DEF InitModule, Last
<1>2. /\ Len(stack) \in DOMAIN stack /\ tried \in Seq(AllModules) /\ key \in AllModules
  <2>1. stack \in Seq(Calls) /\ tried \in Seq(AllModules)
    BY DEF LoaderInv, Stacked
  <2>2. Len(stack) \in DOMAIN stack
    BY <1>1, <2>1
  <2> QED
    BY <2>1, <2>2 DEF LoaderInv, LoaderTypeOK
<1>3. Needs(key) \subseteq done
  <2>1. DOMAIN stack[Len(stack)].next = {}
    BY <1>1
  <2> QED
    BY <1>2, <2>1 DEF LoaderInv, Coming
<1> HIDE DEF key
<1>4. ToSet(tried') \subseteq ToSet(tried) \cup {key}
  <2>1. /\ Len(tried) \in Nat /\ DOMAIN tried = 1 .. Len(tried)
        /\ DOMAIN tried' = 1 .. Len(tried) + 1 /\ tried'[Len(tried) + 1] = key
        /\ \A i \in 1 .. Len(tried) : tried'[i] = tried[i]
    BY <1>1, <1>2
  <2>2. \A i \in 1 .. Len(tried) + 1 : i \in 1 .. Len(tried) \/ i = Len(tried) + 1
    BY <2>1
  <2> QED
    BY <2>1, <2>2 DEF ToSet
<1> QED
  BY <1>1, <1>3, <1>4, SameAsked DEF Pursued

\* A round asks for the drivers of more devices than the one before.
LEMMA ScanPursues == LoaderInv /\ Pursued /\ Scan => Pursued'
<1> SUFFICES ASSUME LoaderInv, Pursued, Scan, tree # NoTree  PROVE Pursued'
  BY DEF Pursued, Scan
<1>1. /\ phase = "scan" /\ seen' = present /\ phase' = "match"
      /\ todo' = MatchDevices(present) /\ UNCHANGED <<tree, done, tried, present>>
  BY DEF Scan
<1>2. tree \in Trees /\ seen \subseteq present /\ present \subseteq ToSet(Devices)
  BY <1>1 DEF LoaderInv, LoaderTypeOK, Stacked
<1>3. todo' \in Seq(STRING) /\ ToSet(todo') = Drivers(present)
  BY <1>1, <1>2, MatchedAll
<1>4. /\ \A m : Needs(m)' = Needs(m)
      /\ \A S : Closure(S)' = Closure(S) /\ Keys(S)' = Keys(S) /\ Drivers(S)' = Drivers(S)
  BY <1>1, SameTree DEF Keys, Drivers
<1> DEFINE A == Keys(ToSet(Names) \cup Drivers(present))
<1>5. Asked' = A
  BY <1>1, <1>4 DEF Asked
<1>6. Closure(Asked) \subseteq Closure(A)
  BY <1>2, AskedGrows
<1>7. Keys(Drivers(present)) \subseteq A
  BY <1>2, KeysAre
<1>8. done \subseteq Closure(Asked) /\ Keys(ToSet(Names)) \subseteq done
  <2>1. todo = << >>
    BY <1>1 DEF Pursued
  <2>2. ToSet(todo) = {}
    BY <2>1 DEF ToSet
  <2>3. Keys(ToSet(todo)) = {}
    BY <2>2 DEF Keys
  <2> QED
    BY <2>3 DEF Pursued
<1>9. \A m \in ToSet(tried) : Needs(m) \subseteq done
  BY DEF Pursued
<1> HIDE DEF A
<1> QED
  BY <1>1, <1>3, <1>4, <1>5, <1>6, <1>7, <1>8, <1>9 DEF Pursued

LEMMA StepPursues == LoaderInv /\ Pursued /\ LoaderStep => Pursued'
<1>1. Pursued /\ NamesDone => Pursued'
  BY SameAsked DEF Pursued, NamesDone
<1>2. Pursued /\ RoundDone => Pursued'
  BY SameAsked DEF Pursued, RoundDone
<1> QED
  BY <1>1, <1>2, LoadNextPursues, LoadDepPursues, InitModulePursues, ScanPursues DEF LoaderStep

\* A new resolver has all names before it.
LEMMA NewResolverPursues ==
    ASSUME NEW t \in Trees \cup {NoTree}, NewResolver(t)
    PROVE  Pursued'
<1>1. CASE t = NoTree
  BY <1>1 DEF NewResolver, Fresh, Pursued
<1>2. CASE t # NoTree
  <2>1. /\ tree' = t /\ phase' = "names" /\ todo' = Names /\ tried' = << >> /\ done' = {}
        /\ seen' = {}
    BY <1>2 DEF NewResolver, Fresh
  <2>2. Drivers({})' = {} /\ ToSet(tried') = {} /\ Names \in Seq(STRING)
    BY <2>1, Listed DEF Drivers, ToSet
  <2>3. Keys({})' = {}
    BY DEF Keys
  <2>4. Asked' = Keys(ToSet(Names))'
    BY <2>1, <2>2 DEF Asked
  <2> QED
    BY <2>1, <2>2, <2>3, <2>4 DEF Pursued
<1> QED
  BY <1>1, <1>2

\* At the end nothing is left to call for.
LEMMA PursuedAll == LoaderInv /\ Pursued => EverythingTried
<1> SUFFICES ASSUME LoaderInv, Pursued, phase = "end", tree # NoTree
             PROVE  Closure(Asked) = ToSet(tried)
  BY DEF EverythingTried, Asked
<1>1. tree \in Trees
  BY DEF LoaderInv, LoaderTypeOK
<1>2. done = ToSet(tried)
  <2>1. stack = << >>
    BY DEF LoaderInv, Stacked
  <2>2. Mods = {}
    BY <2>1 DEF Mods
  <2> QED
    BY <2>2 DEF LoaderInv, CalledOnce
<1>3. Asked \subseteq done
  <2>1. todo = << >>
    BY DEF Pursued
  <2>2. Keys(ToSet(todo)) = {}
    BY <2>1 DEF ToSet, Keys
  <2>3. Asked = Keys(ToSet(Names)) \cup Keys(Drivers(seen))
    BY <1>1, KeysAre DEF Asked
  <2> QED
    BY <2>2, <2>3 DEF Pursued
<1>4. Asked \in SUBSET DOMAIN tree.deps
  BY <1>1, AskedGrows
<1>5. done \subseteq Closure(Asked)
  BY DEF Pursued
<1>6. done \in SUBSET DOMAIN tree.deps
  BY <1>1, <1>4, <1>5, ClosureLeast
<1>7. \A m \in done : Needs(m) \subseteq done
  BY <1>2 DEF Pursued
<1>8. Closure(Asked) \subseteq done
  BY <1>1, <1>3, <1>4, <1>6, <1>7, ClosureLeast
<1> QED
  BY <1>2, <1>5, <1>8

-----------------------------------------------------------------------------
(* The stages of boot.                                                     *)

\* The stages before anything is written that the workload needs.
Early == {"mounts", "modules", "root", "rootmount", "switch", "overlay", "data"}

Stages == Early \cup {"cgroup", "metadata", "network", "nics", "plan", "run", "panic"}

\* A pseudo-filesystem is visible only above one that is visible too: what is below
\* /dev was mounted after it, and moves with it.
Nested == \A t \in DOMAIN mnt : mnt[t] => \A s \in DOMAIN mnt : t \in Under(s) => mnt[s]

\* Once Ensure has returned, everything is visible.
AllVisible == pc \notin {"mounts", "panic"} => \A t \in ToSet(Default) : mnt[t]

NoWrites == pc \in Early => writes = {}

\* switchroot is given a root that was mounted.
HasRoot == pc = "switch" => newRoot # ""

IInv ==
    TypeOK /\ LoaderInv /\ Nested /\ AllVisible /\ NothingHidden /\ NoWrites /\ HasRoot

LEMMA DefaultSet ==
    ToSet(Default) = {"/proc", "/sys", "/dev", "/dev/pts", "/dev/shm", "/run", "/tmp"}
<1>1. DOMAIN Default = 1 .. 7
  BY DEF Default
<1>2. 1 .. 7 = {1, 2, 3, 4, 5, 6, 7}
  OBVIOUS
<1> QED
  BY <1>1, <1>2 DEF ToSet, Default

\* What can be covered is mounted after what covers it.
LEMMA CoverFirst ==
    \A s, t \in ToSet(Default) : t \in Under(s) => s = "/dev" /\ Before(s, t)
<1>1. DOMAIN Default = 1 .. 7 /\ Default[3] = "/dev" /\ Default[4] = "/dev/pts"
      /\ Default[5] = "/dev/shm"
  BY DEF Default
<1>2. Before("/dev", "/dev/pts")
  BY <1>1 DEF Before
<1>3. Before("/dev", "/dev/shm")
  BY <1>1 DEF Before
<1> QED
  BY <1>2, <1>3 DEF Under

\* mount.Ensure leaves everything visible, whatever was mounted before, as long as
\* nothing was visible below a target that was not mounted.
LEMMA EnsureMounts ==
    ASSUME mnt \in [ToSet(Default) -> BOOLEAN], Nested
    PROVE  Ensure(mnt) = [x \in ToSet(Default) |-> TRUE]
<1> DEFINE new == IF mnt["/proc"] THEN {t \in DOMAIN mnt : ~mnt[t]} ELSE DOMAIN mnt
<1>1. DOMAIN mnt = ToSet(Default) /\ new \subseteq ToSet(Default)
  OBVIOUS
<1>2. ASSUME NEW x \in ToSet(Default), NEW t \in new, x \in Under(t)
      PROVE  x \in new /\ Before(t, x)
  <2>1. Before(t, x)
    BY <1>1, <1>2, CoverFirst
  <2>2. mnt["/proc"] => ~mnt[x]
    BY <1>1, <1>2 DEF Nested
  <2> QED
    BY <1>1, <2>1, <2>2
<1> HIDE DEF new
<1>3. Ensure(mnt) = [x \in ToSet(Default) |->
                        \A t \in new : x \in Under(t) => x \in new /\ Before(t, x)]
  BY <1>1 DEF Ensure, new
<1>4. \A x \in ToSet(Default) :
         (\A t \in new : x \in Under(t) => x \in new /\ Before(t, x)) = TRUE
  BY <1>2
<1> QED
  BY <1>3, <1>4

\* A path is under a directory of MountDirs.
LEMMA DirIn == \A path : Dir(path) \in MountDirs
BY DirsAssumption DEF Dir, MountDirs

\* A step that mounts nothing and writes only late, where the file is on top.
LEMMA Quiet ==
    ASSUME IInv, LoaderInv',
           UNCHANGED mnt, UNCHANGED top, UNCHANGED switched, UNCHANGED root,
           disks' \subseteq BlockDevs, attempts' \in 0 .. RootProbeAttempts,
           newRoot' \in {"", "rw", "ro"},
           pc' \in Stages, pc' = "run" => workload' # << >>,
           pc' \notin {"mounts", "panic"} => pc \notin {"mounts", "panic"},
           pc' \in Early => pc \in Early /\ UNCHANGED writes,
           pc' = "switch" => newRoot' # "",
           \A w \in writes' : \/ w \in writes
                              \/ /\ w.dir \in MountDirs /\ w.by \in {"boot", "drive"}
                                 /\ top[w.dir] = w.on
    PROVE  IInv'
<1>1. LoaderTypeOK'
  BY DEF LoaderInv
<1>2. TypeOK'
  BY <1>1 DEF IInv, TypeOK, Stages, Early
<1>3. Nested' /\ AllVisible'
  BY DEF IInv, Nested, AllVisible
<1>4. NothingHidden'
  BY DEF IInv, NothingHidden
<1>5. NoWrites' /\ HasRoot'
  BY DEF IInv, NoWrites, HasRoot
<1> QED
  BY <1>2, <1>3, <1>4, <1>5 DEF IInv

\* The types a step needs of what it does not change.
LEMMA Typed ==
    IInv => /\ pc \in Stages /\ disks \subseteq BlockDevs
            /\ attempts \in 0 .. RootProbeAttempts /\ newRoot \in {"", "rw", "ro"}
            /\ LoaderInv /\ (pc = "run" => workload # << >>)
            /\ (pc = "switch" => newRoot # "")
            /\ mnt \in [ToSet(Default) -> BOOLEAN] /\ Nested
BY DEF IInv, TypeOK, Stages, Early, HasRoot

LEMMA PanicKeeps == IInv /\ Panic => IInv'
<1> SUFFICES ASSUME IInv, Panic  PROVE IInv'
  OBVIOUS
<1>1. LoaderInv'
  BY Typed, SameLoader DEF Panic
<1>2. /\ pc' = "panic" /\ UNCHANGED <<mnt, top, switched, root, disks, attempts, newRoot, writes>>
  BY DEF Panic
<1> QED
  BY <1>1, <1>2, Typed, Quiet DEF Stages, Early

-----------------------------------------------------------------------------
(* Each step keeps the invariant.                                          *)

LEMMA InvInit == Init => IInv
<1> SUFFICES ASSUME Init  PROVE IInv
  OBVIOUS
<1>1. LoaderInv /\ LoaderTypeOK
  BY LoaderStarts DEF Init, LoaderInv
<1>2. /\ pc = "mounts" /\ switched = FALSE /\ mnt = [t \in ToSet(Default) |-> FALSE]
      /\ root = "initramfs" /\ top = [d \in MountDirs |-> "root"]
      /\ disks = {} /\ attempts = 0 /\ newRoot = "" /\ writes = {}
  BY DEF Init
<1>3. 0 \in 0 .. RootProbeAttempts
  BY AttemptsAssumption
<1>4. TypeOK
  BY <1>1, <1>2, <1>3 DEF TypeOK
<1>5. Nested /\ AllVisible /\ NothingHidden /\ NoWrites /\ HasRoot
  BY <1>2 DEF Nested, AllVisible, NothingHidden, NoWrites, HasRoot
<1> QED
  BY <1>1, <1>4, <1>5 DEF IInv

LEMMA MountsKeeps == IInv /\ Mounts => IInv'
<1> SUFFICES ASSUME IInv, Mounts, ~Panic  PROVE IInv'
  BY PanicKeeps
<1>1. /\ pc = "mounts" /\ pc' = "modules" /\ mnt' = Ensure(mnt)
      /\ UNCHANGED loaderVars
      /\ UNCHANGED <<switched, root, top, disks, attempts, newRoot, writes>>
  BY DEF Mounts
<1>2. LoaderInv' /\ LoaderTypeOK'
  BY <1>1, Typed, SameLoader DEF LoaderInv
<1>3. mnt' = [x \in ToSet(Default) |-> TRUE]
  BY <1>1, Typed, EnsureMounts
<1>4. TypeOK'
  BY <1>1, <1>2, <1>3 DEF IInv, TypeOK
<1>5. Nested' /\ AllVisible'
  BY <1>3 DEF Nested, AllVisible
<1>6. NothingHidden' /\ NoWrites' /\ HasRoot'
  BY <1>1 DEF IInv, NothingHidden, NoWrites, HasRoot, Early
<1> QED
  BY <1>2, <1>4, <1>5, <1>6 DEF IInv

LEMMA LoadModulesKeeps == IInv /\ LoadModules => IInv'
<1> SUFFICES ASSUME IInv, LoadModules  PROVE IInv'
  OBVIOUS
<1>1. /\ UNCHANGED <<live, present>>
      /\ UNCHANGED <<pc, switched, mnt, root, top, disks, attempts, newRoot, writes, workload>>
  BY DEF LoadModules
<1>2. PICK t \in Trees \cup {NoTree} : NewResolver(t)
  BY DEF LoadModules
<1>3. LoaderInv'
  BY <1>1, <1>2, Typed, NewResolverInv
<1> QED
  BY <1>1, <1>3, Typed, Quiet

LEMMA ModuleStepKeeps == IInv /\ ModuleStep => IInv'
<1> SUFFICES ASSUME IInv, ModuleStep  PROVE IInv'
  OBVIOUS
<1>1. UNCHANGED <<pc, switched, mnt, root, top, disks, attempts, newRoot, writes, workload>>
  BY DEF ModuleStep
<1>2. LoaderInv'
  BY Typed, LoaderStepKeeps DEF ModuleStep
<1> QED
  BY <1>1, <1>2, Typed, Quiet

LEMMA ModulesDoneKeeps == IInv /\ ModulesDone => IInv'
<1> SUFFICES ASSUME IInv, ModulesDone  PROVE IInv'
  OBVIOUS
<1>1. /\ pc = "modules" /\ pc' \in {"overlay", "root"} /\ DropResolver
      /\ UNCHANGED <<live, present>>
      /\ UNCHANGED <<switched, mnt, root, top, disks, attempts, newRoot, writes>>
  BY DEF ModulesDone, AfterModules
<1>2. LoaderInv'
  BY <1>1, Typed, DropResolverInv
<1> QED
  BY <1>1, <1>2, Typed, Quiet DEF Stages, Early

LEMMA RootDeviceKeeps == IInv /\ RootDevice => IInv'
<1> SUFFICES ASSUME IInv, RootDevice  PROVE IInv'
  OBVIOUS
<1>1. /\ pc = "root" /\ UNCHANGED loaderVars
      /\ UNCHANGED <<switched, mnt, root, top, disks, writes>>
      /\ \/ pc' \in {"rootmount", "panic"} /\ UNCHANGED <<newRoot, attempts>>
         \/ /\ attempts < RootProbeAttempts /\ attempts' = attempts + 1
            /\ pc' = "root" /\ UNCHANGED newRoot
  BY DEF RootDevice, NoRoot, LoopAttachFails
<1>2. LoaderInv'
  BY <1>1, Typed, SameLoader
<1>3. attempts' \in 0 .. RootProbeAttempts
  <2>1. attempts \in 0 .. RootProbeAttempts /\ RootProbeAttempts \in Nat
    BY Typed, AttemptsAssumption
  <2>2. CASE UNCHANGED attempts
    BY <2>1, <2>2
  <2>3. CASE attempts < RootProbeAttempts /\ attempts' = attempts + 1
    BY <2>1, <2>3
  <2> QED
    BY <1>1, <2>2, <2>3
<1>4. pc' \in {"rootmount", "panic", "root"}
  BY <1>1
<1> QED
  BY <1>1, <1>2, <1>3, <1>4, Typed, Quiet DEF Stages, Early

LEMMA RootMountKeeps == IInv /\ RootMount => IInv'
<1> SUFFICES ASSUME IInv, RootMount  PROVE IInv'
  OBVIOUS
<1>1. /\ pc = "rootmount" /\ UNCHANGED loaderVars
      /\ UNCHANGED <<switched, mnt, root, top, disks, writes, attempts>>
      /\ pc' \in {"switch", "panic"} /\ newRoot' \in {newRoot, "rw", "ro"}
      /\ (pc' = "switch" => newRoot' # "")
  BY DEF RootMount, NoRoot
<1>2. LoaderInv'
  BY <1>1, Typed, SameLoader
<1> QED
  BY <1>1, <1>2, Typed, Quiet DEF Stages, Early

\* What is below /dev comes across the switch with it or not at all.
LEMMA SwitchRootKeeps == IInv /\ SwitchRoot => IInv'
<1> SUFFICES ASSUME IInv, SwitchRoot  PROVE IInv'
  OBVIOUS
<1>1. LoaderInv' /\ LoaderTypeOK'
  BY Typed, SameLoader DEF SwitchRoot, LoaderInv
<1>2. pc = "switch" /\ UNCHANGED <<top, disks, writes>>
  BY DEF SwitchRoot
<1>3. CASE NoRoot /\ UNCHANGED <<mnt, root, switched>>
  BY <1>1, <1>2, <1>3, Typed, Quiet DEF NoRoot, Stages, Early
<1>4. ASSUME NEW moved \in SUBSET KernelMounts,
             mnt' = [t \in DOMAIN mnt |-> mnt[t] /\ \E m \in moved : t \in {m} \cup Under(m)],
             root' = newRoot, switched' = TRUE, pc' = "mounts", attempts' = 0, newRoot' = ""
      PROVE  IInv'
  <2>1. TypeOK'
    <3>1. 0 \in 0 .. RootProbeAttempts
      BY AttemptsAssumption
    <3>2. newRoot \in {"rw", "ro"}
      BY <1>2, Typed
    <3>3. mnt' \in [ToSet(Default) -> BOOLEAN]
      BY <1>4, Typed
    <3> QED
      BY <1>1, <1>2, <1>4, <3>1, <3>2, <3>3 DEF IInv, TypeOK
  <2>2. Nested'
    <3> SUFFICES ASSUME NEW t \in ToSet(Default), NEW s \in ToSet(Default),
                        mnt'[t], t \in Under(s)
                 PROVE  mnt'[s]
      BY <1>4, Typed DEF Nested
    <3>1. mnt[t] /\ \E m \in moved : t \in {m} \cup Under(m)
      BY <1>4, Typed
    <3>2. mnt[s]
      BY <3>1, Typed DEF Nested
    <3>3. s = "/dev" /\ t \in {"/dev/pts", "/dev/shm"}
      BY DEF Under
    <3>4. "/dev" \in moved
      BY <3>1, <3>3 DEF KernelMounts, Under
    <3> QED
      BY <1>4, <3>2, <3>3, <3>4, Typed
  <2>3. AllVisible' /\ NothingHidden' /\ NoWrites' /\ HasRoot'
    BY <1>2, <1>4 DEF IInv, AllVisible, NothingHidden, NoWrites, HasRoot, Early
  <2> QED
    BY <1>1, <2>1, <2>2, <2>3 DEF IInv
<1> QED
  BY <1>3, <1>4 DEF SwitchRoot

LEMMA OverlayKeeps == IInv /\ Overlay => IInv'
<1> SUFFICES ASSUME IInv, Overlay  PROVE IInv'
  OBVIOUS
<1>1. /\ pc = "overlay" /\ pc' = "data" /\ UNCHANGED loaderVars
      /\ UNCHANGED <<switched, mnt, root, disks, attempts, newRoot, writes>>
  BY DEF Overlay, Then
<1>2. PICK n \in 0 .. Len(WritablePaths) \cup {0} :
         top' = [d \in MountDirs |-> IF d \in ToSet(SubSeq(WritablePaths, 1, n))
                                     THEN "overlay" ELSE top[d]]
  BY DEF Overlay
<1>3. LoaderInv' /\ LoaderTypeOK'
  BY <1>1, Typed, SameLoader DEF LoaderInv
<1>4. writes = {}
  BY <1>1 DEF IInv, NoWrites, Early
<1>5. top \in [MountDirs -> {"root", "overlay", "data"}]
  BY DEF IInv, TypeOK
<1>6. top' \in [MountDirs -> {"root", "overlay", "data"}]
  BY <1>2, <1>5
<1>7. TypeOK'
  BY <1>1, <1>3, <1>6 DEF IInv, TypeOK
<1>8. Nested' /\ AllVisible'
  BY <1>1 DEF IInv, Nested, AllVisible
<1>9. NothingHidden' /\ NoWrites' /\ HasRoot'
  BY <1>1, <1>4 DEF NothingHidden, NoWrites, HasRoot
<1> QED
  BY <1>3, <1>7, <1>8, <1>9 DEF IInv

LEMMA DataVolumeStageKeeps == IInv /\ DataVolumeStage => IInv'
<1> SUFFICES ASSUME IInv, DataVolumeStage  PROVE IInv'
  OBVIOUS
<1>1. /\ pc = "data" /\ pc' = "cgroup" /\ UNCHANGED loaderVars
      /\ UNCHANGED <<switched, mnt, root, disks, attempts, newRoot>>
      /\ \/ /\ top' = [top EXCEPT !["/var"] = "data"]
            /\ writes' = writes \cup {[dir |-> "/var", on |-> "data", by |-> "boot"]}
         \/ UNCHANGED <<top, writes>>
  BY DEF DataVolumeStage, Then
<1>2. LoaderInv' /\ LoaderTypeOK'
  BY <1>1, Typed, SameLoader DEF LoaderInv
<1>3. writes = {} /\ top \in [MountDirs -> {"root", "overlay", "data"}] /\ "/var" \in MountDirs
  BY <1>1 DEF IInv, NoWrites, Early, TypeOK, MountDirs
<1>4. /\ top' \in [MountDirs -> {"root", "overlay", "data"}]
      /\ \A w \in writes' : /\ w.dir \in MountDirs /\ w.by \in {"boot", "drive"}
                            /\ top'[w.dir] = w.on
  <2>1. CASE UNCHANGED <<top, writes>>
    BY <1>3, <2>1
  <2>2. CASE /\ top' = [top EXCEPT !["/var"] = "data"]
             /\ writes' = writes \cup {[dir |-> "/var", on |-> "data", by |-> "boot"]}
    BY <1>3, <2>2
  <2> QED
    BY <1>1, <2>1, <2>2
<1>5. TypeOK'
  BY <1>1, <1>2, <1>4 DEF IInv, TypeOK
<1>6. Nested' /\ AllVisible'
  BY <1>1 DEF IInv, Nested, AllVisible
<1>7. NothingHidden' /\ NoWrites' /\ HasRoot'
  BY <1>1, <1>4 DEF NothingHidden, NoWrites, HasRoot, Early
<1> QED
  BY <1>2, <1>5, <1>6, <1>7 DEF IInv

LEMMA CgroupKeeps == IInv /\ Cgroup => IInv'
<1> SUFFICES ASSUME IInv, Cgroup, ~Panic  PROVE IInv'
  BY PanicKeeps
<1>1. /\ pc = "cgroup" /\ pc' = "metadata" /\ UNCHANGED loaderVars
      /\ UNCHANGED <<switched, mnt, root, top, disks, attempts, newRoot, writes>>
  BY DEF Cgroup, Then
<1>2. LoaderInv'
  BY <1>1, Typed, SameLoader
<1> QED
  BY <1>1, <1>2, Typed, Quiet DEF Stages, Early

\* What a drive's files and actions make lies where it stays on top.
LEMMA MadeIs ==
    \A path, by : by \in {"boot", "drive"} =>
        LET w == Made(Dir(path), by)
        IN w.dir \in MountDirs /\ w.by \in {"boot", "drive"} /\ top[w.dir] = w.on
BY DirIn DEF Made

LEMMA ReadDriveKeeps == IInv /\ ReadDrive => IInv'
<1> SUFFICES ASSUME IInv, ReadDrive  PROVE IInv'
  OBVIOUS
<1>1. /\ pc = "metadata" /\ pc' = "network" /\ UNCHANGED loaderVars
      /\ UNCHANGED <<switched, mnt, root, top, disks, attempts, newRoot>>
  BY DEF ReadDrive, Then
<1>2. \E files : \E n \in Applied(files) :
         writes' = writes \cup {Made(Dir(files[i].path), "drive") :
                                   i \in {k \in 1 .. n : files[k].path # ""}}
  BY DEF ReadDrive
<1>3. \A w \in writes' : \/ w \in writes
                         \/ /\ w.dir \in MountDirs /\ w.by \in {"boot", "drive"}
                            /\ top[w.dir] = w.on
  BY <1>2, MadeIs
<1>4. LoaderInv'
  BY <1>1, Typed, SameLoader
<1> QED
  BY <1>1, <1>3, <1>4, Typed, Quiet DEF Stages, Early

LEMMA NetworkKeeps == IInv /\ Network => IInv'
<1> SUFFICES ASSUME IInv, Network, ~Panic  PROVE IInv'
  BY PanicKeeps
<1>1. /\ pc = "network" /\ pc' = "nics" /\ UNCHANGED loaderVars
      /\ UNCHANGED <<switched, mnt, root, top, disks, attempts, newRoot, writes>>
  BY DEF Network
<1>2. LoaderInv'
  BY <1>1, Typed, SameLoader
<1> QED
  BY <1>1, <1>2, Typed, Quiet DEF Stages, Early

LEMMA NicKeeps == IInv /\ Nic => IInv'
<1> SUFFICES ASSUME IInv, Nic  PROVE IInv'
  OBVIOUS
<1>1. /\ UNCHANGED loaderVars
      /\ UNCHANGED <<pc, switched, mnt, root, top, disks, attempts, newRoot, writes, workload>>
  BY DEF Nic
<1>2. LoaderInv'
  BY <1>1, Typed, SameLoader
<1> QED
  BY <1>1, <1>2, Typed, Quiet

LEMMA ResolvKeeps == IInv /\ Resolv => IInv'
<1> SUFFICES ASSUME IInv, Resolv  PROVE IInv'
  OBVIOUS
<1>1. /\ pc = "nics" /\ pc' = "plan" /\ UNCHANGED loaderVars
      /\ UNCHANGED <<switched, mnt, root, top, disks, attempts, newRoot>>
      /\ writes' = writes \cup {Made("/etc", "boot")} \/ UNCHANGED writes
  BY DEF Resolv
<1>2. \A w \in writes' : \/ w \in writes
                         \/ /\ w.dir \in MountDirs /\ w.by \in {"boot", "drive"}
                            /\ top[w.dir] = w.on
  BY <1>1 DEF Made, MountDirs
<1>3. LoaderInv'
  BY <1>1, Typed, SameLoader
<1> QED
  BY <1>1, <1>2, <1>3, Typed, Quiet DEF Stages, Early

LEMMA RunPlanKeeps == IInv /\ RunPlan => IInv'
<1> SUFFICES ASSUME IInv, RunPlan  PROVE IInv'
  OBVIOUS
<1> DEFINE plan == Plan(ud.runcmd)
<1>1. /\ pc = "plan" /\ pc' = "run" /\ UNCHANGED loaderVars
      /\ UNCHANGED <<switched, mnt, root, top, disks, attempts, newRoot>>
      /\ \E ok \in RunActions(plan.actions) :
            writes' = writes \cup {Made(Dir(plan.actions[i].path), "drive") : i \in ok}
      /\ workload' = IF plan.workload # << >> THEN plan.workload ELSE << cfg.exec >>
  BY DEF RunPlan
<1> HIDE DEF plan
<1>2. \A w \in writes' : \/ w \in writes
                         \/ /\ w.dir \in MountDirs /\ w.by \in {"boot", "drive"}
                            /\ top[w.dir] = w.on
  BY <1>1, MadeIs
<1>3. LoaderInv'
  BY <1>1, Typed, SameLoader
<1>4. workload' # << >>
  BY <1>1
<1> QED
  BY <1>1, <1>2, <1>3, <1>4, Typed, Quiet DEF Stages, Early

LEMMA DiskAppearsKeeps == IInv /\ DiskAppears => IInv'
<1> SUFFICES ASSUME IInv, DiskAppears  PROVE IInv'
  OBVIOUS
<1>1. /\ UNCHANGED loaderVars
      /\ UNCHANGED <<pc, switched, mnt, root, top, attempts, newRoot, writes, workload>>
  BY DEF DiskAppears
<1>2. disks' \subseteq BlockDevs
  BY Typed DEF DiskAppears
<1>3. LoaderInv'
  BY <1>1, Typed, SameLoader
<1> QED
  BY <1>1, <1>2, <1>3, Typed, Quiet

LEMMA KernelDeviceKeeps == IInv /\ KernelDevice => IInv'
<1> SUFFICES ASSUME IInv, KernelDevice  PROVE IInv'
  OBVIOUS
<1>1. UNCHANGED <<pc, switched, mnt, root, top, disks, attempts, newRoot, writes, workload>>
  BY DEF KernelDevice
<1>2. LoaderInv'
  BY Typed, DeviceAppearsKeeps DEF KernelDevice
<1> QED
  BY <1>1, <1>2, Typed, Quiet

LEMMA InvNext == IInv /\ [Next]_vars => IInv'
<1> SUFFICES ASSUME IInv, [Next]_vars  PROVE IInv'
  OBVIOUS
<1>1. CASE UNCHANGED vars
  <2>1. /\ UNCHANGED loaderVars
        /\ UNCHANGED <<pc, switched, mnt, root, top, disks, attempts, newRoot, writes, workload>>
    BY <1>1 DEF vars
  <2>2. LoaderInv'
    BY <2>1, Typed, SameLoader
  <2> QED
    BY <2>1, <2>2, Typed, Quiet
<1>2. CASE Ended
  BY <1>1, <1>2 DEF Ended
<1>3. CASE BootStep
  BY <1>3, MountsKeeps, LoadModulesKeeps, ModuleStepKeeps, ModulesDoneKeeps, RootDeviceKeeps,
     RootMountKeeps, SwitchRootKeeps, OverlayKeeps, DataVolumeStageKeeps, CgroupKeeps,
     ReadDriveKeeps, NetworkKeeps, NicKeeps, ResolvKeeps, RunPlanKeeps DEF BootStep
<1> QED
  BY <1>1, <1>2, <1>3, DiskAppearsKeeps, KernelDeviceKeeps DEF Next

\* The inductive invariant of a boot.
THEOREM Invariant == Spec => []IInv
BY InvInit, InvNext, PTL DEF Spec

\* From the end of mount.Ensure on, in both starts and whatever switchroot moved,
\* every pseudo-filesystem is visible at its target.
THEOREM AlwaysPseudoVisible == Spec => []PseudoVisible
<1>1. IInv => PseudoVisible
  BY DEF IInv, PseudoVisible, AllVisible
<1> QED
  BY <1>1, Invariant, PTL

\* What boot and the drive wrote is still on top when the workload starts: neither
\* rwroot's overlays nor the data volume are mounted over it.
THEOREM AlwaysNothingHidden == Spec => []NothingHidden
<1>1. IInv => NothingHidden
  BY DEF IInv
<1> QED
  BY <1>1, Invariant, PTL

\* resolver.load hands each module to init_module once, and LoadAll counts each
\* driver once, whatever names, aliases, dependencies and devices ask for it.
THEOREM AlwaysEachOnce == Spec => []EachOnce
<1>1. IInv => EachOnce
  BY DEF IInv, LoaderInv, CalledOnce
<1> QED
  BY <1>1, Invariant, PTL

\* A module fails only for a reason of its own: the kernel refuses it, a module it
\* needs failed, or it is part of a dependency cycle. The order in which
\* resolver.load works costs none.
THEOREM AlwaysFailsForAReason == Spec => []FailsForAReason
<1>1. IInv => FailsForAReason
  BY DEF IInv, LoaderInv
<1> QED
  BY <1>1, Invariant, PTL
-----------------------------------------------------------------------------
(* A boot tries all it is asked for.                                       *)

\* Only the modules stage and the kernel work on modules.
LEMMA LoaderOnly ==
    Next => \/ UNCHANGED resolver
            \/ LoaderStep
            \/ \E t \in Trees \cup {NoTree} : NewResolver(t)
            \/ DropResolver
<1>1. LoadModules => \E t \in Trees \cup {NoTree} : NewResolver(t)
  BY DEF LoadModules
<1>2. ModuleStep => LoaderStep
  BY DEF ModuleStep
<1>3. ModulesDone => DropResolver
  BY DEF ModulesDone
<1>4. KernelDevice => UNCHANGED resolver
  BY DEF KernelDevice, DeviceAppears
<1>5. UNCHANGED loaderVars => UNCHANGED resolver
  BY DEF loaderVars, resolver
<1>6. Mounts \/ RootDevice \/ RootMount \/ SwitchRoot \/ Overlay \/ DataVolumeStage
         => UNCHANGED loaderVars
  BY DEF Mounts, RootDevice, RootMount, SwitchRoot, Overlay, DataVolumeStage, Panic
<1>7. Cgroup \/ ReadDrive \/ Network \/ Nic \/ Resolv \/ RunPlan \/ DiskAppears \/ Ended
         => UNCHANGED loaderVars
  BY DEF Cgroup, ReadDrive, Network, Nic, Resolv, RunPlan, DiskAppears, Ended, vars, Panic
<1> QED
  BY <1>1, <1>2, <1>3, <1>4, <1>5, <1>6, <1>7 DEF Next, BootStep

LEMMA NextPursues == IInv /\ Pursued /\ [Next]_vars => Pursued'
<1> SUFFICES ASSUME LoaderInv, Pursued, [Next]_vars  PROVE Pursued'
  BY DEF IInv
<1>1. DropResolver => Pursued'
  BY DEF DropResolver, Fresh, Pursued
<1>2. UNCHANGED vars => UNCHANGED resolver
  BY DEF vars, loaderVars, resolver
<1> QED
  BY <1>1, <1>2, LoaderOnly, SamePursued, StepPursues, NewResolverPursues

\* When LoadAll returns, the named set, the drivers of the devices it saw last and
\* all they depend on have been tried, whichever of them failed, and no others.
THEOREM AlwaysEverythingTried == Spec => []EverythingTried
<1>1. Init => Pursued
  BY DEF Init, LoaderInit, Pursued
<1>2. IInv /\ Pursued => EverythingTried
  BY PursuedAll DEF IInv
<1> QED
  BY <1>1, <1>2, Invariant, NextPursues, PTL DEF Spec
-----------------------------------------------------------------------------
(* What the recursions of Config and Metadata compute.                     *)

\* A nonempty set of positions has a last one.
LEMMA Greatest ==
    ASSUME NEW n \in Nat, NEW S, S \subseteq 1 .. n, S # {}
    PROVE  Max(S) \in S /\ \A y \in S : y <= Max(S)
<1> DEFINE T == {n - y : y \in S}
<1>1. T \subseteq Nat
  OBVIOUS
<1>2. T # {}
  <2>1. PICK y \in S : TRUE
    OBVIOUS
  <2>2. n - y \in T
    BY <2>1
  <2> QED
    BY <2>2
<1>3. PICK d \in T : \A e \in T : d <= e
  BY <1>1, <1>2, Least
<1>4. PICK x \in S : d = n - x
  OBVIOUS
<1>5. \A y \in S : n - x <= n - y
  BY <1>3, <1>4
<1>6. \A y \in S : x >= y
  BY <1>5
<1>7. Max(S) \in S /\ \A y \in S : Max(S) >= y
  BY <1>6 DEF Max
<1> QED
  BY <1>7

\* What holds at the start and goes from a place to the next holds at the end.
LEMMA Reached ==
    ASSUME NEW lo \in Nat, NEW n \in Nat, lo <= n, NEW G, lo \in G,
           \A k \in lo + 1 .. n : k - 1 \in G => k \in G
    PROVE  n \in G
<1> DEFINE Bad == {k \in lo .. n : k \notin G}
<1>1. SUFFICES ASSUME Bad # {}  PROVE FALSE
  <2>1. n \in lo .. n
    OBVIOUS
  <2> QED
    BY <2>1
<1>2. Bad \subseteq Nat
  OBVIOUS
<1>3. PICK k \in Bad : \A j \in Bad : k <= j
  BY <1>1, <1>2, Least
<1>4. k \in lo .. n /\ k \notin G
  OBVIOUS
<1>5. k \in lo + 1 .. n /\ k - 1 \in lo .. n /\ ~(k <= k - 1)
  BY <1>4
<1>6. k - 1 \notin Bad
  BY <1>3, <1>5
<1> QED
  BY <1>4, <1>5, <1>6

\* config.Parse goes from token to token. (A recursive function is one that meets its
\* equation, if there is one: a function up to k - 1 extends to one up to k.)
LEMMA ParseSteps ==
    ASSUME NEW line, Len(line) \in Nat
    PROVE  \E c : /\ Parse(line) = c[Len(line)]
                  /\ c[0] = Defaults
                  /\ \A i \in 1 .. Len(line) : c[i] = ParseToken(c[i - 1], line[i])
<1> DEFINE n == Len(line)
           Runs(c, k) == c = [i \in 0 .. k |-> IF i = 0 THEN Defaults
                                            ELSE ParseToken(c[i - 1], line[i])]
           Good == {k \in 0 .. n : \E c : Runs(c, k)}
<1>1. 0 \in Good
  <2>1. Runs([i \in 0 .. 0 |-> Defaults], 0)
    OBVIOUS
  <2>2. \E c : Runs(c, 0)
    BY <2>1
  <2> QED
    BY <2>2
<1>2. ASSUME NEW k \in 1 .. n, k - 1 \in Good  PROVE k \in Good
  <2>1. PICK b : Runs(b, k - 1)
    BY <1>2
  <2> DEFINE c == [i \in 0 .. k |-> IF i = 0 THEN Defaults ELSE ParseToken(b[i - 1], line[i])]
  <2>2. \A i \in 1 .. k : c[i - 1] = b[i - 1]
    <3>1. \A i \in 1 .. k : i - 1 \in 0 .. k - 1 /\ i - 1 \in 0 .. k
      OBVIOUS
    <3> QED
      BY <2>1, <3>1
  <2>3. Runs(c, k)
    <3>1. \A i \in 0 .. k : i # 0 => i \in 1 .. k
      OBVIOUS
    <3> QED
      BY <2>2, <3>1
  <2>4. \E x : Runs(x, k)
    BY <2>3
  <2> HIDE DEF Runs
  <2> QED
    BY <2>4
<1> HIDE DEF Runs
<1>3. \E c : Runs(c, n)
  <2>1. n \in Nat /\ 0 \in Nat /\ 0 <= n /\ \A k \in 0 + 1 .. n : k \in 1 .. n
    OBVIOUS
  <2> HIDE DEF n, Good
  <2>2. \A k \in 0 + 1 .. n : k - 1 \in Good => k \in Good
    BY <1>2, <2>1
  <2>3. n \in Good
    BY <1>1, <2>1, <2>2, Reached
  <2> QED
    BY <2>3 DEF Good
<1> DEFINE r == CHOOSE c : Runs(c, n)
<1>4. Runs(r, n)
  BY <1>3
<1>5. Parse(line) = r[n]
  BY DEF Parse, Runs
<1>6. r[0] = Defaults /\ \A i \in 1 .. n : r[i] = ParseToken(r[i - 1], line[i])
  <2> HIDE DEF r
  <2>1. 0 \in 0 .. n /\ \A i \in 1 .. n : i \in 0 .. n /\ i # 0
    OBVIOUS
  <2> QED
    BY <1>4, <2>1 DEF Runs
<1> QED
  BY <1>5, <1>6

\* ParseUserData goes from one runcmd entry to the next.
LEMMA CommandSteps ==
    ASSUME NEW entries, Len(entries) \in Nat
    PROVE  \E run : /\ Commands(entries) = run[Len(entries)]
                  /\ run[0] = << >>
                  /\ \A i \in 1 .. Len(entries) : run[i] = TakeCommand(run[i - 1], entries[i])
<1> DEFINE n == Len(entries)
           Runs(run, k) == run = [i \in 0 .. k |-> IF i = 0 THEN << >>
                                            ELSE TakeCommand(run[i - 1], entries[i])]
           Good == {k \in 0 .. n : \E run : Runs(run, k)}
<1>1. 0 \in Good
  <2>1. Runs([i \in 0 .. 0 |-> << >>], 0)
    OBVIOUS
  <2>2. \E run : Runs(run, 0)
    BY <2>1
  <2> QED
    BY <2>2
<1>2. ASSUME NEW k \in 1 .. n, k - 1 \in Good  PROVE k \in Good
  <2>1. PICK b : Runs(b, k - 1)
    BY <1>2
  <2> DEFINE run == [i \in 0 .. k |-> IF i = 0 THEN << >> ELSE TakeCommand(b[i - 1], entries[i])]
  <2>2. \A i \in 1 .. k : run[i - 1] = b[i - 1]
    <3>1. \A i \in 1 .. k : i - 1 \in 0 .. k - 1 /\ i - 1 \in 0 .. k
      OBVIOUS
    <3> QED
      BY <2>1, <3>1
  <2>3. Runs(run, k)
    <3>1. \A i \in 0 .. k : i # 0 => i \in 1 .. k
      OBVIOUS
    <3> QED
      BY <2>2, <3>1
  <2>4. \E x : Runs(x, k)
    BY <2>3
  <2> HIDE DEF Runs
  <2> QED
    BY <2>4
<1> HIDE DEF Runs
<1>3. \E run : Runs(run, n)
  <2>1. n \in Nat /\ 0 \in Nat /\ 0 <= n /\ \A k \in 0 + 1 .. n : k \in 1 .. n
    OBVIOUS
  <2> HIDE DEF n, Good
  <2>2. \A k \in 0 + 1 .. n : k - 1 \in Good => k \in Good
    BY <1>2, <2>1
  <2>3. n \in Good
    BY <1>1, <2>1, <2>2, Reached
  <2> QED
    BY <2>3 DEF Good
<1> DEFINE r == CHOOSE run : Runs(run, n)
<1>4. Runs(r, n)
  BY <1>3
<1>5. Commands(entries) = r[n]
  BY DEF Commands, Runs
<1>6. r[0] = << >> /\ \A i \in 1 .. n : r[i] = TakeCommand(r[i - 1], entries[i])
  <2> HIDE DEF r
  <2>1. 0 \in 0 .. n /\ \A i \in 1 .. n : i \in 0 .. n /\ i # 0
    OBVIOUS
  <2> QED
    BY <1>4, <2>1 DEF Runs
<1> QED
  BY <1>5, <1>6

\* metadata.Interpret goes from command to command.
LEMMA PlanSteps ==
    ASSUME NEW runcmd, Len(runcmd) \in Nat
    PROVE  \E p : /\ Plan(runcmd) = p[Len(runcmd)]
                  /\ p[0] = NoPlan
                  /\ \A i \in 1 .. Len(runcmd) : p[i] = PlanCommand(p[i - 1], runcmd[i])
<1> DEFINE n == Len(runcmd)
           Runs(p, k) == p = [i \in 0 .. k |-> IF i = 0 THEN NoPlan
                                            ELSE PlanCommand(p[i - 1], runcmd[i])]
           Good == {k \in 0 .. n : \E p : Runs(p, k)}
<1>1. 0 \in Good
  <2>1. Runs([i \in 0 .. 0 |-> NoPlan], 0)
    OBVIOUS
  <2>2. \E p : Runs(p, 0)
    BY <2>1
  <2> QED
    BY <2>2
<1>2. ASSUME NEW k \in 1 .. n, k - 1 \in Good  PROVE k \in Good
  <2>1. PICK b : Runs(b, k - 1)
    BY <1>2
  <2> DEFINE p == [i \in 0 .. k |-> IF i = 0 THEN NoPlan ELSE PlanCommand(b[i - 1], runcmd[i])]
  <2>2. \A i \in 1 .. k : p[i - 1] = b[i - 1]
    <3>1. \A i \in 1 .. k : i - 1 \in 0 .. k - 1 /\ i - 1 \in 0 .. k
      OBVIOUS
    <3> QED
      BY <2>1, <3>1
  <2>3. Runs(p, k)
    <3>1. \A i \in 0 .. k : i # 0 => i \in 1 .. k
      OBVIOUS
    <3> QED
      BY <2>2, <3>1
  <2>4. \E x : Runs(x, k)
    BY <2>3
  <2> HIDE DEF Runs
  <2> QED
    BY <2>4
<1> HIDE DEF Runs
<1>3. \E p : Runs(p, n)
  <2>1. n \in Nat /\ 0 \in Nat /\ 0 <= n /\ \A k \in 0 + 1 .. n : k \in 1 .. n
    OBVIOUS
  <2> HIDE DEF n, Good
  <2>2. \A k \in 0 + 1 .. n : k - 1 \in Good => k \in Good
    BY <1>2, <2>1
  <2>3. n \in Good
    BY <1>1, <2>1, <2>2, Reached
  <2> QED
    BY <2>3 DEF Good
<1> DEFINE r == CHOOSE p : Runs(p, n)
<1>4. Runs(r, n)
  BY <1>3
<1>5. Plan(runcmd) = r[n]
  BY DEF Plan, Runs
<1>6. r[0] = NoPlan /\ \A i \in 1 .. n : r[i] = PlanCommand(r[i - 1], runcmd[i])
  <2> HIDE DEF r
  <2>1. 0 \in 0 .. n /\ \A i \in 1 .. n : i \in 0 .. n /\ i # 0
    OBVIOUS
  <2> QED
    BY <1>4, <2>1 DEF Runs
<1> QED
  BY <1>5, <1>6

\* translateInstall goes from word to word.
LEMMA TranslateSteps ==
    ASSUME NEW cmd, Len(cmd) \in Nat, Len(cmd) >= 3
    PROVE  \E t : /\ TranslateInstall(cmd) = t[Len(cmd)]
                  /\ t[3] = Leading(cmd)
                  /\ \A i \in 4 .. Len(cmd) : t[i] = TranslateWord(t[i - 1], cmd[i])
<1> DEFINE n == Len(cmd)
           Runs(t, k) == t = [i \in 3 .. k |-> IF i = 3 THEN Leading(cmd)
                                            ELSE TranslateWord(t[i - 1], cmd[i])]
           Good == {k \in 3 .. n : \E t : Runs(t, k)}
<1>1. 3 \in Good
  <2>1. Runs([i \in 3 .. 3 |-> Leading(cmd)], 3)
    OBVIOUS
  <2>2. \E t : Runs(t, 3)
    BY <2>1
  <2> QED
    BY <2>2
<1>2. ASSUME NEW k \in 4 .. n, k - 1 \in Good  PROVE k \in Good
  <2>1. PICK b : Runs(b, k - 1)
    BY <1>2
  <2> DEFINE t == [i \in 3 .. k |-> IF i = 3 THEN Leading(cmd) ELSE TranslateWord(b[i - 1], cmd[i])]
  <2>2. \A i \in 4 .. k : t[i - 1] = b[i - 1]
    <3>1. \A i \in 4 .. k : i - 1 \in 3 .. k - 1 /\ i - 1 \in 3 .. k
      OBVIOUS
    <3> QED
      BY <2>1, <3>1
  <2>3. Runs(t, k)
    <3>1. \A i \in 3 .. k : i # 3 => i \in 4 .. k
      OBVIOUS
    <3> QED
      BY <2>2, <3>1
  <2>4. \E x : Runs(x, k)
    BY <2>3
  <2> HIDE DEF Runs
  <2> QED
    BY <2>4
<1> HIDE DEF Runs
<1>3. \E t : Runs(t, n)
  <2>1. n \in Nat /\ 3 \in Nat /\ 3 <= n /\ \A k \in 3 + 1 .. n : k \in 4 .. n
    OBVIOUS
  <2> HIDE DEF n, Good
  <2>2. \A k \in 3 + 1 .. n : k - 1 \in Good => k \in Good
    BY <1>2, <2>1
  <2>3. n \in Good
    BY <1>1, <2>1, <2>2, Reached
  <2> QED
    BY <2>3 DEF Good
<1> DEFINE r == CHOOSE t : Runs(t, n)
<1>4. Runs(r, n)
  BY <1>3
<1>5. TranslateInstall(cmd) = r[n]
  BY DEF TranslateInstall, Runs
<1>6. r[3] = Leading(cmd) /\ \A i \in 4 .. n : r[i] = TranslateWord(r[i - 1], cmd[i])
  <2> HIDE DEF r
  <2>1. 3 \in 3 .. n /\ \A i \in 4 .. n : i \in 3 .. n /\ i # 3
    OBVIOUS
  <2> QED
    BY <1>4, <2>1 DEF Runs
<1> QED
  BY <1>5, <1>6

\* The values of a configuration: those k0smos has by itself, and others.
Texts == STRING \cup {Defaults[k] : k \in DOMAIN Defaults}

LEMMA DefaultsAre ==
    /\ Defaults \in [DOMAIN Defaults -> Texts] /\ "ip" \in DOMAIN Defaults
    /\ DOMAIN NoMachine = {"ip", "iface", "gw", "dns"}
    /\ \A k \in DOMAIN NoMachine : NoMachine[k] = ""
<1>1. Defaults = [k \in DOMAIN Defaults |-> Defaults[k]] /\ "ip" \in DOMAIN Defaults
  BY DEF Defaults
<1>2. DOMAIN NoMachine = {"ip", "iface", "gw", "dns"}
  BY DEF NoMachine
<1>3. /\ NoMachine["ip"] = "" /\ NoMachine["iface"] = ""
      /\ NoMachine["gw"] = "" /\ NoMachine["dns"] = ""
  BY DEF NoMachine
<1> QED
  BY <1>1, <1>2, <1>3 DEF Texts

\* A command line gives each key a value, or leaves it its default.
LEMMA ParseTyped ==
    ASSUME NEW line \in Seq([key : STRING, value : STRING])
    PROVE  /\ Parse(line) \in [DOMAIN Defaults -> Texts]
           /\ \A k \in DOMAIN Defaults : Parse(line)[k] \in STRING \cup {Defaults[k]}
<1> DEFINE n == Len(line)
           Values == {v \in [DOMAIN Defaults -> Texts] :
                         \A k \in DOMAIN Defaults : v[k] \in STRING \cup {Defaults[k]}}
<1>1. PICK c : /\ Parse(line) = c[n] /\ c[0] = Defaults
               /\ \A i \in 1 .. n : c[i] = ParseToken(c[i - 1], line[i])
  BY ParseSteps
<1> DEFINE G == {k \in 0 .. n : c[k] \in Values}
<1>2. n \in Nat /\ 0 \in Nat /\ 0 <= n /\ \A k \in 1 .. n : line[k].value \in STRING
  <2>1. n \in Nat /\ \A k \in 1 .. n : line[k] \in [key : STRING, value : STRING]
    BY LenProperties, ElementOfSeq
  <2> QED
    BY <2>1
<1>3. 0 \in G
  <2>1. Defaults \in Values
    BY DefaultsAre
  <2> QED
    BY <1>1, <1>2, <2>1
<1>4. ASSUME NEW k \in 0 + 1 .. n, k - 1 \in G  PROVE k \in G
  <2>1. c[k] = ParseToken(c[k - 1], line[k]) /\ c[k - 1] \in Values /\ line[k].value \in STRING
    BY <1>1, <1>2, <1>4
  <2>2. c[k] \in Values
    BY <2>1 DEF ParseToken, Texts
  <2> QED
    BY <1>4, <2>2
<1>5. n \in G
  <2> HIDE DEF n, G
  <2> QED
    BY <1>2, <1>3, <1>4, Reached
<1> QED
  BY <1>1, <1>5

\* A drive without machine settings changes none, one with an address sets it.
LEMMA MachineApplied ==
    ASSUME NEW c \in [DOMAIN Defaults -> Texts]
    PROVE  /\ ApplyMachineConfig(c, NoMachine) = c
           /\ \A m \in [DOMAIN NoMachine -> STRING] :
                 m.ip # "" => ApplyMachineConfig(c, m).ip = m.ip
<1>1. DOMAIN c = DOMAIN Defaults
  OBVIOUS
<1> QED
  BY <1>1, DefaultsAre DEF ApplyMachineConfig

\* No command of a list is an install, or the one at k is the last.
NoInstall(cmds) == \A k \in DOMAIN cmds : ~IsInstall(cmds[k])
LastInstall(cmds, k) ==
    /\ k \in DOMAIN cmds /\ IsInstall(cmds[k])
    /\ \A l \in DOMAIN cmds : l > k => ~IsInstall(cmds[l])

LEMMA AppendInstall ==
    ASSUME NEW cmds \in Seq(Seq(STRING)), NEW cmd \in Seq(STRING)
    PROVE  LET all == Append(cmds, cmd)
           IN /\ IsInstall(cmd) => LastInstall(all, Len(cmds) + 1) /\ all[Len(cmds) + 1] = cmd
              /\ ~IsInstall(cmd) => /\ NoInstall(cmds) => NoInstall(all)
                                    /\ \A k : LastInstall(cmds, k) =>
                                          LastInstall(all, k) /\ all[k] = cmds[k]
<1> DEFINE all == Append(cmds, cmd)
           n == Len(cmds)
<1>1. /\ n \in Nat /\ DOMAIN cmds = 1 .. n /\ DOMAIN all = 1 .. n + 1
      /\ all[n + 1] = cmd /\ \A k \in 1 .. n : all[k] = cmds[k]
  OBVIOUS
<1> HIDE DEF all, n
<1>2. \A k \in 1 .. n + 1 : k \in 1 .. n \/ k = n + 1
  BY <1>1
<1>3. \A k \in 1 .. n : k \in 1 .. n + 1 /\ k < n + 1
  BY <1>1
<1>4. n + 1 \in 1 .. n + 1 /\ \A l \in 1 .. n + 1 : ~(l > n + 1)
  BY <1>1
<1>5. IsInstall(cmd) => LastInstall(all, n + 1) /\ all[n + 1] = cmd
  BY <1>1, <1>4 DEF LastInstall
<1>6. ~IsInstall(cmd) /\ NoInstall(cmds) => NoInstall(all)
  BY <1>1, <1>2 DEF NoInstall
<1>7. ASSUME ~IsInstall(cmd), NEW k, LastInstall(cmds, k)
      PROVE  LastInstall(all, k) /\ all[k] = cmds[k]
  <2>1. k \in 1 .. n /\ IsInstall(cmds[k]) /\ \A l \in 1 .. n : l > k => ~IsInstall(cmds[l])
    BY <1>1, <1>7 DEF LastInstall
  <2>2. \A l \in 1 .. n + 1 : l > k => ~IsInstall(all[l])
    BY <1>1, <1>2, <1>7, <2>1
  <2> QED
    BY <1>1, <1>3, <2>1, <2>2 DEF LastInstall
<1> QED
  BY <1>5, <1>6, <1>7 DEF all, n

\* The commands of a document are words; the last install among its entries is the
\* last among them.
LEMMA CommandsAre ==
    ASSUME NEW entries \in Seq([form : STRING, argv : Seq(STRING)]),
           NEW inst,
           inst = {i \in DOMAIN entries : Plain(entries[i]) /\ IsInstall(entries[i].argv)}
    PROVE  /\ Commands(entries) \in Seq(Seq(STRING))
           /\ inst = {} => NoInstall(Commands(entries))
           /\ inst # {} => \E k : /\ LastInstall(Commands(entries), k)
                                  /\ Commands(entries)[k] = entries[Max(inst)].argv
<1> DEFINE n == Len(entries)
<1>1. PICK run : /\ Commands(entries) = run[n] /\ run[0] = << >>
                 /\ \A i \in 1 .. n : run[i] = TakeCommand(run[i - 1], entries[i])
  BY CommandSteps
<1>2. /\ n \in Nat /\ DOMAIN entries = 1 .. n /\ inst \subseteq 1 .. n
      /\ \A i \in 1 .. n : entries[i].argv \in Seq(STRING)
  <2>1. /\ n \in Nat /\ DOMAIN entries = 1 .. n
        /\ \A i \in 1 .. n : entries[i] \in [form : STRING, argv : Seq(STRING)]
    BY LenProperties, ElementOfSeq
  <2> QED
    BY <2>1
<1> DEFINE Known(i) ==
              /\ run[i] \in Seq(Seq(STRING))
              /\ (\A j \in inst : j > i) => NoInstall(run[i])
              /\ \A m \in inst : m <= i /\ (\A j \in inst : j <= i => j <= m) =>
                    \E k : LastInstall(run[i], k) /\ run[i][k] = entries[m].argv
           G == {i \in 0 .. n : Known(i)}
<1>3. 0 \in G
  <2>1. run[0] \in Seq(Seq(STRING)) /\ NoInstall(run[0])
    BY <1>1 DEF NoInstall
  <2>2. \A m \in inst : ~(m <= 0)
    BY <1>2
  <2>3. Known(0)
    BY <2>1, <2>2
  <2> HIDE DEF Known
  <2> QED
    BY <1>2, <2>3
<1>4. ASSUME NEW i \in 0 + 1 .. n, i - 1 \in G  PROVE i \in G
  <2>1. /\ i \in 1 .. n /\ i \in 0 .. n /\ Known(i - 1)
        /\ run[i] = TakeCommand(run[i - 1], entries[i])
        /\ entries[i].argv \in Seq(STRING)
    BY <1>1, <1>2, <1>4
  <2> DEFINE cmds == run[i - 1]
             cmd == entries[i].argv
  <2>2. /\ cmds \in Seq(Seq(STRING))
        /\ (\A j \in inst : j > i - 1) => NoInstall(cmds)
        /\ \A m \in inst : m <= i - 1 /\ (\A j \in inst : j <= i - 1 => j <= m) =>
              \E k : LastInstall(cmds, k) /\ cmds[k] = entries[m].argv
    BY <2>1
  <2>3. CASE i \in inst
    <3>1. Plain(entries[i]) /\ IsInstall(cmd)
      BY <2>3
    <3>2. run[i] = Append(cmds, cmd)
      BY <2>1, <3>1 DEF TakeCommand
    <3>3. run[i] \in Seq(Seq(STRING))
      BY <2>1, <2>2, <3>2
    <3>4. \E k : LastInstall(run[i], k) /\ run[i][k] = cmd
      <4>1. cmds \in Seq(Seq(STRING)) /\ cmd \in Seq(STRING)
        BY <2>1, <2>2
      <4> HIDE DEF cmds, cmd
      <4> QED
        BY <3>1, <3>2, <4>1, AppendInstall
    <3>5. ~(\A j \in inst : j > i)
      BY <2>1, <2>3
    <3>6. \A m \in inst : m <= i /\ (\A j \in inst : j <= i => j <= m) => m = i
      <4>1. ASSUME NEW m \in inst, m <= i, \A j \in inst : j <= i => j <= m  PROVE m = i
        <5>1. i <= m /\ m \in Nat /\ i \in Nat
          BY <1>2, <2>1, <2>3, <4>1
        <5> QED
          BY <4>1, <5>1
      <4> QED
        BY <4>1
    <3>7. Known(i)
      BY <3>3, <3>4, <3>5, <3>6
    <3> HIDE DEF Known
    <3> QED
      BY <2>1, <3>7
  <2>4. CASE i \notin inst
    <3>1. \A j \in inst : (j > i - 1 <=> j > i) /\ (j <= i - 1 <=> j <= i)
      BY <1>2, <2>1, <2>4
    <3>2. /\ (\A j \in inst : j > i) => NoInstall(cmds)
          /\ \A m \in inst : m <= i /\ (\A j \in inst : j <= i => j <= m) =>
                \E k : LastInstall(cmds, k) /\ cmds[k] = entries[m].argv
      BY <2>2, <3>1
    <3>3. CASE ~Plain(entries[i])
      <4>1. run[i] = cmds
        BY <2>1, <3>3 DEF TakeCommand
      <4>2. Known(i)
        BY <2>2, <3>2, <4>1
      <4> HIDE DEF Known
      <4> QED
        BY <2>1, <4>2
    <3>4. CASE Plain(entries[i])
      <4>1. run[i] = Append(cmds, cmd) /\ ~IsInstall(cmd)
        BY <1>2, <2>1, <2>4, <3>4 DEF TakeCommand
      <4>2. /\ run[i] \in Seq(Seq(STRING))
            /\ NoInstall(cmds) => NoInstall(run[i])
            /\ \A k : LastInstall(cmds, k) => LastInstall(run[i], k) /\ run[i][k] = cmds[k]
        <5>1. cmds \in Seq(Seq(STRING)) /\ cmd \in Seq(STRING)
          BY <2>1, <2>2
        <5> HIDE DEF cmds, cmd
        <5>2. run[i] \in Seq(Seq(STRING))
          BY <4>1, <5>1
        <5>3. NoInstall(cmds) => NoInstall(Append(cmds, cmd))
          BY <4>1, <5>1, AppendInstall
        <5>4. \A k : LastInstall(cmds, k) => /\ LastInstall(Append(cmds, cmd), k)
                                            /\ Append(cmds, cmd)[k] = cmds[k]
          BY <4>1, <5>1, AppendInstall
        <5> QED
          BY <4>1, <5>2, <5>3, <5>4
      <4> HIDE DEF cmds
      <4>3. \A m \in inst : m <= i /\ (\A j \in inst : j <= i => j <= m) =>
               \E k : LastInstall(run[i], k) /\ run[i][k] = entries[m].argv
        BY <3>2, <4>2
      <4>4. Known(i)
        BY <3>2, <4>2, <4>3
      <4> HIDE DEF Known
      <4> QED
        BY <2>1, <4>4
    <3> QED
      BY <3>3, <3>4
  <2> QED
    BY <2>3, <2>4
<1> HIDE DEF Known
<1>5. Known(n)
  <2>1. 0 \in Nat /\ 0 <= n
    BY <1>2
  <2> HIDE DEF n, G
  <2>2. n \in G
    BY <1>2, <1>3, <1>4, <2>1, Reached
  <2> QED
    BY <2>2 DEF G
<1>6. CASE inst = {}
  BY <1>1, <1>5, <1>6 DEF Known
<1>7. CASE inst # {}
  <2>1. Max(inst) \in inst /\ \A j \in inst : j <= Max(inst)
    BY <1>2, <1>7, Greatest
  <2>2. Max(inst) <= n
    BY <1>2, <2>1
  <2> QED
    BY <1>1, <1>5, <1>7, <2>1, <2>2 DEF Known
<1> QED
  BY <1>6, <1>7

\* The elements of an extended sequence.
LEMMA SetOfAppend ==
    ASSUME NEW S, NEW s \in Seq(S), NEW x \in S
    PROVE  ToSet(Append(s, x)) = ToSet(s) \cup {x}
<1>1. /\ Len(s) \in Nat /\ DOMAIN s = 1 .. Len(s) /\ Len(Append(s, x)) = Len(s) + 1
      /\ DOMAIN Append(s, x) = 1 .. Len(s) + 1
      /\ \A i \in 1 .. Len(s) : Append(s, x)[i] = s[i]
      /\ Append(s, x)[Len(s) + 1] = x
  BY AppendProperties, LenProperties
<1>2. \A i : i \in 1 .. Len(s) + 1 <=> i \in 1 .. Len(s) \/ i = Len(s) + 1
  BY <1>1
<1>3. ToSet(Append(s, x)) = {Append(s, x)[i] : i \in 1 .. Len(s) + 1}
  BY <1>1 DEF ToSet
<1>4. ToSet(s) = {s[i] : i \in 1 .. Len(s)}
  BY <1>1 DEF ToSet
<1> QED
  BY <1>1, <1>2, <1>3, <1>4

LEMMA SetOfConcat ==
    ASSUME NEW S, NEW s \in Seq(S), NEW r \in Seq(S)
    PROVE  /\ s \o r \in Seq(S)
           /\ ToSet(s) \subseteq ToSet(s \o r) /\ ToSet(r) \subseteq ToSet(s \o r)
<1>1. /\ s \o r \in Seq(S) /\ DOMAIN (s \o r) = 1 .. Len(s) + Len(r)
      /\ DOMAIN s = 1 .. Len(s) /\ DOMAIN r = 1 .. Len(r) /\ Len(s) \in Nat /\ Len(r) \in Nat
      /\ \A k \in 1 .. Len(s) : (s \o r)[k] = s[k]
      /\ \A k \in Len(s) + 1 .. Len(s) + Len(r) : (s \o r)[k] = r[k - Len(s)]
  OBVIOUS
<1>2. \A i \in 1 .. Len(s) : i \in 1 .. Len(s) + Len(r)
  BY <1>1
<1>3. \A i \in 1 .. Len(r) : /\ i + Len(s) \in Len(s) + 1 .. Len(s) + Len(r)
                             /\ i + Len(s) \in 1 .. Len(s) + Len(r)
                             /\ (i + Len(s)) - Len(s) = i
  BY <1>1
<1>4. ToSet(s) \subseteq ToSet(s \o r)
  BY <1>1, <1>2 DEF ToSet
<1>5. \A i \in 1 .. Len(r) : (s \o r)[i + Len(s)] = r[i]
  BY <1>1, <1>3
<1>6. ToSet(r) \subseteq ToSet(s \o r)
  BY <1>1, <1>3, <1>5 DEF ToSet
<1> QED
  BY <1>1, <1>4, <1>6

\* translateInstall after the first k words: those it has read are where they
\* belong, except the value that an environment flag at k still waits for.
Midway(cmd, t, k) ==
    /\ t \in [argv : Seq(STRING), env : Seq(STRING), value : BOOLEAN]
    /\ Len(t.argv) >= 2 /\ t.argv[1] = cmd[1] /\ t.argv[2] = cmd[3]
    /\ t.value => k >= 4 /\ cmd[k] \in EnvFlags
    /\ \A i \in 3 .. Len(t.argv) : \E j \in 4 .. k : t.argv[i] = cmd[j] /\ cmd[j] \in Arguments
    /\ \A j \in 4 .. k : OnItsOwn(cmd, j) =>
          /\ cmd[j] \in Arguments => \E i \in 3 .. Len(t.argv) : t.argv[i] = cmd[j]
          /\ cmd[j] \in DOMAIN EnvEq => EnvEq[cmd[j]] \in ToSet(t.env)
          /\ cmd[j] \in EnvFlags => IF j < k THEN cmd[j + 1] \in ToSet(t.env) ELSE t.value

\* The next word takes it a word further.
LEMMA WordTranslated ==
    ASSUME NEW cmd \in Seq(STRING), NEW k \in 4 .. Len(cmd), NEW t, Midway(cmd, t, k - 1)
    PROVE  Midway(cmd, TranslateWord(t, cmd[k]), k)
<1> DEFINE w == cmd[k]
           u == TranslateWord(t, w)
           Old(s, j) == OnItsOwn(cmd, j) =>
              /\ cmd[j] \in Arguments => \E i \in 3 .. Len(s.argv) : s.argv[i] = cmd[j]
              /\ cmd[j] \in DOMAIN EnvEq => EnvEq[cmd[j]] \in ToSet(s.env)
              /\ cmd[j] \in EnvFlags =>
                    IF j < k THEN cmd[j + 1] \in ToSet(s.env) ELSE s.value
<1>1. /\ w \in STRING /\ k \in Nat /\ Len(cmd) \in Nat
      /\ \A j : j \in 4 .. k <=> j \in 4 .. k - 1 \/ j = k
  <2>1. Len(cmd) \in Nat /\ k \in 1 .. Len(cmd)
    BY LenProperties
  <2>2. w \in STRING
    BY <2>1, ElementOfSeq
  <2> QED
    BY <2>1, <2>2
<1>2. /\ t.argv \in Seq(STRING) /\ t.env \in Seq(STRING) /\ t.value \in BOOLEAN
      /\ Len(t.argv) \in Nat /\ t \in [argv : Seq(STRING), env : Seq(STRING), value : BOOLEAN]
      /\ Len(t.argv) >= 2 /\ t.argv[1] = cmd[1] /\ t.argv[2] = cmd[3]
      /\ t.value => k - 1 >= 4 /\ cmd[k - 1] \in EnvFlags
      /\ \A i \in 3 .. Len(t.argv) : \E j \in 4 .. k : t.argv[i] = cmd[j] /\ cmd[j] \in Arguments
  BY <1>1 DEF Midway
<1>3. ASSUME NEW j \in 4 .. k - 1, OnItsOwn(cmd, j)
      PROVE  /\ cmd[j] \in Arguments => \E i \in 3 .. Len(t.argv) : t.argv[i] = cmd[j]
             /\ cmd[j] \in DOMAIN EnvEq => EnvEq[cmd[j]] \in ToSet(t.env)
             /\ cmd[j] \in EnvFlags => /\ j < k
                                       /\ cmd[j + 1] \in ToSet(t.env) \/ (j + 1 = k /\ t.value)
  <2>1. /\ cmd[j] \in Arguments => \E i \in 3 .. Len(t.argv) : t.argv[i] = cmd[j]
        /\ cmd[j] \in DOMAIN EnvEq => EnvEq[cmd[j]] \in ToSet(t.env)
        /\ cmd[j] \in EnvFlags => IF j < k - 1 THEN cmd[j + 1] \in ToSet(t.env) ELSE t.value
    BY <1>3 DEF Midway
  <2>2. j < k /\ (j < k - 1 \/ j + 1 = k)
    BY <1>1
  <2> QED
    BY <2>1, <2>2
<1>4. w \in Arguments <=> /\ w \notin InstallOnlyFlags /\ w \notin EnvFlags
                          /\ w \notin DOMAIN EnvEq
  BY <1>1 DEF Arguments
<1>5. w \in DOMAIN EnvEq => /\ EnvEq[w] \in STRING
                            /\ w \notin EnvFlags /\ w \notin InstallOnlyFlags
  BY EnvWords
<1>6. InstallOnlyFlags \cap EnvFlags = {}
  BY DEF InstallOnlyFlags, EnvFlags
<1> HIDE DEF w
<1>7. CASE t.value
  <2>1. u = [t EXCEPT !.env = Append(@, w), !.value = FALSE]
    BY <1>7 DEF TranslateWord
  <2>2. /\ u.argv = t.argv /\ u.env = Append(t.env, w) /\ ~u.value
        /\ u \in [argv : Seq(STRING), env : Seq(STRING), value : BOOLEAN]
    <3>1. u = [argv |-> t.argv, env |-> Append(t.env, w), value |-> FALSE]
      BY <1>2, <2>1
    <3>2. Append(t.env, w) \in Seq(STRING)
      BY <1>1, <1>2, AppendProperties
    <3> HIDE DEF u
    <3> QED
      BY <1>2, <3>1, <3>2
  <2>3. ToSet(u.env) = ToSet(t.env) \cup {w}
    BY <1>1, <1>2, <2>2, SetOfAppend
  <2>4. ~OnItsOwn(cmd, k)
    BY <1>1, <1>2, <1>7 DEF OnItsOwn
  <2> HIDE DEF u
  <2>5. \A j \in 4 .. k - 1 : Old(u, j)
    BY <1>3, <2>2, <2>3 DEF w
  <2>6. \A j \in 4 .. k : Old(u, j)
    BY <1>1, <2>4, <2>5
  <2> QED
    BY <1>2, <2>2, <2>6 DEF Midway, u, w
<1>8. CASE ~t.value
  <2>1. \A j \in 4 .. k - 1 : OnItsOwn(cmd, j) =>
           /\ cmd[j] \in Arguments => \E i \in 3 .. Len(t.argv) : t.argv[i] = cmd[j]
           /\ cmd[j] \in DOMAIN EnvEq => EnvEq[cmd[j]] \in ToSet(t.env)
           /\ cmd[j] \in EnvFlags => j < k /\ cmd[j + 1] \in ToSet(t.env)
    BY <1>3, <1>8
  <2>2. CASE w \in InstallOnlyFlags
    <3>1. u = t
      BY <1>8, <2>2 DEF TranslateWord
    <3> HIDE DEF u
    <3>2. \A j \in 4 .. k - 1 : Old(u, j)
      BY <2>1, <3>1
    <3>3. Old(u, k)
      BY <1>4, <1>5, <1>6, <2>2 DEF w
    <3>4. \A j \in 4 .. k : Old(u, j)
      BY <1>1, <3>2, <3>3
    <3> QED
      BY <1>2, <1>8, <3>1, <3>4 DEF Midway, u, w
  <2>3. CASE w \in EnvFlags
    <3>1. u = [t EXCEPT !.value = TRUE]
      BY <1>6, <1>8, <2>3 DEF TranslateWord
    <3>2. /\ u.argv = t.argv /\ u.env = t.env /\ u.value
          /\ u \in [argv : Seq(STRING), env : Seq(STRING), value : BOOLEAN]
      BY <1>2, <3>1
    <3> HIDE DEF u
    <3>3. \A j \in 4 .. k - 1 : Old(u, j)
      BY <2>1, <3>2
    <3>4. Old(u, k)
      BY <1>1, <1>4, <1>5, <2>3, <3>2 DEF w
    <3>5. \A j \in 4 .. k : Old(u, j)
      BY <1>1, <3>3, <3>4
    <3>6. k >= 4 /\ cmd[k] \in EnvFlags
      BY <1>1, <2>3 DEF w
    <3> QED
      BY <1>2, <3>2, <3>5, <3>6 DEF Midway, u, w
  <2>4. CASE w \in DOMAIN EnvEq
    <3>1. u = [t EXCEPT !.env = Append(@, EnvEq[w])]
      BY <1>5, <1>8, <2>4 DEF TranslateWord
    <3>2. /\ u.argv = t.argv /\ u.env = Append(t.env, EnvEq[w]) /\ ~u.value
          /\ u \in [argv : Seq(STRING), env : Seq(STRING), value : BOOLEAN]
      <4>1. u = [argv |-> t.argv, env |-> Append(t.env, EnvEq[w]), value |-> FALSE]
        BY <1>2, <1>8, <3>1
      <4>2. Append(t.env, EnvEq[w]) \in Seq(STRING)
        BY <1>2, <1>5, <2>4, AppendProperties
      <4> HIDE DEF u
      <4> QED
        BY <1>2, <4>1, <4>2
    <3>3. ToSet(u.env) = ToSet(t.env) \cup {EnvEq[w]}
      BY <1>2, <1>5, <2>4, <3>2, SetOfAppend
    <3> HIDE DEF u
    <3>4. \A j \in 4 .. k - 1 : Old(u, j)
      BY <2>1, <3>2, <3>3
    <3>5. Old(u, k)
      BY <1>4, <1>5, <2>4, <3>3 DEF w
    <3>6. \A j \in 4 .. k : Old(u, j)
      BY <1>1, <3>4, <3>5
    <3> QED
      BY <1>2, <3>2, <3>6 DEF Midway, u, w
  <2>5. CASE w \in Arguments
    <3>1. u = [t EXCEPT !.argv = Append(@, w)]
      BY <1>4, <1>8, <2>5 DEF TranslateWord
    <3> DEFINE n == Len(t.argv)
    <3>2. /\ u.argv = Append(t.argv, w) /\ u.env = t.env /\ ~u.value
          /\ u \in [argv : Seq(STRING), env : Seq(STRING), value : BOOLEAN]
          /\ n \in Nat /\ Len(u.argv) = n + 1 /\ u.argv[n + 1] = w
          /\ \A i \in 1 .. n : u.argv[i] = t.argv[i]
      <4>1. u = [argv |-> Append(t.argv, w), env |-> t.env, value |-> FALSE]
        BY <1>2, <1>8, <3>1
      <4>2. /\ Append(t.argv, w) \in Seq(STRING) /\ n \in Nat
            /\ Len(Append(t.argv, w)) = n + 1 /\ Append(t.argv, w)[n + 1] = w
            /\ \A i \in 1 .. n : Append(t.argv, w)[i] = t.argv[i]
        BY <1>1, <1>2, AppendProperties
      <4> HIDE DEF u, n
      <4> QED
        BY <1>2, <4>1, <4>2
    <3>3. n >= 2
      BY <1>2
    <3>4. /\ 1 \in 1 .. n /\ 2 \in 1 .. n /\ n + 1 >= 2 /\ n + 1 \in 3 .. n + 1
          /\ \A i \in 3 .. n : i \in 1 .. n /\ i \in 3 .. n + 1
          /\ \A i \in 3 .. n + 1 : i \in 3 .. n \/ i = n + 1
      <4>1. n \in Nat
        BY <3>2
      <4> HIDE DEF n
      <4> QED
        BY <4>1, <3>3
    <3> HIDE DEF u
    <3>5. \A j \in 4 .. k - 1 : Old(u, j)
      BY <2>1, <3>2, <3>4
    <3>6. Old(u, k)
      BY <1>4, <2>5, <3>2, <3>4 DEF w
    <3>7. \A j \in 4 .. k : Old(u, j)
      BY <1>1, <3>5, <3>6
    <3>8. \A i \in 3 .. n + 1 : \E j \in 4 .. k : u.argv[i] = cmd[j] /\ cmd[j] \in Arguments
      BY <1>1, <1>2, <2>5, <3>2, <3>4 DEF w
    <3>9. Len(u.argv) >= 2 /\ u.argv[1] = cmd[1] /\ u.argv[2] = cmd[3]
      BY <1>2, <3>2, <3>4
    <3> QED
      BY <3>2, <3>7, <3>8, <3>9 DEF Midway, u, w
  <2> QED
    BY <1>4, <2>2, <2>3, <2>4, <2>5
<1> QED
  BY <1>2, <1>7, <1>8

\* translateInstall makes the foreground command of an install, whatever flags it
\* carries.
LEMMA TranslateIs ==
    ASSUME NEW cmd \in Seq(STRING), Len(cmd) >= 3
    PROVE  LET t == TranslateInstall(cmd)
           IN /\ t.argv \in Seq(STRING) /\ t.env \in Seq(STRING)
              /\ Foreground(cmd, t.argv, ToSet(t.env))
<1> DEFINE n == Len(cmd)
           first == Leading(cmd)
<1>1. n \in Nat /\ n >= 3 /\ cmd[1] \in STRING /\ cmd[3] \in STRING
  <2>1. n \in Nat /\ n >= 3
    BY LenProperties
  <2>2. 1 \in 1 .. n /\ 3 \in 1 .. n
    BY <2>1
  <2> QED
    BY <2>1, <2>2, ElementOfSeq
<1>2. PICK t : /\ TranslateInstall(cmd) = t[n] /\ t[3] = first
               /\ \A i \in 4 .. n : t[i] = TranslateWord(t[i - 1], cmd[i])
  BY <1>1, TranslateSteps
<1> DEFINE G == {k \in 3 .. n : Midway(cmd, t[k], k)}
<1>3. 3 \in G
  <2>1. /\ first \in [argv : Seq(STRING), env : Seq(STRING), value : BOOLEAN]
        /\ Len(first.argv) = 2 /\ first.argv[1] = cmd[1] /\ first.argv[2] = cmd[3] /\ ~first.value
    BY <1>1 DEF Leading
  <2>2. \A j \in 4 .. 3 : FALSE
    OBVIOUS
  <2>3. \A i \in 3 .. 2 : FALSE
    OBVIOUS
  <2> HIDE DEF first
  <2>4. Midway(cmd, t[3], 3)
    BY <1>2, <2>1, <2>2, <2>3 DEF Midway
  <2> QED
    BY <1>1, <2>4
<1>4. ASSUME NEW k \in 3 + 1 .. n, k - 1 \in G  PROVE k \in G
  <2>1. k \in 4 .. n /\ k \in 3 .. n /\ Midway(cmd, t[k - 1], k - 1)
    BY <1>1, <1>4
  <2>2. Midway(cmd, t[k], k)
    BY <1>2, <2>1, WordTranslated
  <2> QED
    BY <2>1, <2>2
<1>5. Midway(cmd, t[n], n)
  <2>1. 3 \in Nat /\ 3 <= n
    BY <1>1
  <2> HIDE DEF n, G
  <2>2. n \in G
    BY <1>1, <1>3, <1>4, <2>1, Reached
  <2> QED
    BY <2>2 DEF G
<1>6. /\ t[n].argv \in Seq(STRING) /\ t[n].env \in Seq(STRING)
      /\ Foreground(cmd, t[n].argv, ToSet(t[n].env))
  BY <1>5 DEF Midway, Foreground
<1> QED
  BY <1>2, <1>6

LEMMA ForegroundGrows ==
    ASSUME NEW cmd, NEW argv, NEW vals, NEW more, Foreground(cmd, argv, vals), vals \subseteq more
    PROVE  Foreground(cmd, argv, more)
BY DEF Foreground

\* Interpret makes the last install of a document the workload, and adds its
\* environment to the others'; without one there is no workload.
LEMMA PlanIs ==
    ASSUME NEW runcmd \in Seq(Seq(STRING))
    PROVE  /\ NoInstall(runcmd) => Plan(runcmd).workload = << >>
           /\ \A m : LastInstall(runcmd, m) =>
                 Foreground(runcmd[m], Plan(runcmd).workload, ToSet(Plan(runcmd).env))
<1> DEFINE n == Len(runcmd)
           Translated(m) == TranslateInstall(runcmd[m])
<1>1. PICK p : /\ Plan(runcmd) = p[n] /\ p[0] = NoPlan
               /\ \A i \in 1 .. n : p[i] = PlanCommand(p[i - 1], runcmd[i])
  <2>1. n \in Nat
    BY LenProperties
  <2> QED
    BY <2>1, PlanSteps
<1>2. n \in Nat /\ DOMAIN runcmd = 1 .. n /\ \A i \in 1 .. n : runcmd[i] \in Seq(STRING)
  BY LenProperties, ElementOfSeq
<1>3. \A i \in 1 .. n : IsInstall(runcmd[i]) =>
         /\ Translated(i).argv \in Seq(STRING) /\ Translated(i).env \in Seq(STRING)
         /\ Foreground(runcmd[i], Translated(i).argv, ToSet(Translated(i).env))
  BY <1>2, TranslateIs DEF IsInstall
<1> DEFINE Known(i) ==
              /\ DOMAIN p[i] = DOMAIN NoPlan /\ p[i].env \in Seq(STRING)
              /\ (\A j \in 1 .. i : ~IsInstall(runcmd[j])) => p[i].workload = << >>
              /\ \A m \in 1 .. i :
                    IsInstall(runcmd[m]) /\ (\A j \in 1 .. i : j > m => ~IsInstall(runcmd[j]))
                       => /\ p[i].workload = Translated(m).argv
                          /\ ToSet(Translated(m).env) \subseteq ToSet(p[i].env)
           G == {i \in 0 .. n : Known(i)}
<1> HIDE DEF n, Translated
<1>4. DOMAIN NoPlan = {"workload", "env", "actions", "unsupported"}
  BY DEF NoPlan
<1>5. 0 \in G
  <2>1. NoPlan.env \in Seq(STRING) /\ NoPlan.workload = << >>
    BY DEF NoPlan
  <2>2. \A m \in 1 .. 0 : FALSE
    OBVIOUS
  <2>3. Known(0)
    BY <1>1, <2>1, <2>2
  <2> HIDE DEF Known
  <2> QED
    BY <1>2, <2>3
<1>6. ASSUME NEW i \in 0 + 1 .. n, i - 1 \in G  PROVE i \in G
  <2> DEFINE cmd == runcmd[i]
             q == p[i - 1]
  <2>1. i \in 1 .. n /\ i \in 0 .. n /\ Known(i - 1) /\ p[i] = PlanCommand(q, cmd)
    BY <1>1, <1>2, <1>6
  <2>2. /\ DOMAIN q = {"workload", "env", "actions", "unsupported"} /\ q.env \in Seq(STRING)
        /\ (\A j \in 1 .. i - 1 : ~IsInstall(runcmd[j])) => q.workload = << >>
        /\ \A m \in 1 .. i - 1 :
              IsInstall(runcmd[m]) /\ (\A j \in 1 .. i - 1 : j > m => ~IsInstall(runcmd[j]))
                 => /\ q.workload = Translated(m).argv
                    /\ ToSet(Translated(m).env) \subseteq ToSet(q.env)
    BY <1>4, <2>1
  <2>3. \A j : j \in 1 .. i <=> j \in 1 .. i - 1 \/ j = i
    BY <1>2, <2>1
  <2>4. \A j \in 1 .. i - 1 : i > j /\ ~(j > i)
    BY <1>2, <2>1
  <2>5. CASE IsInstall(cmd)
    <3>1. p[i] = [q EXCEPT !.workload = Translated(i).argv, !.env = @ \o Translated(i).env]
      BY <2>1, <2>5 DEF PlanCommand, Install, Translated
    <3>2. /\ DOMAIN p[i] = DOMAIN NoPlan /\ p[i].workload = Translated(i).argv
          /\ p[i].env = q.env \o Translated(i).env
      BY <1>4, <2>2, <3>1
    <3>3. /\ p[i].env \in Seq(STRING) /\ ToSet(Translated(i).env) \subseteq ToSet(p[i].env)
      BY <1>3, <2>1, <2>2, <2>5, <3>2, SetOfConcat
    <3> HIDE DEF q
    <3>4. \A m \in 1 .. i : (\A j \in 1 .. i : j > m => ~IsInstall(runcmd[j])) => m = i
      BY <2>3, <2>4, <2>5
    <3>5. ~ \A j \in 1 .. i : ~IsInstall(runcmd[j])
      BY <2>3, <2>5
    <3>6. Known(i)
      BY <3>2, <3>3, <3>4, <3>5
    <3> HIDE DEF Known
    <3> QED
      BY <2>1, <3>6
  <2>6. CASE ~IsInstall(cmd)
    <3>1. /\ DOMAIN p[i] = DOMAIN q /\ p[i].workload = q.workload /\ p[i].env = q.env
      BY <2>1, <2>2, <2>6 DEF PlanCommand
    <3>2. (\A j \in 1 .. i : ~IsInstall(runcmd[j])) => p[i].workload = << >>
      BY <2>2, <2>3, <3>1
    <3>3. ASSUME NEW m \in 1 .. i, IsInstall(runcmd[m]),
                 \A j \in 1 .. i : j > m => ~IsInstall(runcmd[j])
          PROVE  /\ p[i].workload = Translated(m).argv
                 /\ ToSet(Translated(m).env) \subseteq ToSet(p[i].env)
      <4>1. m \in 1 .. i - 1
        BY <2>3, <2>6, <3>3
      <4>2. \A j \in 1 .. i - 1 : j > m => ~IsInstall(runcmd[j])
        BY <2>3, <3>3
      <4> QED
        BY <2>2, <3>1, <3>3, <4>1, <4>2
    <3>4. Known(i)
      BY <1>4, <2>2, <3>1, <3>2, <3>3
    <3> HIDE DEF Known
    <3> QED
      BY <2>1, <3>4
  <2> QED
    BY <2>5, <2>6
<1> HIDE DEF Known
<1>7. Known(n)
  <2>1. 0 \in Nat /\ 0 <= n
    BY <1>2
  <2> HIDE DEF G
  <2>2. n \in G
    BY <1>2, <1>5, <1>6, <2>1, Reached
  <2> QED
    BY <2>2 DEF G
<1>8. NoInstall(runcmd) => Plan(runcmd).workload = << >>
  BY <1>1, <1>2, <1>7 DEF Known, NoInstall
<1>9. ASSUME NEW m, LastInstall(runcmd, m)
      PROVE  Foreground(runcmd[m], Plan(runcmd).workload, ToSet(Plan(runcmd).env))
  <2>1. m \in 1 .. n /\ IsInstall(runcmd[m]) /\ \A j \in 1 .. n : j > m => ~IsInstall(runcmd[j])
    BY <1>2, <1>9 DEF LastInstall
  <2>2. /\ Plan(runcmd).workload = Translated(m).argv
        /\ ToSet(Translated(m).env) \subseteq ToSet(Plan(runcmd).env)
    BY <1>1, <1>7, <2>1 DEF Known
  <2>3. Foreground(runcmd[m], Translated(m).argv, ToSet(Translated(m).env))
    BY <1>3, <2>1
  <2> QED
    BY <2>2, <2>3, ForegroundGrows
<1> QED
  BY <1>8, <1>9

-----------------------------------------------------------------------------
(* A machine is what its drive says.                                       *)

\* What loadMetadata makes of a drive: both documents, or nothing.
LEMMA DriveLoaded ==
    ASSUME NEW d \in Drives \cup {NoDrive}
    PROVE  LET user == UserDoc(d)
               meta == MetaDoc(d)
               said == Load(d)
           IN /\ Usable(d) => /\ said.hostname = ParseMetaData(meta)
                              /\ user.kind # "yaml" => said.ud = NoUserData
                              /\ user.kind = "yaml" =>
                                    /\ said.ud.machine = user.machine
                                    /\ said.ud.runcmd = Commands(user.runcmd)
              /\ ~Usable(d) => said.ud = NoUserData
              /\ user.kind = "yaml" =>
                    /\ user.machine \in [DOMAIN NoMachine -> STRING]
                    /\ user.runcmd \in Seq([form : STRING, argv : Seq(STRING)])
<1>1. ReadFirst(d, UserDataPaths) = UserDoc(d) /\ ReadFirst(d, MetaDataPaths) = MetaDoc(d)
  BY DEF UserDoc, MetaDoc
<1>2. UserDoc(NoDrive).kind = "empty"
  BY DEF UserDoc, ReadFirst, NoDrive, Absent
<1>3. UserDoc(d).kind = "yaml" =>
         /\ UserDoc(d).machine \in [DOMAIN NoMachine -> STRING]
         /\ UserDoc(d).runcmd \in Seq([form : STRING, argv : Seq(STRING)])
  BY <1>2, DocumentsTyped
<1>4. Usable(d) => Load(d) = [ud |-> ParseUserData(UserDoc(d)),
                              hostname |-> ParseMetaData(MetaDoc(d))]
  BY <1>1 DEF Usable, Load
<1>5. ~Usable(d) => Load(d).ud = NoUserData
  BY <1>1 DEF Usable, Load
<1>6. UserDoc(d).kind # "yaml" => ParseUserData(UserDoc(d)) = NoUserData
  BY DEF ParseUserData
<1>7. UserDoc(d).kind = "yaml" =>
         /\ ParseUserData(UserDoc(d)).machine = UserDoc(d).machine
         /\ ParseUserData(UserDoc(d)).runcmd = Commands(UserDoc(d).runcmd)
  BY DEF ParseUserData
<1> QED
  BY <1>3, <1>4, <1>5, <1>6, <1>7

\* The plan of a drive has the workload of its last install, or none.
LEMMA DrivePlanned ==
    ASSUME NEW d \in Drives \cup {NoDrive}
    PROVE  LET plan == Plan(Load(d).ud.runcmd)
           IN /\ Usable(d) =>
                    IF Installs(d) = {} THEN plan.workload = << >>
                    ELSE Foreground(UserDoc(d).runcmd[Max(Installs(d))].argv, plan.workload,
                                    ToSet(plan.env))
              /\ ~Usable(d) => plan = NoPlan
<1> DEFINE runcmd == Load(d).ud.runcmd
           user == UserDoc(d)
<1>1. Plan(<< >>) = NoPlan
  <2>1. Len(<< >>) = 0
    OBVIOUS
  <2> QED
    BY <2>1, PlanSteps
<1>2. NoUserData.runcmd = << >> /\ NoPlan.workload = << >>
  BY DEF NoUserData, NoPlan
<1>3. CASE ~Usable(d)
  BY <1>1, <1>2, <1>3, DriveLoaded
<1>4. CASE Usable(d) /\ user.kind # "yaml"
  BY <1>1, <1>2, <1>4, DriveLoaded DEF Installs
<1>5. CASE Usable(d) /\ user.kind = "yaml"
  <2> DEFINE entries == user.runcmd
             inst == {i \in DOMAIN entries : Plain(entries[i]) /\ IsInstall(entries[i].argv)}
  <2>1. runcmd = Commands(entries) /\ entries \in Seq([form : STRING, argv : Seq(STRING)])
    BY <1>5, DriveLoaded
  <2>2. Installs(d) = inst
    BY <1>5 DEF Installs
  <2> HIDE DEF runcmd, entries
  <2>3. /\ runcmd \in Seq(Seq(STRING))
        /\ inst = {} => NoInstall(runcmd)
        /\ inst # {} => \E k : LastInstall(runcmd, k) /\ runcmd[k] = entries[Max(inst)].argv
    <3> HIDE DEF inst
    <3>1. inst = {i \in DOMAIN entries : Plain(entries[i]) /\ IsInstall(entries[i].argv)}
      BY DEF inst
    <3> QED
      BY <2>1, <3>1, CommandsAre
  <2> HIDE DEF inst
  <2>4. inst = {} => Plan(runcmd).workload = << >>
    BY <2>3, PlanIs
  <2>5. inst # {} => Foreground(entries[Max(inst)].argv, Plan(runcmd).workload,
                                ToSet(Plan(runcmd).env))
    BY <2>3, PlanIs
  <2> QED
    BY <1>5, <2>2, <2>4, <2>5 DEF runcmd, entries
<1> QED
  BY <1>3, <1>4, <1>5

\* The stages before the drive is read, from config.Parse on, and those between the
\* drive and the plan.
Unheard == {"modules", "root", "rootmount", "switch", "overlay", "data", "cgroup", "metadata"}
Settled == {"network", "nics", "plan"}

\* What boot has from the drive is all that the drive says.
Heard ==
    /\ drive \in Drives \cup {NoDrive}
    /\ ud = Load(drive).ud /\ host = Load(drive).hostname
    /\ cfg = ApplyMachineConfig(Parse(cmdline), ud.machine)
    /\ hostname \in {"", Hostname}
    /\ ~Usable(drive) => \A w \in writes : w.by # "drive"

\* Until the drive is read the configuration is the command line's, also after the
\* switch of the root, and nothing is written for a drive.
Told ==
    /\ cmdline \in Cmdlines
    /\ pc \in Unheard => cfg = Parse(cmdline)
    /\ pc \in Unheard \cup {"mounts"} => hostname = "" /\ \A w \in writes : w.by # "drive"
    /\ pc \in Settled => Heard
    /\ IdentityHonoured

LEMMA InitTold == Init => Told
BY DEF Init, Told, Unheard, Settled, IdentityHonoured

LEMMA SameTold ==
    ASSUME Told,
           UNCHANGED <<pc, cmdline, cfg, ud, host, drive, writes, hostname, workload, env>>
    PROVE  Told'
BY DEF Told, Heard, Hostname, IdentityHonoured

\* A stage before the drive is read, or the end of boot.
LEMMA UnheardTold ==
    ASSUME Told, UNCHANGED <<cmdline, cfg, hostname>>, pc \in Unheard,
           pc' \in Unheard \cup {"mounts", "panic"},
           \A w \in writes' : w \in writes \/ w.by # "drive"
    PROVE  Told'
BY DEF Told, Unheard, Settled, IdentityHonoured

LEMMA PanicTold == Told /\ Panic => Told'
BY DEF Told, Panic, machine, Unheard, Settled, IdentityHonoured

LEMMA MountsTold == Told /\ Mounts => Told'
<1> SUFFICES ASSUME Told, Mounts, ~Panic  PROVE Told'
  BY PanicTold
<1> QED
  BY DEF Told, Mounts, machine, Unheard, Settled, IdentityHonoured

LEMMA RootTold ==
    ASSUME Told,
           LoadModules \/ ModuleStep \/ ModulesDone \/ RootDevice \/ RootMount \/ Overlay
    PROVE  Told'
<1>1. LoadModules \/ ModuleStep \/ ModulesDone =>
         /\ UNCHANGED <<machine, cfg, hostname, writes>>
         /\ pc = "modules" /\ pc' \in {"modules", "overlay", "root"}
  BY DEF LoadModules, ModuleStep, ModulesDone, AfterModules
<1>2. RootDevice \/ RootMount =>
         /\ UNCHANGED <<machine, cfg, hostname, writes>>
         /\ pc \in {"root", "rootmount"} /\ pc' \in {"root", "rootmount", "switch", "panic"}
  BY DEF RootDevice, RootMount, NoRoot, LoopAttachFails
<1>3. Overlay => /\ UNCHANGED <<machine, cfg, hostname, writes>>
                 /\ pc = "overlay" /\ pc' = "data"
  BY DEF Overlay, Then
<1> QED
  BY <1>1, <1>2, <1>3, UnheardTold DEF Unheard, machine

\* The second start reads the command line again.
LEMMA SwitchRootTold == Told /\ SwitchRoot => Told'
<1>1. SwitchRoot => /\ UNCHANGED <<machine, hostname, writes>>
                    /\ pc = "switch" /\ pc' \in {"mounts", "panic"}
  BY DEF SwitchRoot, NoRoot
<1> QED
  BY <1>1 DEF Told, machine, Unheard, Settled, IdentityHonoured

LEMMA DataVolumeTold == Told /\ DataVolumeStage => Told'
<1> SUFFICES ASSUME Told, DataVolumeStage  PROVE Told'
  OBVIOUS
<1>1. /\ UNCHANGED <<machine, cfg, hostname>>
      /\ pc = "data" /\ pc' = "cgroup"
      /\ \/ writes' = writes \cup {[dir |-> "/var", on |-> "data", by |-> "boot"]}
         \/ UNCHANGED writes
  BY DEF DataVolumeStage, Then
<1>2. \A w \in writes' : w \in writes \/ w.by # "drive"
  BY <1>1
<1> QED
  BY <1>1, <1>2, UnheardTold DEF Unheard, machine

LEMMA CgroupTold == Told /\ Cgroup => Told'
<1> SUFFICES ASSUME Told, Cgroup, ~Panic  PROVE Told'
  BY PanicTold
<1>1. /\ UNCHANGED <<machine, cfg, hostname, writes>>
      /\ pc = "cgroup" /\ pc' = "metadata"
  BY DEF Cgroup, Then
<1> QED
  BY <1>1, UnheardTold DEF Unheard, machine

\* The drive is heard at once: its files are written only if both of its documents
\* could be used.
LEMMA ReadDriveTold == Told /\ ReadDrive => Told'
<1> SUFFICES ASSUME Told, ReadDrive  PROVE Told'
  OBVIOUS
<1>1. /\ pc = "metadata" /\ pc' = "network" /\ UNCHANGED <<cmdline, hostname>>
  BY DEF ReadDrive, Then, machine
<1>2. PICK content \in Drives \cup {NoDrive} :
         /\ drive' = content /\ ud' = Load(content).ud /\ host' = Load(content).hostname
         /\ cfg' = ApplyMachineConfig(cfg, Load(content).ud.machine)
         /\ \E n \in Applied(Load(content).ud.files) :
               writes' = writes \cup
                  {Made(Dir(Load(content).ud.files[i].path), "drive") :
                      i \in {k \in 1 .. n : Load(content).ud.files[k].path # ""}}
  BY DEF ReadDrive
<1>3. cfg = Parse(cmdline) /\ hostname = "" /\ \A w \in writes : w.by # "drive"
  BY <1>1 DEF Told, Unheard
<1>4. ASSUME ~Usable(content)  PROVE writes' = writes
  <2>1. Load(content).ud.files = << >>
    BY <1>4, DriveLoaded DEF NoUserData
  <2>2. Applied(Load(content).ud.files) \subseteq {0}
    <3>1. Len(Load(content).ud.files) = 0 /\ 0 .. 0 = {0}
      BY <2>1
    <3> QED
      BY <3>1 DEF Applied
  <2>3. \A n \in {0} : 1 .. n = {}
    OBVIOUS
  <2> QED
    BY <1>2, <2>2, <2>3
<1>5. Heard'
  BY <1>1, <1>2, <1>3, <1>4 DEF Heard
<1> QED
  BY <1>1, <1>5 DEF Told, Unheard, Settled, IdentityHonoured

LEMMA NetworkTold == Told /\ (Network \/ Nic) => Told'
<1> SUFFICES ASSUME Told, Network \/ Nic, ~Panic  PROVE Told'
  BY PanicTold
<1>1. /\ UNCHANGED <<cmdline, cfg, ud, host, drive, writes, hostname>>
      /\ pc \in Settled /\ pc' \in Settled
  BY DEF Network, Nic, Settled, machine
<1>2. Heard'
  BY <1>1 DEF Told, Heard, Hostname
<1> QED
  BY <1>1, <1>2 DEF Told, Unheard, Settled, IdentityHonoured

LEMMA ResolvTold == Told /\ Resolv => Told'
<1> SUFFICES ASSUME Told, Resolv  PROVE Told'
  OBVIOUS
<1>1. /\ UNCHANGED <<cmdline, cfg, ud, host, drive>>
      /\ pc = "nics" /\ pc' = "plan" /\ hostname' \in {Hostname, hostname}
      /\ \/ writes' = writes \cup {Made("/etc", "boot")}
         \/ UNCHANGED writes
  BY DEF Resolv, machine
<1>2. Made("/etc", "boot").by # "drive"
  BY DEF Made
<1>3. Heard'
  BY <1>1, <1>2 DEF Told, Settled, Heard, Hostname
<1> QED
  BY <1>1, <1>3 DEF Told, Unheard, Settled, IdentityHonoured

LEMMA RunPlanTold == Told /\ RunPlan => Told'
<1> SUFFICES ASSUME Told, RunPlan  PROVE Told'
  OBVIOUS
<1> DEFINE plan == Plan(ud.runcmd)
<1>1. /\ pc = "plan" /\ pc' = "run" /\ UNCHANGED <<cmdline, cfg, ud, host, drive, hostname>>
      /\ \E ok \in RunActions(plan.actions) :
            writes' = writes \cup {Made(Dir(plan.actions[i].path), "drive") : i \in ok}
      /\ workload' = IF plan.workload # << >> THEN plan.workload ELSE << cfg.exec >>
      /\ env' = plan.env
  BY DEF RunPlan, machine
<1>2. Heard /\ cmdline \in Cmdlines
  BY <1>1 DEF Told, Settled
<1>3. Parse(cmdline) \in [DOMAIN Defaults -> Texts]
  BY <1>2, CmdlinesTyped, ParseTyped
<1>4. plan = Plan(Load(drive).ud.runcmd) /\ drive \in Drives \cup {NoDrive}
  BY <1>2 DEF Heard
<1> HIDE DEF plan
<1>5. ASSUME Usable(drive)
      PROVE  /\ IF Installs(drive) = {} THEN workload' = << cfg.exec >>
                ELSE Foreground(UserDoc(drive).runcmd[Max(Installs(drive))].argv,
                                workload', ToSet(env'))
             /\ MetaDoc(drive).kind = "yaml" /\ MetaDoc(drive).local # "" =>
                   hostname \in {"", MetaDoc(drive).local}
             /\ UserDoc(drive).kind = "yaml" /\ UserDoc(drive).machine.ip # "" =>
                   cfg.ip = UserDoc(drive).machine.ip
  <2>1. IF Installs(drive) = {} THEN workload' = << cfg.exec >>
        ELSE Foreground(UserDoc(drive).runcmd[Max(Installs(drive))].argv, workload', ToSet(env'))
    <3>1. CASE Installs(drive) = {}
      BY <1>1, <1>4, <1>5, <3>1, DrivePlanned
    <3>2. CASE Installs(drive) # {}
      <4>1. Foreground(UserDoc(drive).runcmd[Max(Installs(drive))].argv, plan.workload,
                       ToSet(plan.env))
        BY <1>4, <1>5, <3>2, DrivePlanned
      <4>2. plan.workload # << >>
        <5>1. Len(plan.workload) >= 2
          BY <4>1 DEF Foreground
        <5> QED
          BY <5>1
      <4> QED
        BY <1>1, <3>2, <4>1, <4>2
    <3> QED
      BY <3>1, <3>2
  <2>2. MetaDoc(drive).kind = "yaml" /\ MetaDoc(drive).local # "" =>
           hostname \in {"", MetaDoc(drive).local}
    BY <1>2, <1>4, <1>5, DriveLoaded DEF Heard, Hostname, ParseMetaData
  <2>3. UserDoc(drive).kind = "yaml" /\ UserDoc(drive).machine.ip # "" =>
           cfg.ip = UserDoc(drive).machine.ip
    BY <1>2, <1>3, <1>4, <1>5, DriveLoaded, MachineApplied DEF Heard
  <2> QED
    BY <2>1, <2>2, <2>3
<1>6. ASSUME ~Usable(drive)
      PROVE  /\ workload' = << Parse(cmdline).exec >> /\ cfg = Parse(cmdline)
             /\ \A w \in writes' : w.by # "drive"
  <2>1. plan = NoPlan /\ ud = NoUserData
    BY <1>2, <1>4, <1>6, DrivePlanned, DriveLoaded DEF Heard
  <2>2. plan.workload = << >> /\ plan.actions = << >>
    BY <2>1 DEF NoPlan
  <2>3. ud.machine = NoMachine
    BY <2>1 DEF NoUserData
  <2>4. cfg = Parse(cmdline)
    BY <1>2, <1>3, <2>3, MachineApplied DEF Heard
  <2>5. \A ok \in RunActions(plan.actions) : ok = {}
    BY <2>2 DEF RunActions
  <2>6. writes' = writes
    BY <1>1, <2>5
  <2> QED
    BY <1>1, <1>2, <1>6, <2>2, <2>4, <2>6 DEF Heard
<1>7. IdentityHonoured'
  BY <1>1, <1>5, <1>6 DEF IdentityHonoured
<1> QED
  BY <1>1, <1>2, <1>7 DEF Told, Unheard, Settled

LEMMA NextTold == Told /\ [Next]_vars => Told'
<1>1. UNCHANGED vars \/ DiskAppears \/ KernelDevice \/ Ended =>
         UNCHANGED <<pc, cmdline, cfg, ud, host, drive, writes, hostname, workload, env>>
  BY DEF vars, DiskAppears, KernelDevice, Ended, machine
<1>2. Told /\ BootStep => Told'
  BY MountsTold, RootTold, SwitchRootTold, DataVolumeTold, CgroupTold, ReadDriveTold,
     NetworkTold, ResolvTold, RunPlanTold DEF BootStep
<1> QED
  BY <1>1, <1>2, SameTold DEF Next

\* Whatever a drive carries, the node that runs is the one it describes: the workload
\* is the foreground command of its last install with the flags of that install, its
\* hostname and its address are in force, and a drive with a document that does not
\* parse has left nothing behind.
THEOREM AlwaysIdentityHonoured == Spec => []IdentityHonoured
<1>1. Told => IdentityHonoured
  BY DEF Told
<1> QED
  BY <1>1, InitTold, NextTold, PTL DEF Spec

-----------------------------------------------------------------------------
(* Boot implements the safety part of BootChain.                           *)

\* The root is left once, unless boot is told to stay; what is not mounted over is
\* bare; and the drive is not known before it is read.
Ordered ==
    /\ switched => root # "initramfs"
    /\ ~switched => root = "initramfs"
    /\ pc \in {"root", "rootmount", "switch"} => ~switched /\ Parse(cmdline).root # "none"
    /\ pc \in {"overlay", "data", "cgroup", "metadata"} =>
          switched \/ Parse(cmdline).root = "none"
    /\ pc \in Early \ {"data"} => \A d \in MountDirs : top[d] = "root"
    /\ pc = "data" => top["/var"] = "root"
    /\ pc \in Unheard \cup {"mounts"} => drive = NoDrive

LEMMA InitOrdered == Init => Ordered
BY DEF Init, Ordered, Early

\* A stage that mounts nothing, or the end of boot.
LEMMA SameOrdered ==
    ASSUME Ordered, UNCHANGED <<switched, root, top, drive, cmdline>>,
           \/ pc' = pc
           \/ pc' \in {"network", "nics", "plan", "run", "panic"}
           \/ pc = "cgroup" /\ pc' = "metadata"
           \/ pc = "mounts" /\ pc' = "modules"
           \/ pc = "modules" /\ pc' \in {"overlay", "root"}
              /\ IF pc' = "root" THEN ~switched /\ Parse(cmdline).root # "none"
                 ELSE switched \/ Parse(cmdline).root = "none"
           \/ pc = "root" /\ pc' = "rootmount"
           \/ pc = "rootmount" /\ pc' = "switch"
    PROVE  Ordered'
BY DEF Ordered, Early, Unheard

LEMMA OverlaysAre ==
    ASSUME NEW n \in 0 .. Len(WritablePaths)
    PROVE  ToSet(SubSeq(WritablePaths, 1, n)) \subseteq {"/etc", "/usr/libexec"}
<1>1. Len(WritablePaths) = 2 /\ WritablePaths[1] = "/etc" /\ WritablePaths[2] = "/usr/libexec"
  BY DEF WritablePaths
<1>2. \A i \in 1 .. n : i = 1 \/ i = 2
  BY <1>1
<1>3. SubSeq(WritablePaths, 1, n) = [i \in 1 .. n |-> WritablePaths[i]]
  BY <1>1, SubSeqProperties DEF WritablePaths
<1> QED
  BY <1>1, <1>2, <1>3 DEF ToSet

LEMMA NextOrdered == IInv /\ Told /\ Ordered /\ [Next]_vars => Ordered'
<1> SUFFICES ASSUME IInv, Told, Ordered, [Next]_vars  PROVE Ordered'
  OBVIOUS
<1>1. CASE UNCHANGED vars \/ DiskAppears \/ KernelDevice \/ Ended
  BY <1>1, SameOrdered DEF vars, DiskAppears, KernelDevice, Ended, machine
<1>2. CASE Panic
  BY <1>2, SameOrdered DEF Panic, machine
<1>3. CASE (Mounts \/ Cgroup \/ Network) /\ ~Panic
  BY <1>3, SameOrdered DEF Mounts, Cgroup, Network, Then, machine
<1>4. CASE LoadModules \/ ModuleStep \/ Nic
  BY <1>4, SameOrdered DEF LoadModules, ModuleStep, Nic, machine
<1>5. CASE ModulesDone
  <2>1. /\ pc = "modules" /\ UNCHANGED <<switched, root, top, drive, cmdline>>
        /\ pc' = IF cfg.root = "none" \/ switched THEN "overlay" ELSE "root"
    BY <1>5 DEF ModulesDone, AfterModules, machine
  <2>2. cfg = Parse(cmdline)
    BY <2>1 DEF Told, Unheard
  <2> QED
    BY <2>1, <2>2, SameOrdered
<1>6. CASE RootDevice
  BY <1>6, SameOrdered DEF RootDevice, NoRoot, LoopAttachFails, machine
<1>7. CASE RootMount
  BY <1>7, SameOrdered DEF RootMount, NoRoot, machine
<1>8. CASE SwitchRoot
  <2>1. pc = "switch" /\ UNCHANGED <<top, drive, cmdline>>
    BY <1>8 DEF SwitchRoot, machine
  <2>2. CASE pc' = "panic" /\ UNCHANGED <<root, switched>>
    BY <2>1, <2>2, SameOrdered
  <2>3. CASE pc' = "mounts" /\ switched' = TRUE /\ root' = newRoot
    <3>1. root' # "initramfs"
      BY <2>1, <2>3, Typed
    <3> QED
      BY <2>1, <2>3, <3>1 DEF Ordered, Early, Unheard
  <2> QED
    BY <1>8, <2>2, <2>3 DEF SwitchRoot, NoRoot
<1>9. CASE Overlay
  <2>1. pc = "overlay" /\ pc' = "data" /\ UNCHANGED <<root, switched, drive, cmdline>>
    BY <1>9 DEF Overlay, Then, machine
  <2>2. PICK n \in 0 .. Len(WritablePaths) :
           top' = [d \in MountDirs |->
                      IF d \in ToSet(SubSeq(WritablePaths, 1, n)) THEN "overlay" ELSE top[d]]
    BY <1>9 DEF Overlay, WritablePaths
  <2>3. "/var" \in MountDirs /\ "/var" \notin ToSet(SubSeq(WritablePaths, 1, n))
    BY OverlaysAre DEF MountDirs
  <2> QED
    BY <2>1, <2>2, <2>3 DEF Ordered, Early, Unheard
<1>10. CASE DataVolumeStage
  <2>1. pc = "data" /\ pc' = "cgroup" /\ UNCHANGED <<root, switched, drive, cmdline>>
    BY <1>10 DEF DataVolumeStage, Then, machine
  <2> QED
    BY <2>1 DEF Ordered, Early, Unheard
<1>11. CASE ReadDrive
  <2>1. pc' = "network" /\ UNCHANGED <<root, switched, cmdline>>
    BY <1>11 DEF ReadDrive, Then, machine
  <2> QED
    BY <2>1 DEF Ordered, Early, Unheard
<1>12. CASE Resolv \/ RunPlan
  BY <1>12, SameOrdered DEF Resolv, RunPlan, machine
<1> QED
  BY <1>1, <1>2, <1>3, <1>4, <1>5, <1>6, <1>7, <1>8, <1>9, <1>10, <1>11, <1>12
     DEF Next, BootStep

-----------------------------------------------------------------------------

\* The stage of BootChain and the address in use, by the stage of boot, here and
\* after a step.
LEMMA StageIs ==
    /\ pc \in Early \cup {"cgroup", "metadata"} => stageBar = "booting" /\ addressBar = ""
    /\ pc = "network" => stageBar = "told" /\ addressBar = ""
    /\ pc \in {"nics", "plan"} => stageBar = "connected" /\ addressBar = cfg.ip
    /\ pc = "run" => stageBar = "up" /\ addressBar = cfg.ip
    /\ pc = "panic" => stageBar = "failed" /\ addressBar = ""
BY DEF stageBar, addressBar, Early

LEMMA StageNext ==
    /\ pc' \in Early \cup {"cgroup", "metadata"} => stageBar' = "booting" /\ addressBar' = ""
    /\ pc' = "network" => stageBar' = "told" /\ addressBar' = ""
    /\ pc' \in {"nics", "plan"} => stageBar' = "connected" /\ addressBar' = cfg'.ip
    /\ pc' = "run" => stageBar' = "up" /\ addressBar' = cfg'.ip
    /\ pc' = "panic" => stageBar' = "failed" /\ addressBar' = ""
BY DEF stageBar, addressBar, Early

\* Without a drive there is nothing that cannot be used.
LEMMA NoDriveUsable == Usable(NoDrive) /\ AddressOf(NoDrive) = ""
<1>1. UserDoc(NoDrive).kind = "empty" /\ MetaDoc(NoDrive).kind = "empty"
  BY DEF UserDoc, MetaDoc, ReadFirst, NoDrive, Absent
<1> QED
  BY <1>1 DEF Usable, AddressOf

\* The address a drive names is applied, or the command line's stays.
LEMMA AddressIs ==
    ASSUME NEW d \in Drives \cup {NoDrive}, cmdline \in Cmdlines
    PROVE  /\ AddressOf(d) \in {""} \cup IF Usable(d) THEN STRING ELSE {}
           /\ ApplyMachineConfig(Parse(cmdline), Load(d).ud.machine).ip =
                 IF AddressOf(d) # "" THEN AddressOf(d) ELSE Parse(cmdline).ip
<1>1. Parse(cmdline) \in [DOMAIN Defaults -> Texts]
  BY CmdlinesTyped, ParseTyped
<1>2. CASE Usable(d) /\ UserDoc(d).kind = "yaml"
  <2> DEFINE m == UserDoc(d).machine
  <2>1. m \in [DOMAIN NoMachine -> STRING] /\ Load(d).ud.machine = m /\ AddressOf(d) = m.ip
    BY <1>2, DriveLoaded DEF AddressOf
  <2>2. m.ip \in STRING
    BY <2>1, DefaultsAre
  <2>3. m.ip # "" => ApplyMachineConfig(Parse(cmdline), m).ip = m.ip
    BY <1>1, <2>1, MachineApplied
  <2>4. m.ip = "" => ApplyMachineConfig(Parse(cmdline), m).ip = Parse(cmdline).ip
    <3>1. DOMAIN Parse(cmdline) = DOMAIN Defaults
      BY <1>1
    <3> QED
      BY <3>1, DefaultsAre DEF ApplyMachineConfig
  <2> QED
    BY <1>2, <2>1, <2>2, <2>3, <2>4
<1>3. CASE ~(Usable(d) /\ UserDoc(d).kind = "yaml")
  <2>1. AddressOf(d) = ""
    BY <1>3 DEF AddressOf
  <2>2. Load(d).ud.machine = NoMachine
    BY <1>3, DriveLoaded DEF NoUserData
  <2>3. ApplyMachineConfig(Parse(cmdline), NoMachine) = Parse(cmdline)
    BY <1>1, MachineApplied
  <2> QED
    BY <2>1, <2>2, <2>3
<1> QED
  BY <1>2, <1>3

LEMMA ChainInit == Init => Chain!Init
<1> SUFFICES ASSUME Init  PROVE Chain!Init
  OBVIOUS
<1>1. stageBar = "booting" /\ addressBar = ""
  BY StageIs DEF Init, Early
<1>2. Parse(cmdline).ip \in STRING \cup {""}
  <2>1. Parse(cmdline)["ip"] \in STRING \cup {Defaults["ip"]}
    BY CmdlinesTyped, ParseTyped, DefaultsAre DEF Init
  <2>2. Defaults["ip"] = ""
    BY DEF Defaults
  <2> QED
    BY <2>1, <2>2
<1>3. Usable(drive) = TRUE /\ AddressOf(drive) = ""
  BY NoDriveUsable DEF Init, Usable
<1>4. root = "initramfs" /\ top = [d \in MountDirs |-> "root"] /\ writes = {}
  BY DEF Init
<1> QED
  BY <1>1, <1>2, <1>3, <1>4 DEF Chain!Init

\* A step between two stages that are one to BootChain, or the end of boot.
LEMMA ChainStutters ==
    ASSUME UNCHANGED <<root, top, writes, cmdline, drive>>,
           stageBar' = stageBar, addressBar' = addressBar
    PROVE  UNCHANGED Chain!vars
BY DEF Chain!vars

LEMMA ChainFails ==
    ASSUME UNCHANGED <<root, top, writes, cmdline, drive>>,
           pc \in Early \cup {"cgroup", "metadata", "network"}, pc' = "panic"
    PROVE  Chain!Next
<1>1. stageBar \in {"booting", "told"} /\ stageBar' = "failed" /\ addressBar' = addressBar
  BY StageIs, StageNext
<1> QED
  BY <1>1 DEF Chain!Next, Chain!Fail

\* The stages before the first mount, and the two that write nothing after it.
LEMMA RootChains ==
    ASSUME \/ Mounts \/ LoadModules \/ ModuleStep \/ ModulesDone
           \/ RootDevice \/ RootMount \/ Cgroup \/ Nic
    PROVE  [Chain!Next]_(Chain!vars)
<1>1. CASE Panic /\ pc \in Early \cup {"cgroup"}
  BY <1>1, ChainFails DEF Panic, machine
<1>2. CASE (Mounts \/ Cgroup) /\ ~Panic
  <2>1. /\ UNCHANGED <<root, top, writes, cmdline, drive>>
        /\ pc \in Early \cup {"cgroup"} /\ pc' \in Early \cup {"metadata"}
    BY <1>2 DEF Mounts, Cgroup, Then, machine, Early
  <2> QED
    BY <2>1, StageIs, StageNext, ChainStutters
<1>3. CASE LoadModules \/ ModuleStep \/ ModulesDone
  <2>1. /\ UNCHANGED <<root, top, writes, cmdline, drive>>
        /\ pc \in Early /\ pc' \in Early
    BY <1>3 DEF LoadModules, ModuleStep, ModulesDone, AfterModules, machine, Early
  <2> QED
    BY <2>1, StageIs, StageNext, ChainStutters
<1>4. CASE RootDevice \/ RootMount
  <2>1. /\ UNCHANGED <<root, top, writes, cmdline, drive>>
        /\ pc \in Early /\ pc' \in Early \cup {"panic"}
    BY <1>4 DEF RootDevice, RootMount, NoRoot, LoopAttachFails, machine, Early
  <2> QED
    BY <2>1, StageIs, StageNext, ChainStutters, ChainFails
<1>5. CASE Nic
  <2>1. UNCHANGED <<pc, root, top, writes, cmdline, drive, cfg>>
    BY <1>5 DEF Nic, machine
  <2> QED
    BY <2>1, ChainStutters DEF stageBar, addressBar
<1> QED
  BY <1>1, <1>2, <1>3, <1>4, <1>5 DEF Mounts, Cgroup, Early

\* The root is left from the initramfs, bare and empty.
LEMMA SwitchRootChains ==
    ASSUME IInv, Ordered, SwitchRoot  PROVE [Chain!Next]_(Chain!vars)
<1>1. pc = "switch" /\ UNCHANGED <<top, writes, cmdline, drive>>
  BY DEF SwitchRoot, machine
<1>2. CASE pc' = "panic" /\ UNCHANGED root
  BY <1>1, <1>2, ChainFails DEF Early
<1>3. CASE pc' = "mounts" /\ root' = newRoot
  <2>1. stageBar = "booting" /\ stageBar' = "booting" /\ addressBar' = addressBar
    BY <1>1, <1>3, StageIs, StageNext DEF Early
  <2>2. /\ root = "initramfs" /\ Parse(cmdline).root # "none"
        /\ \A d \in MountDirs : top[d] = "root"
    BY <1>1 DEF Ordered, Early
  <2>3. writes = {}
    BY <1>1 DEF IInv, NoWrites, Early
  <2>4. root' \in {"rw", "ro"}
    BY <1>1, <1>3, Typed
  <2>5. Chain!SwitchRoot
    BY <1>1, <2>1, <2>2, <2>3, <2>4 DEF Chain!SwitchRoot
  <2> QED
    BY <2>5 DEF Chain!Next
<1> QED
  BY <1>2, <1>3 DEF SwitchRoot, NoRoot

LEMMA OverlayChains ==
    ASSUME IInv, Ordered, Overlay  PROVE [Chain!Next]_(Chain!vars)
<1>1. pc = "overlay" /\ pc' = "data" /\ UNCHANGED <<root, writes, cmdline, drive>>
  BY DEF Overlay, Then, machine
<1>2. PICK n \in IF root = "ro" THEN 0 .. Len(WritablePaths) ELSE {0} :
         top' = [d \in MountDirs |->
                    IF d \in ToSet(SubSeq(WritablePaths, 1, n)) THEN "overlay" ELSE top[d]]
  BY DEF Overlay
<1> DEFINE D == MountDirs \cap ToSet(SubSeq(WritablePaths, 1, n))
<1>3. top' = [d \in MountDirs |-> IF d \in D THEN "overlay" ELSE top[d]]
  BY <1>2
<1>4. stageBar = "booting" /\ stageBar' = "booting" /\ addressBar' = addressBar
  BY <1>1, StageIs, StageNext DEF Early
<1>5. writes = {} /\ writes' = {} /\ \A d \in MountDirs : top[d] = "root"
  BY <1>1 DEF IInv, NoWrites, Ordered, Early
<1>6. CASE root = "ro"
  <2>1. Chain!Writes("boot")
    BY <1>5 DEF Chain!Writes
  <2>2. Chain!Cover(D, "overlay")
    <3> HIDE DEF D
    <3>1. D \subseteq MountDirs
      BY DEF D
    <3> QED
      BY <1>1, <1>3, <1>4, <1>5, <1>6, <2>1, <3>1 DEF Chain!Cover
  <2> QED
    BY <2>2 DEF Chain!Next
<1>7. CASE root # "ro"
  <2>1. n = 0 /\ ToSet(SubSeq(WritablePaths, 1, 0)) = {}
    <3>1. SubSeq(WritablePaths, 1, 0) = << >>
      BY SubSeqProperties DEF WritablePaths
    <3> QED
      BY <1>2, <1>7, <3>1 DEF ToSet
  <2>2. top' = [d \in MountDirs |-> top[d]]
    BY <1>3, <2>1
  <2>3. top' = top
    BY <2>2 DEF IInv, TypeOK
  <2> QED
    BY <1>1, <1>4, <2>3, ChainStutters
<1> QED
  BY <1>6, <1>7

\* The data volume is mounted over an empty directory.
LEMMA DataVolumeChains ==
    ASSUME IInv, Ordered, DataVolumeStage  PROVE [Chain!Next]_(Chain!vars)
<1> DEFINE f == [dir |-> "/var", on |-> "data", by |-> "boot"]
<1>1. pc = "data" /\ pc' = "cgroup" /\ UNCHANGED <<root, cmdline, drive>>
  BY DEF DataVolumeStage, Then, machine
<1>2. stageBar = "booting" /\ stageBar' = "booting" /\ addressBar' = addressBar
  BY <1>1, StageIs, StageNext DEF Early
<1>3. writes = {} /\ top["/var"] = "root" /\ "/var" \in MountDirs
  BY <1>1 DEF IInv, NoWrites, Ordered, Early, MountDirs
<1>4. CASE top' = [top EXCEPT !["/var"] = "data"] /\ writes' = writes \cup {f}
  <2>1. top' = [d \in MountDirs |-> IF d \in {"/var"} THEN "data" ELSE top[d]]
    BY <1>4 DEF IInv, TypeOK
  <2>2. Chain!Writes("boot")
    BY <1>3, <1>4, <2>1 DEF Chain!Writes
  <2>3. Chain!Cover({"/var"}, "data")
    BY <1>1, <1>2, <1>3, <2>1, <2>2 DEF Chain!Cover
  <2> QED
    BY <1>3, <2>3 DEF Chain!Next
<1>5. CASE UNCHANGED <<top, writes>>
  BY <1>1, <1>2, <1>5, ChainStutters
<1> QED
  BY <1>4, <1>5 DEF DataVolumeStage

\* The drive is heard with its files, or not at all.
LEMMA ReadDriveChains ==
    ASSUME IInv, Told, Ordered, ReadDrive  PROVE [Chain!Next]_(Chain!vars)
<1>1. /\ pc = "metadata" /\ pc' = "network" /\ UNCHANGED <<root, top, cmdline>>
  BY DEF ReadDrive, Then, machine
<1>2. PICK content \in Drives \cup {NoDrive} :
         /\ drive' = content
         /\ \E n \in Applied(Load(content).ud.files) :
               writes' = writes \cup
                  {Made(Dir(Load(content).ud.files[i].path), "drive") :
                      i \in {k \in 1 .. n : Load(content).ud.files[k].path # ""}}
  BY DEF ReadDrive
<1> DEFINE files == Load(content).ud.files
<1>3. PICK n \in Applied(files) :
         writes' = writes \cup {Made(Dir(files[i].path), "drive") :
                                   i \in {k \in 1 .. n : files[k].path # ""}}
  BY <1>2
<1> HIDE DEF files
<1>4. \A i \in 1 .. n : files[i].path # "" => Writable(Dir(files[i].path))
  BY DEF Applied
<1>5. Heard'
  BY <1>1, ReadDriveTold DEF Told, Settled
<1>6. /\ stageBar = "booting" /\ stageBar' = "told" /\ addressBar' = addressBar
      /\ Usable(drive)' \in BOOLEAN
      /\ AddressOf(drive)' \in {""} \cup IF Usable(drive)' THEN STRING ELSE {}
  <2>1. AddressOf(content) \in {""} \cup IF Usable(content) THEN STRING ELSE {}
    BY AddressIs, <1>1 DEF Told
  <2> QED
    BY <1>1, <1>2, <2>1, StageIs, StageNext DEF Usable
<1>7. Chain!Writes("drive")
  <2> SUFFICES ASSUME NEW f \in writes' \ writes
               PROVE  /\ f.by = "drive" /\ f.dir \in MountDirs /\ f.on = top'[f.dir]
                      /\ f.on # "root" \/ root # "ro"
                      /\ Usable(drive)'
    BY <1>3 DEF Chain!Writes
  <2>1. PICK i \in 1 .. n : files[i].path # "" /\ f = Made(Dir(files[i].path), "drive")
    BY <1>3
  <2>2. f.by = "drive" /\ f.dir = Dir(files[i].path) /\ f.on = top[f.dir]
    BY <2>1 DEF Made
  <2>3. f.on # "root" \/ root # "ro"
    BY <1>4, <2>1, <2>2 DEF Writable
  <2>4. Usable(drive)'
    BY <1>5, <2>2 DEF Heard
  <2> QED
    BY <1>1, <2>2, <2>3, <2>4, DirIn
<1>8. root = "initramfs" => Parse(cmdline).root = "none"
  BY <1>1 DEF Ordered
<1>9. Chain!Tell
  BY <1>1, <1>6, <1>7, <1>8 DEF Chain!Tell
<1> QED
  BY <1>9 DEF Chain!Next

\* The network gets the address of the drive, or the command line's.
LEMMA NetworkChains ==
    ASSUME Told, Network  PROVE [Chain!Next]_(Chain!vars)
<1>1. pc = "network" /\ UNCHANGED <<root, top, writes, cmdline, drive, cfg>>
  BY DEF Network, Panic, machine
<1>2. CASE pc' = "panic"
  BY <1>1, <1>2, ChainFails
<1>3. CASE pc' = "nics"
  <2>1. stageBar = "told" /\ stageBar' = "connected" /\ addressBar' = cfg.ip
    BY <1>1, <1>3, StageIs, StageNext
  <2>2. Heard /\ cmdline \in Cmdlines
    BY <1>1 DEF Told, Settled
  <2>3. cfg.ip = IF AddressOf(drive) # "" THEN AddressOf(drive) ELSE Parse(cmdline).ip
    BY <2>2, AddressIs DEF Heard
  <2>4. Chain!Connect
    BY <1>1, <2>1, <2>3 DEF Chain!Connect
  <2> QED
    BY <2>4 DEF Chain!Next
<1> QED
  BY <1>2, <1>3 DEF Network, Panic

LEMMA ResolvChains ==
    ASSUME Resolv  PROVE [Chain!Next]_(Chain!vars)
<1>1. pc = "nics" /\ pc' = "plan" /\ UNCHANGED <<root, top, cmdline, drive, cfg>>
  BY DEF Resolv, machine
<1>2. stageBar = "connected" /\ stageBar' = "connected" /\ addressBar' = addressBar
  BY <1>1, StageIs, StageNext
<1>3. CASE Writable("/etc") /\ writes' = writes \cup {Made("/etc", "boot")}
  <2>1. Made("/etc", "boot") = [dir |-> "/etc", on |-> top["/etc"], by |-> "boot"]
    BY DEF Made
  <2>2. Chain!Writes("boot")
    BY <1>1, <1>3, <2>1 DEF Chain!Writes, Writable, MountDirs
  <2>3. Chain!Note
    BY <1>1, <1>2, <2>2 DEF Chain!Note
  <2> QED
    BY <2>3 DEF Chain!Next
<1>4. CASE UNCHANGED writes
  BY <1>1, <1>2, <1>4, ChainStutters
<1> QED
  BY <1>3, <1>4 DEF Resolv

LEMMA RunPlanChains ==
    ASSUME Told, RunPlan  PROVE [Chain!Next]_(Chain!vars)
<1> DEFINE actions == Plan(ud.runcmd).actions
<1>1. /\ pc = "plan" /\ pc' = "run" /\ UNCHANGED <<root, top, cmdline, drive, cfg>>
  BY DEF RunPlan, machine
<1>2. PICK ok \in RunActions(actions) :
         writes' = writes \cup {Made(Dir(actions[i].path), "drive") : i \in ok}
  BY DEF RunPlan
<1> HIDE DEF actions
<1>3. \A i \in ok : Writable(Dir(actions[i].path))
  BY DEF RunActions
<1>4. stageBar = "connected" /\ stageBar' = "up" /\ addressBar' = addressBar
  BY <1>1, StageIs, StageNext
<1>5. Usable(drive)' \/ \A w \in writes' : w.by # "drive"
  BY <1>1, RunPlanTold DEF Told, IdentityHonoured
<1>6. Chain!Writes("drive")
  <2> SUFFICES ASSUME NEW f \in writes' \ writes
               PROVE  /\ f.by = "drive" /\ f.dir \in MountDirs /\ f.on = top'[f.dir]
                      /\ f.on # "root" \/ root # "ro"
                      /\ Usable(drive)'
    BY <1>2 DEF Chain!Writes
  <2>1. PICK i \in ok : f = Made(Dir(actions[i].path), "drive")
    BY <1>2
  <2>2. f.by = "drive" /\ f.dir = Dir(actions[i].path) /\ f.on = top[f.dir]
    BY <2>1 DEF Made
  <2>3. f.on # "root" \/ root # "ro"
    BY <1>3, <2>1, <2>2 DEF Writable
  <2> QED
    BY <1>1, <1>5, <2>2, <2>3, DirIn
<1>7. Chain!Serve
  BY <1>1, <1>4, <1>6 DEF Chain!Serve
<1> QED
  BY <1>7 DEF Chain!Next

LEMMA ChainNext == IInv /\ Told /\ Ordered /\ [Next]_vars => [Chain!Next]_(Chain!vars)
<1>1. UNCHANGED vars \/ DiskAppears \/ KernelDevice \/ Ended =>
         UNCHANGED <<pc, root, top, writes, cmdline, drive, cfg>>
  BY DEF vars, DiskAppears, KernelDevice, Ended, machine
<1>2. UNCHANGED <<pc, root, top, writes, cmdline, drive, cfg>> => UNCHANGED Chain!vars
  BY ChainStutters DEF stageBar, addressBar
<1>3. IInv /\ Told /\ Ordered /\ BootStep => [Chain!Next]_(Chain!vars)
  BY RootChains, SwitchRootChains, OverlayChains, DataVolumeChains, ReadDriveChains,
     NetworkChains, ResolvChains, RunPlanChains DEF BootStep
<1> QED
  BY <1>1, <1>2, <1>3 DEF Next

\* Every behaviour of Boot is, seen through stageBar, one that BootChain allows: the
\* initramfs is left once, nothing is mounted over what was written, the drive is
\* heard after the last mount and before the network, and what it says counts.
THEOREM ImplementsBootChain == Spec => Chain!Init /\ [][Chain!Next]_(Chain!vars)
<1> QED
  BY ChainInit, ChainNext, InvInit, InvNext, InitTold, NextTold, InitOrdered, NextOrdered,
     PTL DEF Spec
=============================================================================
