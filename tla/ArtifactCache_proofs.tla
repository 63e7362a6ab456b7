------------------------ MODULE ArtifactCache_proofs ------------------------
(***************************************************************************)
(* Proofs about ArtifactCache for every set of resolvers and every number  *)
(* of releases. Two resolvers share the files of a release without a lock; *)
(* the argument is that a good file is only ever renamed over by a good    *)
(* one, and only removed by a resolver that was given a bad one.           *)
(***************************************************************************)
EXTENDS ArtifactCache, TLAPS

\* What a resolver knows of the files of its release, unless a bad body was
\* written to them.
Knows(r) ==
    /\ at[r].pc \notin {"none", "fetch", "fallback"} => at[r].tag \in Tags
    /\ at[r].pc \in {"sumput", "imgput"} => at[r].body \in {"good", "bad"}
    /\ at[r].pc = "sumrm" => "sum" \in spoilt[at[r].tag]
    /\ at[r].pc = "imgrm" => "img" \in spoilt[at[r].tag]
    /\ /\ at[r].pc \in {"read", "check", "imgget", "imgput", "verify", "imgrm",
                        "relatest", "latest"}
       /\ "sum" \notin spoilt[at[r].tag]
       => sum[at[r].tag] = "good"
    /\ /\ at[r].pc \in {"verify", "relatest", "latest", "done"}
       /\ "img" \notin spoilt[at[r].tag]
       => img[at[r].tag] = "good"

\* A checksum file that is bad is known to be.
BadKnown == \A t \in Tags : sum[t] = "bad" => "sum" \in spoilt[t]

IInv ==
    /\ TypeOK
    /\ BadKnown
    /\ \A r \in Resolvers : Knows(r)
    /\ LatestBacked

\* The type of a resolver, field by field.
LEMMA StateExcept ==
    ASSUME NEW s \in State, NEW pc \in PC, NEW rel \in Tags \cup {0},
           NEW t \in Tags \cup {0}, NEW b \in {"none", "bad", "good"},
           NEW again \in BOOLEAN, NEW clean \in BOOLEAN
    PROVE  /\ [s EXCEPT !.pc = pc] \in State
           /\ [s EXCEPT !.rel = rel] \in State
           /\ [s EXCEPT !.tag = t] \in State
           /\ [s EXCEPT !.body = b] \in State
           /\ [s EXCEPT !.again = again] \in State
           /\ [s EXCEPT !.clean = clean] \in State
  BY DEF State

LEMMA NotRunningType ==
    ASSUME NEW pc \in PC, NEW t \in Tags \cup {0}
    PROVE  NotRunning(pc, t) \in State
  BY DEF NotRunning, State

LEMMA PcType ==
    {"none", "done", "fetch", "fallback", "sum", "sumget", "sumput", "read", "sumrm", "check",
     "imgget", "imgput", "verify", "imgrm", "relatest", "latest"} \subseteq PC
  BY DEF PC, Ended

\* What a resolver may become, for each way the actions write it.
LEMMA AtType ==
    ASSUME at \in [Resolvers -> State], NEW r \in Resolvers,
           \/ \E pc \in PC : Goto(r, pc)
           \/ at[r].tag \in Tags /\ Return(r)
           \/ Fault(r)
           \/ Fail(r)
           \/ \E s \in State : at' = [at EXCEPT ![r] = s]
    PROVE  at' \in [Resolvers -> State]
<1>1. at[r] \in State
  OBVIOUS
<1>2. CASE \E pc \in PC : Goto(r, pc)
  BY <1>1, <1>2 DEF Goto, State
<1>3. CASE at[r].tag \in Tags /\ Return(r)
  BY <1>1, <1>3, NotRunningType, PcType DEF Return, Tag
<1>4. CASE Fault(r)
  BY <1>4, NotRunningType, PcType DEF Fault
<1>5. CASE Fail(r)
  <2>1. at[r].clean \in BOOLEAN
    BY <1>1 DEF State
  <2>2. [NotRunning("none", 0) EXCEPT !.clean = at[r].clean] \in State
    BY <2>1, NotRunningType, PcType, StateExcept
  <2> QED BY <1>5, <2>2 DEF Fail
<1>6. CASE \E s \in State : at' = [at EXCEPT ![r] = s]
  BY <1>6
<1> QED BY <1>2, <1>3, <1>4, <1>5, <1>6

\* Types, one step at a time.
LEMMA TypeStep ==
    ASSUME IInv, [Next]_vars
    PROVE  TypeOK'
<1>0. TypeOK /\ (\A r \in Resolvers : Knows(r))
  BY DEF IInv
<1>a. at \in [Resolvers -> State]
  BY <1>0 DEF TypeOK
<1>1. ASSUME NEW r \in Resolvers, NEW rel \in 0 .. newest, Resolve(r, rel)
      PROVE  TypeOK'
  <2> DEFINE alone == \A q \in Resolvers \ {r} : at[q].pc \in Ended
  <2>1. rel \in Tags \cup {0} /\ alone \in BOOLEAN
    BY <1>0, TagAssumption DEF TypeOK, Tags
  <2>2. [pc |-> "fetch", rel |-> rel, tag |-> 0, body |-> "none",
         again |-> FALSE, clean |-> alone] \in State
    <3> HIDE DEF alone
    <3> QED BY <2>1, PcType DEF State
  <2>3. ASSUME NEW q \in Resolvers
        PROVE  [at[q] EXCEPT !.clean = @ /\ at[q].pc \in Ended] \in State
    BY <1>a DEF State
  <2>4. at' \in [Resolvers -> State]
    BY <1>1, <2>2, <2>3 DEF Resolve
  <2> QED BY <1>0, <1>1, <2>4, TagAssumption DEF Resolve, files, TypeOK
<1>2. ASSUME NEW r \in Resolvers, Step(r)
      PROVE  TypeOK'
  <2>0. at[r] \in State
    BY <1>a
  <2>1. CASE FetchRelease(r)
    <3>1. Release(at[r].rel) \in Tags
      BY <1>0, <2>0 DEF Release, TypeOK, State
    <3>2. at' \in [Resolvers -> State]
      <4>1. CASE at' = [at EXCEPT ![r].pc = "sum", ![r].tag = Release(at[r].rel)]
        BY <4>1, <1>a, <2>0, <3>1, PcType DEF State
      <4>2. CASE at' = [at EXCEPT ![r].pc = "fallback", ![r].clean = FALSE]
        BY <4>2, <1>a, <2>0, PcType DEF State
      <4> QED BY <1>a, <2>1, <4>1, <4>2, AtType DEF FetchRelease
    <3> QED BY <1>0, <2>1, <3>2 DEF FetchRelease, files, TypeOK
  <2>2. CASE CachedFallback(r)
    <3> DEFINE t == IF at[r].rel = 0 THEN latest ELSE at[r].rel
    <3>1. t \in Tags \cup {0}
      BY <1>0, <2>0 DEF TypeOK, State
    <3>2. NotRunning("done", t) \in State
      BY <3>1, NotRunningType, PcType
    <3>3. at' = [at EXCEPT ![r] = NotRunning("done", t)] \/ Fail(r)
      BY <2>2 DEF CachedFallback
    <3>4. at' \in [Resolvers -> State]
      <4> HIDE DEF t
      <4> QED BY <1>a, <3>2, <3>3, AtType
    <3> QED BY <1>0, <2>2, <3>4 DEF CachedFallback, files, TypeOK
  <2>3. CASE EnsureChecksum(r)
    <3>1. at' \in [Resolvers -> State]
      BY <1>a, <2>3, AtType, PcType DEF EnsureChecksum
    <3> QED BY <1>0, <2>3, <3>1 DEF EnsureChecksum, files, TypeOK
  <2>4. CASE Download(r)
    <3>1. ASSUME NEW b \in {"good", "bad"},
                 at' = [at EXCEPT ![r].pc = IF @ = "sumget" THEN "sumput" ELSE "imgput",
                                  ![r].body = b, ![r].clean = @ /\ b = "good"]
          PROVE  at' \in [Resolvers -> State]
      BY <1>a, <2>0, <3>1, PcType DEF State
    <3>2. at' \in [Resolvers -> State]
      BY <1>a, <2>4, <3>1, AtType DEF Download
    <3> QED BY <1>0, <2>4, <3>2 DEF Download, Body, TypeOK
  <2>5. CASE Rename(r)
    <3>1. at[r].tag \in Tags /\ at[r].body \in {"none", "bad", "good"}
      BY <1>0, <2>0, <2>5 DEF Rename, Knows, State
    <3>2. at' \in [Resolvers -> State]
      BY <1>a, <2>0, <2>5, PcType DEF Rename, State
    <3> QED BY <1>0, <2>5, <3>1, <3>2 DEF Rename, Tag, TypeOK
  <2>6. CASE ReadChecksum(r)
    <3>1. CASE at' = [at EXCEPT ![r].pc = "check", ![r].again = FALSE]
      <4>1. at' \in [Resolvers -> State]
        BY <1>a, <2>0, <3>1, PcType DEF State
      <4> QED BY <1>0, <2>6, <4>1 DEF ReadChecksum, files, TypeOK
    <3>2. CASE Fail(r) \/ Goto(r, "sumrm")
      <4>1. at' \in [Resolvers -> State]
        BY <1>a, <3>2, AtType, PcType
      <4> QED BY <1>0, <2>6, <4>1 DEF ReadChecksum, files, TypeOK
    <3> QED BY <2>6, <3>1, <3>2 DEF ReadChecksum
  <2>7. CASE RemoveChecksum(r)
    <3>1. at' \in [Resolvers -> State]
      BY <1>a, <2>0, <2>7, PcType DEF RemoveChecksum, State
    <3> QED BY <1>0, <2>7, <3>1 DEF RemoveChecksum, TypeOK
  <2>8. CASE CheckImage(r)
    <3>1. at[r].tag \in Tags
      BY <1>0, <2>8 DEF CheckImage, Knows
    <3>2. at' \in [Resolvers -> State]
      BY <1>a, <2>8, <3>1, AtType, PcType DEF CheckImage
    <3> QED BY <1>0, <2>8, <3>2 DEF CheckImage, files, TypeOK
  <2>9. CASE VerifyImage(r)
    <3>1. at[r].tag \in Tags
      BY <1>0, <2>9 DEF VerifyImage, Knows
    <3>2. at' \in [Resolvers -> State]
      BY <1>a, <2>9, <3>1, AtType, PcType DEF VerifyImage
    <3> QED BY <1>0, <2>9, <3>2 DEF VerifyImage, files, TypeOK
  <2>10. CASE RemoveImage(r)
    <3>1. at' \in [Resolvers -> State]
      BY <1>a, <2>10, AtType DEF RemoveImage
    <3> QED BY <1>0, <2>10, <3>1 DEF RemoveImage, TypeOK
  <2>11. CASE WriteLatest(r)
    <3>1. at[r].tag \in Tags
      BY <1>0, <2>11 DEF WriteLatest, Knows
    <3>2. at' \in [Resolvers -> State]
      BY <1>a, <2>11, <3>1, AtType DEF WriteLatest
    <3> QED BY <1>0, <2>11, <3>1, <3>2 DEF WriteLatest, Tag, TypeOK
  <2> QED BY <1>2, <2>1, <2>2, <2>3, <2>4, <2>5, <2>6, <2>7, <2>8, <2>9, <2>10, <2>11
          DEF Step
<1>3. ASSUME NEW r \in Resolvers, Killed(r)
      PROVE  TypeOK'
  <2>1. at' \in [Resolvers -> State]
    BY <1>a, <1>3, AtType DEF Killed, Fault
  <2> QED BY <1>0, <1>3, <2>1 DEF Killed, files, TypeOK
<1>4. CASE Publish
  BY <1>0, <1>4, TagAssumption DEF Publish, files, TypeOK, Tags
<1>5. CASE UNCHANGED vars
  BY <1>0, <1>5 DEF vars, TypeOK
<1> QED BY <1>1, <1>2, <1>3, <1>4, <1>5 DEF Next

\* A resolver that takes no step keeps all but its mark of being alone.
Same(q) == /\ at'[q].pc = at[q].pc /\ at'[q].tag = at[q].tag /\ at'[q].body = at[q].body

\* What a step may do to the files of a release: marks are never taken back, and
\* without a mark a good file stays good.
Grows(t) ==
    /\ spoilt[t] \subseteq spoilt'[t]
    /\ "sum" \notin spoilt'[t] /\ sum[t] = "good" => sum'[t] = "good"
    /\ "img" \notin spoilt'[t] /\ img[t] = "good" => img'[t] = "good"
    /\ sum'[t] = "bad" /\ sum[t] # "bad" => "sum" \in spoilt'[t]

LEMMA StepGrows ==
    ASSUME IInv, [Next]_vars, NEW t \in Tags
    PROVE  Grows(t)
<1>0. TypeOK /\ (\A r \in Resolvers : Knows(r))
  BY DEF IInv
<1>1. CASE UNCHANGED <<sum, img, spoilt>>
  BY <1>1 DEF Grows
<1>2. ASSUME NEW r \in Resolvers, Step(r)
      PROVE  Grows(t)
  <2>1. CASE Rename(r)
    <3>1. at[r].tag \in Tags /\ at[r].body \in {"good", "bad"}
      BY <1>0, <2>1 DEF Rename, Knows
    <3> QED BY <1>0, <2>1, <3>1 DEF Rename, Tag, TypeOK, Grows
  <2>2. CASE RemoveChecksum(r)
    <3>1. at[r].tag \in Tags /\ "sum" \in spoilt[at[r].tag]
      BY <1>0, <2>2 DEF RemoveChecksum, Knows
    <3> QED BY <1>0, <2>2, <3>1 DEF RemoveChecksum, Tag, TypeOK, Grows
  <2>3. CASE RemoveImage(r)
    <3>1. at[r].tag \in Tags /\ "img" \in spoilt[at[r].tag]
      BY <1>0, <2>3 DEF RemoveImage, Knows
    <3> QED BY <1>0, <2>3, <3>1 DEF RemoveImage, Tag, TypeOK, Grows
  <2>4. ASSUME ~Rename(r), ~RemoveChecksum(r), ~RemoveImage(r)
        PROVE  UNCHANGED <<sum, img, spoilt>>
    BY <1>2, <2>4 DEF Step, FetchRelease, CachedFallback, EnsureChecksum, Download, Body,
       ReadChecksum, CheckImage, VerifyImage, WriteLatest, files
  <2> QED BY <1>1, <2>1, <2>2, <2>3, <2>4
<1>3. ASSUME NEW r \in Resolvers, NEW rel \in 0 .. newest, Resolve(r, rel)
      PROVE  Grows(t)
  BY <1>1, <1>3 DEF Resolve, files
<1>4. ASSUME NEW r \in Resolvers, Killed(r)
      PROVE  Grows(t)
  BY <1>1, <1>4 DEF Killed, files
<1>5. CASE Publish
  BY <1>1, <1>5 DEF Publish, files
<1>6. CASE UNCHANGED vars
  BY <1>1, <1>6 DEF vars
<1> QED BY <1>2, <1>3, <1>4, <1>5, <1>6 DEF Next

\* A resolver that takes no step knows what it knew.
LEMMA SameKnows ==
    ASSUME IInv, \A t \in Tags : Grows(t), NEW q \in Resolvers, Same(q)
    PROVE  Knows(q)'
<1>1. Knows(q)
  BY DEF IInv
<1>2. at[q].tag \in Tags => Grows(at[q].tag)
  OBVIOUS
<1> QED BY <1>1, <1>2 DEF Knows, Same, Grows

\* One that takes a step knows what that step needs.
LEMMA StepKnows ==
    ASSUME IInv, TypeOK', \A t \in Tags : Grows(t), NEW r \in Resolvers, Step(r)
    PROVE  Knows(r)'
<1>0. TypeOK /\ Knows(r) /\ BadKnown
  BY DEF IInv
<1>a. at \in [Resolvers -> State] /\ at[r] \in State
  BY <1>0 DEF TypeOK
<1>b. at[r].tag \in Tags => Grows(at[r].tag)
  OBVIOUS
<1>1. CASE at'[r].pc = "none"
  BY <1>1 DEF Knows
<1>2. CASE Fault(r) \/ Fail(r)
  BY <1>1, <1>2, <1>a DEF Fault, Fail, NotRunning
<1>3. CASE FetchRelease(r)
  <2>1. Release(at[r].rel) \in Tags
    BY <1>0, <1>a DEF Release, TypeOK, State
  <2> QED BY <1>2, <1>3, <1>a, <2>1 DEF FetchRelease, Knows, State
<1>4. CASE CachedFallback(r)
  <2> DEFINE t == IF at[r].rel = 0 THEN latest ELSE at[r].rel
  <2>1. CASE at' = [at EXCEPT ![r] = NotRunning("done", t)]
              /\ t # 0 /\ sum[t] = "good" /\ img[t] = "good"
    <3>1. t \in Tags
      BY <2>1, <1>0, <1>a DEF TypeOK, State
    <3>2. at'[r].pc = "done" /\ at'[r].tag = t /\ img' = img
      BY <2>1, <1>a, <1>4 DEF NotRunning, CachedFallback, files
    <3> HIDE DEF t
    <3> QED BY <2>1, <3>1, <3>2 DEF Knows
  <2>2. CASE Fail(r)
    BY <1>2, <2>2
  <2> QED BY <1>4, <2>1, <2>2 DEF CachedFallback
<1>5. CASE EnsureChecksum(r)
  BY <1>0, <1>5, <1>a DEF EnsureChecksum, Goto, Tag, Knows, BadKnown, files, State, TypeOK
<1>6. CASE Download(r)
  BY <1>0, <1>2, <1>6, <1>a, <1>b DEF Download, Knows, State, Grows
<1>7. CASE Rename(r)
  BY <1>0, <1>7, <1>a DEF Rename, Tag, Knows, State, TypeOK
<1>8. CASE ReadChecksum(r)
  BY <1>0, <1>2, <1>8, <1>a DEF ReadChecksum, Goto, Tag, Knows, files, State
<1>9. CASE RemoveChecksum(r)
  BY <1>0, <1>9, <1>a DEF RemoveChecksum, Knows, State
<1>10. CASE CheckImage(r)
  BY <1>0, <1>10, <1>a DEF CheckImage, Goto, Return, NotRunning, Tag, Knows, files, State
<1>11. CASE VerifyImage(r)
  BY <1>0, <1>2, <1>11, <1>a DEF VerifyImage, Goto, Return, NotRunning, Tag, Knows, files, State, TypeOK
<1>12. CASE RemoveImage(r)
  BY <1>2, <1>12 DEF RemoveImage
<1>13. CASE WriteLatest(r)
  BY <1>0, <1>2, <1>13, <1>a DEF WriteLatest, Return, NotRunning, Tag, Knows, State
<1> QED BY <1>3, <1>4, <1>5, <1>6, <1>7, <1>8, <1>9, <1>10, <1>11, <1>12, <1>13 DEF Step

\* A step of r leaves the other resolvers alone.
LEMMA StepOthers ==
    ASSUME TypeOK, NEW r \in Resolvers, Step(r), NEW q \in Resolvers, q # r
    PROVE  at'[q] = at[q]
<1>1. at \in [Resolvers -> State]
  BY DEF TypeOK
<1> QED
  BY <1>1 DEF Step, FetchRelease, CachedFallback, EnsureChecksum, Download, Rename, ReadChecksum,
     RemoveChecksum, CheckImage, VerifyImage, RemoveImage, WriteLatest, Goto, Return, Fault, Fail

LEMMA KnowsStep ==
    ASSUME IInv, [Next]_vars
    PROVE  \A q \in Resolvers : Knows(q)'
<1>1. TypeOK' /\ (\A t \in Tags : Grows(t))
  BY TypeStep, StepGrows
<1>2. TypeOK /\ at \in [Resolvers -> State]
  BY DEF IInv, TypeOK
<1> SUFFICES ASSUME NEW q \in Resolvers PROVE Knows(q)'
  OBVIOUS
<1>3. CASE Same(q)
  BY <1>1, <1>3, SameKnows
<1>4. ASSUME NEW r \in Resolvers, Step(r) PROVE Knows(q)'
  <2>1. CASE q = r
    BY <1>1, <1>4, <2>1, StepKnows
  <2>2. CASE q # r
    BY <1>2, <1>3, <1>4, <2>2, StepOthers DEF Same
  <2> QED BY <2>1, <2>2
<1>5. ASSUME NEW r \in Resolvers, NEW rel \in 0 .. newest, Resolve(r, rel) PROVE Knows(q)'
  <2>1. CASE q = r
    <3>1. at'[q].pc = "fetch"
      BY <1>5, <2>1 DEF Resolve
    <3> QED BY <3>1 DEF Knows
  <2>2. CASE q # r
    <3>1. at'[q] = [at[q] EXCEPT !.clean = @ /\ at[q].pc \in Ended]
      BY <1>5, <2>2 DEF Resolve
    <3>2. Same(q)
      BY <3>1, <1>2 DEF Same, State
    <3> QED BY <1>3, <3>2
  <2> QED BY <2>1, <2>2
<1>6. ASSUME NEW r \in Resolvers, Killed(r) PROVE Knows(q)'
  <2>1. CASE q = r
    <3>1. at'[q].pc = "none"
      BY <1>2, <1>6, <2>1 DEF Killed, NotRunning
    <3> QED BY <3>1 DEF Knows
  <2>2. CASE q # r
    BY <1>2, <1>3, <1>6, <2>2 DEF Killed, Same
  <2> QED BY <2>1, <2>2
<1>7. CASE Publish
  BY <1>3, <1>7 DEF Publish, Same
<1>8. CASE UNCHANGED vars
  BY <1>3, <1>8 DEF vars, Same
<1> QED BY <1>4, <1>5, <1>6, <1>7, <1>8 DEF Next

\* `latest` changes only to the release of a resolver that verified its files.
LEMMA LatestStep ==
    ASSUME IInv, [Next]_vars
    PROVE  LatestBacked'
<1>1. TypeOK /\ LatestBacked /\ (\A r \in Resolvers : Knows(r))
  BY DEF IInv
<1>2. \A t \in Tags : Grows(t)
  BY StepGrows
<1>3. CASE latest' = latest
  <2>1. latest # 0 => latest \in Tags
    BY <1>1 DEF TypeOK
  <2> QED BY <1>1, <1>2, <1>3, <2>1 DEF LatestBacked, Grows
<1>4. ASSUME NEW r \in Resolvers, WriteLatest(r), latest' = Tag(r)
      PROVE  LatestBacked'
  <2>1. Knows(r) /\ at[r].pc \in {"relatest", "latest"}
    BY <1>1, <1>4 DEF WriteLatest
  <2> QED BY <1>4, <2>1 DEF WriteLatest, LatestBacked, Knows, Tag
<1>5. ASSUME NEW r \in Resolvers, Step(r)
      PROVE  latest' = latest \/ (WriteLatest(r) /\ latest' = Tag(r))
  BY <1>5 DEF Step, FetchRelease, CachedFallback, EnsureChecksum, Download, Rename, ReadChecksum,
     RemoveChecksum, CheckImage, VerifyImage, RemoveImage, WriteLatest, files
<1>6. ASSUME NEW r \in Resolvers, NEW rel \in 0 .. newest, Resolve(r, rel)
      PROVE  latest' = latest
  BY <1>6 DEF Resolve, files
<1> QED BY <1>3, <1>4, <1>5, <1>6 DEF Next, Killed, Publish, vars, files

THEOREM Invariance == Spec => []IInv
<1>1. Init => IInv
  <2> SUFFICES ASSUME Init PROVE IInv
    OBVIOUS
  <2>1. at \in [Resolvers -> State] /\ (\A r \in Resolvers : at[r].pc = "none")
    BY NotRunningType, PcType DEF Init, NotRunning
  <2>2. TypeOK
    BY <2>1, TagAssumption DEF Init, TypeOK, Tags
  <2>3. BadKnown /\ LatestBacked
    BY DEF Init, BadKnown, LatestBacked
  <2>4. \A r \in Resolvers : Knows(r)
    BY <2>1 DEF Knows
  <2> QED BY <2>2, <2>3, <2>4 DEF IInv
<1>2. IInv /\ [Next]_vars => IInv'
  <2> SUFFICES ASSUME IInv, [Next]_vars PROVE IInv'
    OBVIOUS
  <2>1. BadKnown'
    <3>1. \A t \in Tags : Grows(t)
      BY StepGrows
    <3> QED BY <3>1 DEF IInv, BadKnown, Grows
  <2> QED BY <2>1, TypeStep, KnowsStep, LatestStep DEF IInv
<1> QED BY <1>1, <1>2, PTL DEF Spec

\* The types of the cache and of the resolvers.
THEOREM TypeCorrect == Spec => []TypeOK
<1>1. IInv => TypeOK
  BY DEF IInv
<1> QED BY <1>1, Invariance, PTL

\* An image that was returned stays whole, for any number of resolvers.
THEOREM ReturnedStaysGood == Spec => []ReturnedGood
<1>1. IInv => ReturnedGood
  BY DEF IInv, Knows, ReturnedGood, Tag
<1> QED BY <1>1, Invariance, PTL

\* The release `latest` names can be served without GitHub.
THEOREM LatestServed == Spec => []LatestBacked
<1>1. IInv => LatestBacked
  BY DEF IInv
<1> QED BY <1>1, Invariance, PTL

-----------------------------------------------------------------------------
(* Healing. An attempt that is clean is the only one that runs, so that the *)
(* files it wrote are as it wrote them.                                     *)

Whole(r) ==
    /\ at[r].pc \notin {"none", "done", "fallback", "imgrm"}
    /\ at[r].pc \in {"fetch", "sum"} => at[r].again = FALSE
    /\ at[r].pc \in {"sumput", "imgput"} => at[r].body = "good"
    /\ at[r].pc = "read" /\ at[r].again => sum[at[r].tag] = "good"
    /\ at[r].pc = "verify" => img[at[r].tag] = "good"

Calm(r) ==
    at[r].clean => Whole(r) /\ \A q \in Resolvers : q # r => at[q].pc \in {"none", "done"}

\* A step of a clean attempt that stays clean.
LEMMA WholeStep ==
    ASSUME IInv, NEW r \in Resolvers, Whole(r), Step(r), at'[r].clean = TRUE
    PROVE  Whole(r)'
<1>0. TypeOK /\ Knows(r) /\ at \in [Resolvers -> State] /\ at[r] \in State
  BY DEF IInv, TypeOK
<1>1. ~Fault(r) /\ ~Return(r)
  BY <1>0 DEF Fault, Return, NotRunning
<1>2. CASE FetchRelease(r)
  BY <1>0, <1>1, <1>2 DEF FetchRelease, Whole, State
<1>3. CASE CachedFallback(r)
  BY <1>3 DEF CachedFallback, Whole
<1>4. CASE EnsureChecksum(r)
  BY <1>0, <1>4 DEF EnsureChecksum, Goto, Whole, State
<1>5. CASE Download(r)
  BY <1>0, <1>1, <1>5 DEF Download, Whole, State
<1>6. CASE Rename(r)
  BY <1>0, <1>6 DEF Rename, Tag, Whole, Knows, State, TypeOK
<1>7. CASE ReadChecksum(r)
  BY <1>0, <1>7 DEF ReadChecksum, Goto, Tag, Whole, State
<1>8. CASE RemoveChecksum(r)
  BY <1>0, <1>8 DEF RemoveChecksum, Whole, State
<1>9. CASE CheckImage(r)
  BY <1>0, <1>1, <1>9 DEF CheckImage, Goto, Whole, State
<1>10. CASE VerifyImage(r)
  BY <1>0, <1>1, <1>10 DEF VerifyImage, Goto, Tag, Whole, State
<1>11. CASE RemoveImage(r)
  BY <1>11 DEF RemoveImage, Whole
<1>12. CASE WriteLatest(r)
  BY <1>1, <1>12 DEF WriteLatest
<1> QED BY <1>2, <1>3, <1>4, <1>5, <1>6, <1>7, <1>8, <1>9, <1>10, <1>11, <1>12 DEF Step

\* An attempt does not become clean while it runs.
LEMMA CleanStep ==
    ASSUME TypeOK, NEW r \in Resolvers, Step(r), at'[r].clean = TRUE
    PROVE  at[r].clean = TRUE
<1>0. at \in [Resolvers -> State] /\ at[r] \in State
  BY DEF TypeOK
<1>1. ASSUME NEW pc \in PC, Goto(r, pc) PROVE at[r].clean = TRUE
  BY <1>0, <1>1 DEF Goto, State
<1>2. CASE Fail(r)
  BY <1>0, <1>2 DEF Fail, NotRunning, State
<1>3. ~Fault(r) /\ ~Return(r)
  BY <1>0 DEF Fault, Return, NotRunning
<1>4. ASSUME NEW t, at' = [at EXCEPT ![r] = NotRunning("done", t)] PROVE FALSE
  BY <1>0, <1>4 DEF NotRunning
<1>5. CASE FetchRelease(r)
  BY <1>0, <1>3, <1>5 DEF FetchRelease, State
<1>6. CASE CachedFallback(r)
  BY <1>2, <1>4, <1>6 DEF CachedFallback
<1>7. CASE Download(r)
  BY <1>0, <1>3, <1>7 DEF Download, State
<1>8. CASE Rename(r) \/ RemoveChecksum(r)
  BY <1>0, <1>8 DEF Rename, RemoveChecksum, State
<1>9. CASE ReadChecksum(r)
  <2>1. CASE at' = [at EXCEPT ![r].pc = "check", ![r].again = FALSE]
    BY <1>0, <2>1 DEF State
  <2> QED BY <1>1, <1>2, <1>9, <2>1, PcType DEF ReadChecksum
<1>10. CASE EnsureChecksum(r)
  BY <1>1, <1>10, PcType DEF EnsureChecksum
<1>11. CASE CheckImage(r) \/ VerifyImage(r)
  BY <1>1, <1>2, <1>3, <1>11, PcType DEF CheckImage, VerifyImage
<1>12. CASE RemoveImage(r) \/ WriteLatest(r)
  BY <1>2, <1>3, <1>12 DEF RemoveImage, WriteLatest
<1> QED BY <1>5, <1>6, <1>7, <1>8, <1>9, <1>10, <1>11, <1>12 DEF Step

\* Only a resolver that is not at rest takes a step.
LEMMA StepRuns ==
    ASSUME NEW r \in Resolvers, Step(r)
    PROVE  at[r].pc \notin {"none", "done"}
  BY DEF Step, FetchRelease, CachedFallback, EnsureChecksum, Download, Rename, ReadChecksum,
     RemoveChecksum, CheckImage, VerifyImage, RemoveImage, WriteLatest

LEMMA CalmStep ==
    ASSUME IInv, \A r \in Resolvers : Calm(r), [Next]_vars
    PROVE  \A q \in Resolvers : Calm(q)'
<1>0. TypeOK /\ at \in [Resolvers -> State] /\ (\A q \in Resolvers : at[q] \in State)
  BY DEF IInv, TypeOK
<1> SUFFICES ASSUME NEW q \in Resolvers, at'[q].clean = TRUE
             PROVE  Whole(q)' /\ \A p \in Resolvers : p # q => at'[p].pc \in {"none", "done"}
  BY TypeStep DEF Calm, TypeOK, State
<1>1. ASSUME NEW r \in Resolvers, Step(r)
      PROVE  Whole(q)' /\ \A p \in Resolvers : p # q => at'[p].pc \in {"none", "done"}
  <2>1. at[q].clean = TRUE
    BY <1>0, <1>1, CleanStep, StepOthers
  <2>2. Whole(q) /\ \A p \in Resolvers : p # q => at[p].pc \in {"none", "done"}
    BY <2>1 DEF Calm
  <2>3. r = q
    BY <1>1, <2>2, StepRuns
  <2> QED BY <1>0, <1>1, <2>2, <2>3, WholeStep, StepOthers
<1>2. ASSUME NEW r \in Resolvers, NEW rel \in 0 .. newest, Resolve(r, rel)
      PROVE  Whole(q)' /\ \A p \in Resolvers : p # q => at'[p].pc \in {"none", "done"}
  <2>1. CASE q = r
    <3>1. at'[q].pc = "fetch" /\ at'[q].again = FALSE
      BY <1>2, <2>1 DEF Resolve
    <3>2. \A p \in Resolvers \ {q} : at[p].pc \in Ended
      BY <1>2, <2>1 DEF Resolve
    <3>3. ASSUME NEW p \in Resolvers, p # q PROVE at'[p].pc = at[p].pc
      <4>1. at'[p] = [at[p] EXCEPT !.clean = @ /\ at[p].pc \in Ended]
        BY <1>2, <2>1, <3>3 DEF Resolve
      <4> QED BY <1>0, <4>1 DEF State
    <3> QED BY <3>1, <3>2, <3>3 DEF Whole, Ended
  <2>2. CASE q # r
    <3>1. at'[q] = [at[q] EXCEPT !.clean = @ /\ at[q].pc \in Ended]
      BY <1>2, <2>2 DEF Resolve
    <3>2. at[q].clean /\ at[q].pc \in Ended
      BY <1>0, <3>1 DEF State
    <3> QED BY <3>2 DEF Calm, Whole, Ended
  <2> QED BY <2>1, <2>2
<1>3. ASSUME NEW r \in Resolvers, Killed(r)
      PROVE  Whole(q)' /\ \A p \in Resolvers : p # q => at'[p].pc \in {"none", "done"}
  <2>1. q # r
    BY <1>0, <1>3 DEF Killed, NotRunning
  <2>2. at'[q] = at[q] /\ at[r].pc \notin {"none", "done"}
    BY <1>0, <1>3, <2>1 DEF Killed, Ended
  <2> QED BY <2>1, <2>2 DEF Calm
<1>4. CASE UNCHANGED <<at, sum, img>>
  BY <1>4 DEF Calm, Whole
<1> QED BY <1>1, <1>2, <1>3, <1>4 DEF Next, Publish, vars, files

\* A resolver that met no fault and was alone did not fail.
THEOREM Healing == Spec => []CacheHeals
<1>1. Init => \A r \in Resolvers : Calm(r)
  BY DEF Init, NotRunning, Calm
<1>2. IInv /\ (\A r \in Resolvers : Calm(r)) /\ [Next]_vars
      => (\A r \in Resolvers : Calm(r))'
  BY CalmStep
<1>3. (\A r \in Resolvers : Calm(r)) => CacheHeals
  BY DEF Calm, Whole, CacheHeals
<1> QED BY <1>1, <1>2, <1>3, Invariance, PTL DEF Spec
=============================================================================
