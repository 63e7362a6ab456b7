---------------------------- MODULE ArtifactCache ----------------------------
(***************************************************************************)
(* The cache of release artifacts of cmd/k0smosctl/artifact.go. Processes  *)
(* resolve a release to a verified image in one directory that nothing     *)
(* locks: each may be killed between any two steps, GitHub may be away,    *)
(* publish a new release in between or serve a body that is not the asset, *)
(* and the directory may hold truncated files from before.                 *)
(***************************************************************************)
EXTENDS Naturals, FiniteSets

CONSTANTS
    Resolvers,  \* the k0smosctl processes
    MaxTag,     \* bound: releases are numbered 1 .. MaxTag as they are published
    MaxRuns     \* bound: times a resolver is started

ASSUME TagAssumption == MaxTag \in Nat \ {0} /\ MaxRuns \in Nat

Tags == 1 .. MaxTag

VARIABLES
    at,         \* at[r]: where resolver r is and what it remembers
    sum,        \* sum[t]: the checksum file of t: "none", "bad" or "good"
    img,        \* img[t]: the image of t: "none", "bad" or "good"
    latest,     \* the tag the file `latest` names, 0 if there is none
    newest,     \* the release GitHub calls the latest
    runs,       \* how many times a resolver was started
    spoilt      \* spoilt[t]: the files of t that a bad body was written to; for
                \* a checksum, also one that was bad when the model began

vars == <<at, sum, img, latest, newest, runs, spoilt>>
files == <<sum, img, latest>>

\* rel: the release asked for, 0 for "latest"; tag: the release it got; body:
\* what was downloaded; again: the checksum was replaced; clean: no other
\* resolver and no failure of the network, GitHub or the disk met this attempt.
NotRunning(pc, t) == [pc |-> pc, rel |-> 0, tag |-> t, body |-> "none",
                      again |-> FALSE, clean |-> FALSE]

\* A process that is not running gave an image or, if it ever ran, none.
Ended == {"done", "none"}

PC == Ended \cup {"fetch", "fallback", "sum", "sumget", "sumput", "read", "sumrm", "check",
                  "imgget", "imgput", "verify", "imgrm", "relatest", "latest"}

State == [pc : PC, rel : Tags \cup {0}, tag : Tags \cup {0}, body : {"none", "bad", "good"},
          again : BOOLEAN, clean : BOOLEAN]

TypeOK ==
    /\ at \in [Resolvers -> State]
    /\ sum \in [Tags -> {"none", "bad", "good"}]
    /\ img \in [Tags -> {"none", "bad", "good"}]
    /\ latest \in Tags \cup {0}
    /\ newest \in Tags
    /\ runs \in 0 .. MaxRuns
    /\ spoilt \in [Tags -> SUBSET {"sum", "img"}]

\* There is one release, whose image or checksum may be truncated from before.
Init ==
    /\ at = [r \in Resolvers |-> NotRunning("none", 0)]
    /\ \E s, i \in {"none", "bad", "good"} :
          /\ sum = [t \in Tags |-> IF t = 1 THEN s ELSE "none"]
          /\ img = [t \in Tags |-> IF t = 1 THEN i ELSE "none"]
    /\ latest = 0 /\ newest = 1 /\ runs = 0
    /\ spoilt = [t \in Tags |-> IF sum[t] = "bad" THEN {"sum"} ELSE {}]

Tag(r) == at[r].tag
Goto(r, pc) == at' = [at EXCEPT ![r].pc = pc]
Return(r) == at' = [at EXCEPT ![r] = NotRunning("done", Tag(r))]

\* An error for a reason outside this process, and one without.
Fault(r) == at' = [at EXCEPT ![r] = NotRunning("none", 0)]
Fail(r) == at' = [at EXCEPT ![r] = [NotRunning("none", 0) EXCEPT !.clean = at[r].clean]]

-----------------------------------------------------------------------------
(* Faulty variants.                                                        *)

\* the invalid checksum is kept
ReadGivesUp(r) ==
    /\ at[r].pc = "read"
    /\ IF sum[Tag(r)] = "good" THEN Goto(r, "check") ELSE Fail(r)
    /\ UNCHANGED <<files, newest, runs, spoilt>>

\* `latest` is written as soon as the release is known
CheckLatestFirst(r) ==
    /\ at[r].pc = "check"
    /\ latest' = IF at[r].rel = 0 THEN Tag(r) ELSE latest
    /\ IF img[Tag(r)] = "good" THEN Return(r) ELSE Goto(r, "imgget")
    /\ UNCHANGED <<sum, img, newest, runs, spoilt>>

\* the image is written in place
BodyInPlace(t) == img' = [img EXCEPT ![t] = "bad"]

-----------------------------------------------------------------------------
(* Resolve.                                                                *)

\* A process starts to resolve a release.
Resolve(r, rel) ==
    LET alone == \A q \in Resolvers \ {r} : at[q].pc \in Ended
    IN /\ at[r].pc \in Ended /\ runs < MaxRuns
       /\ runs' = runs + 1
       /\ at' = [q \in Resolvers |->
                   IF q = r THEN [pc |-> "fetch", rel |-> rel, tag |-> 0, body |-> "none",
                                  again |-> FALSE, clean |-> alone]
                   ELSE [at[q] EXCEPT !.clean = @ /\ at[q].pc \in Ended]]
       /\ UNCHANGED <<files, newest, spoilt>>

\* The release that is meant.
Release(rel) == IF rel = 0 THEN newest ELSE rel

\* fetchRelease; the release may lack the artifacts.
FetchRelease(r) ==
    /\ at[r].pc = "fetch"
    /\ \/ at' = [at EXCEPT ![r].pc = "sum", ![r].tag = Release(at[r].rel)]
       \/ at' = [at EXCEPT ![r].pc = "fallback", ![r].clean = FALSE]
       \/ Fault(r)
    /\ UNCHANGED <<files, newest, runs, spoilt>>

\* cachedFallback: what is in the cache is verified again.
CachedFallback(r) ==
    LET t == IF at[r].rel = 0 THEN latest ELSE at[r].rel
    IN /\ at[r].pc = "fallback"
       /\ IF t # 0 /\ sum[t] = "good" /\ img[t] = "good"
          THEN at' = [at EXCEPT ![r] = NotRunning("done", t)]
          ELSE Fail(r)
       /\ UNCHANGED <<files, newest, runs, spoilt>>

\* ensureDownloaded takes a checksum that is there as it is.
EnsureChecksum(r) ==
    /\ at[r].pc = "sum"
    /\ Goto(r, IF sum[Tag(r)] = "none" THEN "sumget" ELSE "read")
    /\ UNCHANGED <<files, newest, runs, spoilt>>

\* What a download does to the image that is there, until the rename.
Body(t) == UNCHANGED img

\* download, up to the rename: into a temporary file that no one else reads.
Download(r) ==
    /\ at[r].pc \in {"sumget", "imgget"}
    /\ IF at[r].pc = "imgget" THEN Body(Tag(r)) ELSE UNCHANGED img
    /\ \/ \E b \in {"good", "bad"} :
             at' = [at EXCEPT ![r].pc = IF @ = "sumget" THEN "sumput" ELSE "imgput",
                              ![r].body = b, ![r].clean = @ /\ b = "good"]
       \/ Fault(r)
    /\ UNCHANGED <<sum, latest, newest, runs, spoilt>>

\* The rename at the end of a download.
Rename(r) ==
    LET t == Tag(r)  b == at[r].body  s == at[r].pc = "sumput"
    IN /\ at[r].pc \in {"sumput", "imgput"}
       /\ at' = [at EXCEPT ![r].pc = IF s THEN "read" ELSE "verify", ![r].body = "none"]
       /\ sum' = IF s THEN [sum EXCEPT ![t] = b] ELSE sum
       /\ img' = IF s THEN img ELSE [img EXCEPT ![t] = b]
       /\ spoilt' = IF b = "good" THEN spoilt
                    ELSE [spoilt EXCEPT ![t] = @ \cup {IF s THEN "sum" ELSE "img"}]
       /\ UNCHANGED <<latest, newest, runs>>

\* readChecksum; one that is invalid or gone is replaced, once.
ReadChecksum(r) ==
    /\ at[r].pc = "read"
    /\ IF sum[Tag(r)] = "good" THEN at' = [at EXCEPT ![r].pc = "check", ![r].again = FALSE]
       ELSE IF at[r].again THEN Fail(r)
       ELSE Goto(r, "sumrm")
    /\ UNCHANGED <<files, newest, runs, spoilt>>

RemoveChecksum(r) ==
    /\ at[r].pc = "sumrm"
    /\ sum' = [sum EXCEPT ![Tag(r)] = "none"]
    /\ at' = [at EXCEPT ![r].pc = "sumget", ![r].again = TRUE]
    /\ UNCHANGED <<img, latest, newest, runs, spoilt>>

\* A cached image that has the checksum is the answer.
CheckImage(r) ==
    /\ at[r].pc = "check"
    /\ IF img[Tag(r)] # "good" THEN Goto(r, "imgget")
       ELSE IF at[r].rel = 0 THEN Goto(r, "relatest")
       ELSE Return(r)
    /\ UNCHANGED <<files, newest, runs, spoilt>>

\* The image that was downloaded is verified where it is now.
VerifyImage(r) ==
    /\ at[r].pc = "verify"
    /\ IF img[Tag(r)] = "none" THEN Fail(r)
       ELSE IF img[Tag(r)] = "bad" THEN Goto(r, "imgrm")
       ELSE IF at[r].rel = 0 THEN Goto(r, "latest")
       ELSE Return(r)
    /\ UNCHANGED <<files, newest, runs, spoilt>>

RemoveImage(r) ==
    /\ at[r].pc = "imgrm"
    /\ img' = [img EXCEPT ![Tag(r)] = "none"]
    /\ Fail(r)
    /\ UNCHANGED <<sum, latest, newest, runs, spoilt>>

\* writeLatest; that it failed only matters after a download.
WriteLatest(r) ==
    /\ \/ at[r].pc \in {"relatest", "latest"} /\ latest' = Tag(r) /\ Return(r)
       \/ at[r].pc = "relatest" /\ Return(r) /\ UNCHANGED latest
       \/ at[r].pc = "latest" /\ Fault(r) /\ UNCHANGED latest
    /\ UNCHANGED <<sum, img, newest, runs, spoilt>>

Step(r) ==
    \/ FetchRelease(r) \/ CachedFallback(r) \/ EnsureChecksum(r) \/ Download(r)
    \/ Rename(r) \/ ReadChecksum(r) \/ RemoveChecksum(r) \/ CheckImage(r)
    \/ VerifyImage(r) \/ RemoveImage(r) \/ WriteLatest(r)

\* The process is killed; a temporary file may stay behind.
Killed(r) ==
    /\ at[r].pc \notin Ended
    /\ at' = [at EXCEPT ![r] = NotRunning("none", 0)]
    /\ UNCHANGED <<files, newest, runs, spoilt>>

\* GitHub publishes a release.
Publish ==
    /\ newest < MaxTag /\ newest' = newest + 1
    /\ UNCHANGED <<at, files, runs, spoilt>>

Next ==
    \/ \E r \in Resolvers : \/ \E rel \in 0 .. newest : Resolve(r, rel)
                            \/ Step(r) \/ Killed(r)
    \/ Publish

\* Every request has a timeout, so that a resolver that runs goes on.
Spec == Init /\ [][Next]_vars /\ \A r \in Resolvers : WF_vars(Step(r))

-----------------------------------------------------------------------------
(* Properties.                                                             *)

\* What Resolve returned stays whole for the command that clones it, whatever the
\* cache held before and whatever other resolvers of the same release do, as long
\* as the server sent no wrong image: a good image is never written over in
\* place, nor removed.
ReturnedGood ==
    \A r \in Resolvers :
       at[r].pc = "done" /\ "img" \notin spoilt[Tag(r)] => img[Tag(r)] = "good"

\* `latest` names a release that the cache can serve without GitHub: both its
\* files are there and whole, unless a bad one was ever written in their place.
LatestBacked ==
    latest # 0 /\ spoilt[latest] = {} => sum[latest] = "good" /\ img[latest] = "good"

\* A cache with truncated files heals: a resolver that meets no fault and is
\* alone never fails because of what it found in the cache.
CacheHeals == \A r \in Resolvers : at[r].pc = "none" => ~at[r].clean

=============================================================================
