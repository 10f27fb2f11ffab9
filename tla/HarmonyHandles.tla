--------------------------- MODULE HarmonyHandles ---------------------------
(***************************************************************************)
(* What the concurrent work of one Harmony process shares: the descriptor  *)
(* of a rawfile (SaveFile.ts), the digest of the embedded bundle           *)
(* (getBundleHash of UpdateContext.ts) and the RN instance that events go  *)
(* to (EventHub.ts).                                                       *)
(*                                                                         *)
(* The resource manager knows a descriptor by its file name alone: closing *)
(* it closes it for whoever reads.  withRawFd makes the jobs of one name   *)
(* wait for each other.                                                    *)
(***************************************************************************)
EXTENDS Naturals

CONSTANTS
    Job,          \* work that reads a rawfile: patches, copies, the digest
    NoJob,
    Digest,       \* the job that digests the bundle
    File, FileOf, \* rawfiles, and which of them a job reads
    MaxArrivals,  \* bound: jobs begun
    MaxInstances  \* bound: RN instances

ASSUME JobAssumption == Digest \in Job /\ NoJob \notin Job /\ FileOf \in [Job -> File]
ASSUME HandleBounds == MaxArrivals \in Nat /\ MaxInstances \in Nat

VARIABLES
    job,        \* what each job does
    before,     \* whom it waits for: the tail of the chain when it came
    tail,       \* rawFdChains
    open,       \* files whose descriptor is open
    digest,     \* the stored digest: of which binary, and under which key
    told,       \* what the last caller of getBundleHash was told, by which key
    key,        \* cachePrefix of the computation: whether it has the update time
    arrivals,
    instances,  \* RN instances whose module lives; the newest is the app's
    newest,
    receiver    \* the instance of the hub

handleVars == <<job, before, tail, open, digest, told, key, arrivals, instances, newest, receiver>>
rawFiles == <<job, before, tail, open, arrivals>>
digests == <<digest, told, key>>

(* A key with the update time is that of one installation; without, it is  *)
(* that of any binary of the version.                                      *)
NoDigest == [of |-> "none", timed |-> FALSE]
DigestOf(binary, timed) == [of |-> binary, timed |-> timed]
StoredDigest == [of : {"none", "other", "this"}, timed : BOOLEAN]
ToldDigest == [of : {"unknown", "other", "this"}, timed : BOOLEAN]
NothingTold == [of |-> "unknown", timed |-> TRUE]
hub == <<instances, newest, receiver>>

HandlesTypeOK ==
    /\ job \in [Job -> {"idle", "waiting", "opening", "using", "closing"}]
    /\ before \in [Job -> Job \cup {NoJob}]
    /\ tail \in [File -> Job \cup {NoJob}]
    /\ open \subseteq File
    /\ digest \in StoredDigest /\ told \in ToldDigest /\ key \in BOOLEAN
    /\ arrivals \in 0 .. MaxArrivals
    /\ instances \subseteq 1 .. MaxInstances
    /\ newest \in 0 .. MaxInstances /\ receiver \in 0 .. MaxInstances

HandlesInit ==
    /\ job = [j \in Job |-> "idle"] /\ before = [j \in Job |-> NoJob]
    /\ tail = [f \in File |-> NoJob] /\ open = {}
    /\ digest \in {NoDigest, DigestOf("other", TRUE), DigestOf("other", FALSE)}
    /\ told = NothingTold /\ key = TRUE
    /\ arrivals = 0
    /\ instances = {} /\ newest = 0 /\ receiver = 0

-----------------------------------------------------------------------------
(***************************************************************************)
(* withRawFd                                                               *)
(***************************************************************************)
Arrives(j) ==
    /\ job[j] = "idle" /\ arrivals < MaxArrivals /\ arrivals' = arrivals + 1
    /\ before' = [before EXCEPT ![j] = tail[FileOf[j]]]
    /\ tail' = [tail EXCEPT ![FileOf[j]] = j]
    /\ job' = [job EXCEPT ![j] = "waiting"]
    /\ UNCHANGED open

(* Mutant: nobody waits.                                                   *)
GoesAnyway(j) == TRUE
Released(j) == before[j] = NoJob

GoesFirst(j) ==
    /\ job[j] = "waiting" /\ Released(j)
    /\ job' = [job EXCEPT ![j] = "opening"] /\ UNCHANGED <<before, tail, open, arrivals>>

GetsDescriptor(j) ==
    /\ job[j] = "opening" /\ open' = open \cup {FileOf[j]}
    /\ job' = [job EXCEPT ![j] = "using"] /\ UNCHANGED <<before, tail, arrivals>>

(* A job ends well or badly; the descriptor is closed all the same.        *)
JobEnds(j) ==
    /\ job[j] = "using" /\ job' = [job EXCEPT ![j] = "closing"]
    /\ UNCHANGED <<before, tail, open, arrivals>>

(* Mutant: the chain is forgotten by whoever leaves it.                    *)
ForgetsChain(j) == [tail EXCEPT ![FileOf[j]] = NoJob]
LeavesChain(j) == [tail EXCEPT ![FileOf[j]] = IF @ = j THEN NoJob ELSE @]

(* The finally that releases the next one; those behind j no longer wait.  *)
Leaves(j) ==
    /\ tail' = LeavesChain(j)
    /\ job' = [job EXCEPT ![j] = "idle"]
    /\ before' = [k \in Job |-> IF k = j \/ before[k] = j THEN NoJob ELSE before[k]]
    /\ UNCHANGED arrivals

DescriptorRefused(j) == job[j] = "opening" /\ Leaves(j) /\ UNCHANGED open

(* closeRawFd may fail, which leaves the descriptor open.                  *)
Closes(j) ==
    /\ job[j] = "closing" /\ Leaves(j)
    /\ open' \in {open, open \ {FileOf[j]}}

(* What the digest job leaves behind; the digest may not be computable.    *)
Digests(j, ok) ==
    IF j # Digest THEN UNCHANGED digests
    ELSE /\ digest' = IF ok THEN DigestOf("this", key) ELSE digest
         /\ told' = IF ok THEN DigestOf("this", key) ELSE NothingTold
         /\ UNCHANGED key

ReadsRawFile(j) ==
    /\ UNCHANGED hub
    /\ \/ j # Digest /\ Arrives(j) /\ UNCHANGED digests
       \/ (GoesFirst(j) \/ GetsDescriptor(j) \/ JobEnds(j)) /\ UNCHANGED digests
       \/ \E ok \in BOOLEAN : Closes(j) /\ Digests(j, ok)
       \/ DescriptorRefused(j) /\ Digests(j, FALSE)

-----------------------------------------------------------------------------
(***************************************************************************)
(* getBundleHash: callers share one computation, under the key of the one  *)
(* that began it; a stored digest counts under the key it was stored with. *)
(* The update time may not be available (getBundleModifiedTime).           *)
(***************************************************************************)
(* Mutant: any stored digest counts.                                       *)
AnyDigestStored(timed) == digest # NoDigest
DigestStored(timed) == digest.timed = timed /\ digest.of \in IF timed THEN {"this"} ELSE {"other", "this"}

AsksDigest(timed) ==
    /\ IF DigestStored(timed) THEN told' = DigestOf(digest.of, timed) /\ UNCHANGED <<digest, key, rawFiles>>
       ELSE /\ job[Digest] = "idle" /\ Arrives(Digest)
            /\ key' = timed /\ UNCHANGED <<digest, told>>
    /\ UNCHANGED hub

-----------------------------------------------------------------------------
(***************************************************************************)
(* EventHub: RNOH may build the new instance before it destroys the old.   *)
(***************************************************************************)
InstanceBuilt ==
    /\ newest < MaxInstances /\ newest' = newest + 1
    /\ instances' = instances \cup {newest'} /\ receiver' = newest'
    /\ UNCHANGED <<rawFiles, digests>>

(* Mutant: the hub forgets whatever instance it has.                       *)
ClearsAny(i) == 0
ClearsOwn(i) == IF receiver = i THEN 0 ELSE receiver

InstanceDestroyed(i) ==
    /\ instances' = instances \ {i} /\ receiver' = ClearsOwn(i)
    /\ UNCHANGED <<newest, rawFiles, digests>>

HandlesNext ==
    \/ \E j \in Job : ReadsRawFile(j)
    \/ \E timed \in BOOLEAN : AsksDigest(timed)
    \/ InstanceBuilt \/ \E i \in instances : InstanceDestroyed(i)

HandlesSpec == HandlesInit /\ [][HandlesNext]_handleVars

-----------------------------------------------------------------------------
(***************************************************************************)
(* Properties                                                              *)
(***************************************************************************)
(* Nobody closes a descriptor somebody reads from, in whatever order jobs  *)
(* come, fail and leave; a caller is told the digest of this binary or     *)
(* none, unless the update time was missing both when he asked and when    *)
(* another binary of the version stored its digest; the newest instance    *)
(* gets the events as long as it lives.                                    *)
HandlesStay ==
    /\ \A j \in Job : job[j] = "using" => FileOf[j] \in open
    /\ told.timed => told.of # "other"
    /\ newest \in instances => receiver = newest
=============================================================================
