---------------------------- MODULE ManifestStore ----------------------------
(***************************************************************************)
(* The storage of the proxy: the three-level map Manifests.manifests       *)
(* (internal/manifest/manifest.go), the blob map of mem.Handler            *)
(* (internal/blobs/handler/mem/handler.go), the copies that fill both      *)
(* (oras.Copy into InternalDst, internal/manifest/dst.go) and the cleanup  *)
(* goroutine that empties both (cleanupExpired).                           *)
(*                                                                         *)
(* Any number of copies run at once, one per goroutine that executes       *)
(* prepareChart.  A copy puts the blobs of an OCI manifest one by one,     *)
(* takes the creation time, writes the manifest under its digest, reads it *)
(* back, and writes it again under the chart version.  Each of these is a  *)
(* critical section of its own (Manifests.lock or Handler.lock), and so is *)
(* each half of the cleanup: one sweep over the manifests under the lock,  *)
(* then, with the lock released, one Delete per blob.                      *)
(*                                                                         *)
(* Fields `clean` and the variable `orphans` are history: no action reads  *)
(* them in a guard.  They record which copies a cleanup interfered with    *)
(* and which blobs nobody is left to collect.                              *)
(***************************************************************************)
EXTENDS Integers

CONSTANTS
    Slots,     \* pairs of repository path and variant: the two outer map levels
    Tags,      \* names a chart version is stored under
    Images,    \* OCI manifests, named by their digest
    Blobs,     \* digests of configs and chart archives
    RefsOf,    \* RefsOf[i]: the blobs image i is made of
    Copies,    \* goroutines that may be in oras.Copy at one time
    CacheTTL,  \* Config.CacheTTL, in ticks
    MaxTime,   \* bound of the clock (model checking only)
    Absent     \* no entry in a map, no copy in progress

VARIABLES
    manifests, \* manifests[s][n]: Manifests.manifests[repo][variant][name]
    blobs,     \* the keys of mem.Handler.m
    copy,      \* copy[c]: the progress of one oras.Copy
    doomed,    \* digests the running cleanup has still to Delete
    now,       \* time.Now()
    orphans    \* history: blobs that nothing is left to collect

vars == <<manifests, blobs, copy, doomed, now, orphans>>

Names == Tags \cup Images

Entry == [image: Images, refs: SUBSET Blobs, created: Nat, clean: BOOLEAN]

Stages == {"blobs", "stamped", "written", "tagging"}

Copy == [stage: Stages, slot: Slots, image: Images, tag: Tags,
         refs: SUBSET Blobs, entry: Entry \cup {Absent}, clean: BOOLEAN]

ASSUME RefsAssumption == RefsOf \in [Images -> SUBSET Blobs]
ASSUME NamesAssumption == Tags \cap Images = {}
ASSUME TimeAssumption == CacheTTL \in Int /\ MaxTime \in Nat
ASSUME AbsentAssumption == Absent \notin Entry /\ Absent \notin Copy

-----------------------------------------------------------------------------
(* Reading the maps                                                        *)

Stored(s, n) == manifests[s][n] # Absent

\* Mutant: the comparison is the wrong way round
Expired_Swapped(e) == e.created > now - CacheTTL

\* ma.CreatedAt.Before(cutoff), the cutoff being CacheTTL before now
Expired(e) == e.created < now - CacheTTL

\* Handler.Put and Handler.Delete, each under the lock of the handler; what is
\* put again is overwritten by the same content, a missing blob is only logged.
Put(b) == blobs' = blobs \cup {b}
Delete(b) == blobs' = blobs \ {b}

Init ==
    /\ manifests = [s \in Slots |-> [n \in Names |-> Absent]]
    /\ blobs = {}
    /\ copy = [c \in Copies |-> Absent]
    /\ doomed = {}
    /\ now = 0
    /\ orphans = {}

-----------------------------------------------------------------------------
(* A copy: oras.Copy of one converted chart into InternalDst               *)

\* prepareChart has converted a chart into image i and calls oras.Copy
BeginCopy(c, s, i, t) ==
    /\ copy[c] = Absent
    /\ copy' = [copy EXCEPT ![c] =
                  [stage |-> "blobs", slot |-> s, image |-> i, tag |-> t,
                   refs |-> {}, entry |-> Absent,
                   clean |-> doomed \cap RefsOf[i] = {}]]
    /\ UNCHANGED <<manifests, blobs, doomed, now, orphans>>

\* PreCopy records the digest, then Push hands the blob to Handler.Put
PutBlob(c, b) ==
    /\ copy[c] # Absent
    /\ copy[c].stage = "blobs"
    /\ b \in RefsOf[copy[c].image] \ copy[c].refs
    /\ Put(b)
    /\ copy' = [copy EXCEPT ![c].refs = @ \cup {b}]
    /\ UNCHANGED <<manifests, doomed, now, orphans>>

\* The context of the copy ends before the next node is copied: what has been
\* put stays in the blob map.
FailCopy(c) ==
    /\ copy[c] # Absent
    /\ copy[c].stage = "blobs"
    /\ copy' = [copy EXCEPT ![c] = Absent]
    /\ orphans' = orphans \cup copy[c].refs
    /\ UNCHANGED <<manifests, blobs, doomed, now>>

\* Mutant: the proxy-ref annotations are not collected
NewManifest_NoRefs(cp) ==
    [image |-> cp.image, refs |-> {}, created |-> now, clean |-> TRUE]

\* The Manifest literal of Push; its refs come from the proxy-ref annotations
NewManifest(cp) ==
    [image |-> cp.image, refs |-> cp.refs, created |-> now, clean |-> TRUE]

\* Push of the manifest evaluates time.Now() before WriteVariant takes the lock
StampManifest(c) ==
    /\ copy[c] # Absent
    /\ copy[c].stage = "blobs"
    /\ copy[c].refs = RefsOf[copy[c].image]
    /\ copy' = [copy EXCEPT ![c].stage = "stamped",
                            ![c].entry = NewManifest(copy[c])]
    /\ UNCHANGED <<manifests, blobs, doomed, now, orphans>>

\* The entry a copy stores: the one it holds, with the history of the copy
Held(cp) == [cp.entry EXCEPT !.clean = @ /\ cp.clean]

WriteVariant(cp, n) ==
    manifests' = [manifests EXCEPT ![cp.slot][n] = Held(cp)]

\* Push writes the manifest under its digest
WriteManifest(c) ==
    /\ copy[c] # Absent
    /\ copy[c].stage = "stamped"
    /\ WriteVariant(copy[c], copy[c].image)
    /\ copy' = [copy EXCEPT ![c].stage = "written", ![c].entry = Absent]
    /\ UNCHANGED <<blobs, doomed, now, orphans>>

\* Tag reads the manifest back by its digest; a miss fails the copy
ReadForTag(c) ==
    /\ copy[c] # Absent
    /\ copy[c].stage = "written"
    /\ LET hm == manifests[copy[c].slot][copy[c].image] IN
       \/ /\ hm # Absent
          /\ copy' = [copy EXCEPT ![c].stage = "tagging", ![c].entry = hm]
       \/ /\ hm = Absent
          /\ copy' = [copy EXCEPT ![c] = Absent]
    /\ UNCHANGED <<manifests, blobs, doomed, now, orphans>>

\* What the entry a tag is about to replace leaves behind: its blobs, when it
\* was another image and the digest entry of that image is gone already.
LeftByTag(s, t, i) ==
    LET old == manifests[s][t] IN
    IF old # Absent /\ old.image # i /\ ~Stored(s, old.image)
    THEN old.refs ELSE {}

\* Tag writes the entry it read under the chart version, and the copy is over
WriteTag(c) ==
    /\ copy[c] # Absent
    /\ copy[c].stage = "tagging"
    /\ WriteVariant(copy[c], copy[c].tag)
    /\ orphans' = orphans \cup LeftByTag(copy[c].slot, copy[c].tag, copy[c].image)
    /\ copy' = [copy EXCEPT ![c] = Absent]
    /\ UNCHANGED <<blobs, doomed, now>>

-----------------------------------------------------------------------------
(* The cleanup goroutine: cleanupExpired                                   *)

\* Mutant: the keys of the expired entries are collected instead of their refs
RefsToDelete_Names ==
    {n \in Names : \E s \in Slots :
        Stored(s, n) /\ Expired(manifests[s][n])}

RefsToDelete ==
    {b \in Blobs : \E s \in Slots, n \in Names :
        /\ Stored(s, n)
        /\ Expired(manifests[s][n])
        /\ b \in manifests[s][n].refs}

\* Mutant: the reference counts are never consulted
RefsInUse_Ignored == {}

\* Mutant: references are counted before the expiry test
RefsInUse_CountsExpired ==
    {b \in Blobs : \E s \in Slots, n \in Names :
        Stored(s, n) /\ b \in manifests[s][n].refs}

RefsInUse ==
    {b \in Blobs : \E s \in Slots, n \in Names :
        /\ Stored(s, n)
        /\ ~Expired(manifests[s][n])
        /\ b \in manifests[s][n].refs}

\* One tick of the minute ticker: with the lock held, expired entries go and
\* the blobs only they referred to become doomed.  The ticker is not read
\* again until all of these have been deleted.  The code takes the cutoff before
\* it waits for the lock, so it may find fewer entries expired than there are,
\* as a sweep that comes earlier does.
Sweep ==
    /\ doomed = {}
    /\ manifests' = [s \in Slots |-> [n \in Names |->
                        IF Stored(s, n) /\ Expired(manifests[s][n])
                        THEN Absent ELSE manifests[s][n]]]
    /\ doomed' = RefsToDelete \ RefsInUse
    /\ copy' = [c \in Copies |->
                  IF copy[c] = Absent THEN Absent
                  ELSE [copy[c] EXCEPT !.clean =
                           @ /\ doomed' \cap RefsOf[copy[c].image] = {}]]
    /\ UNCHANGED <<blobs, now, orphans>>

\* With the lock released, the doomed blobs are deleted in any order
DeleteBlob(b) ==
    /\ b \in doomed
    /\ Delete(b)
    /\ doomed' = doomed \ {b}
    /\ UNCHANGED <<manifests, copy, now, orphans>>

Tick ==
    /\ now < MaxTime
    /\ now' = now + 1
    /\ UNCHANGED <<manifests, blobs, copy, doomed, orphans>>

-----------------------------------------------------------------------------
CopyStep(c) ==
    \/ \E s \in Slots, i \in Images, t \in Tags : BeginCopy(c, s, i, t)
    \/ \E b \in Blobs : PutBlob(c, b)
    \/ FailCopy(c)
    \/ StampManifest(c)
    \/ WriteManifest(c)
    \/ ReadForTag(c)
    \/ WriteTag(c)

Next ==
    \/ \E c \in Copies : CopyStep(c)
    \/ Sweep
    \/ \E b \in Blobs : DeleteBlob(b)
    \/ Tick

Spec == Init /\ [][Next]_vars

\* The cleanup goroutine runs until the process stops: its ticker fires every
\* minute and its loop over the doomed blobs has no exit.
Fairness ==
    /\ WF_vars(Sweep)
    /\ \A b \in Blobs : WF_vars(DeleteBlob(b))

FairSpec == Spec /\ Fairness

-----------------------------------------------------------------------------
(* Properties                                                              *)

\* Every variable keeps its shape through copies and cleanups.
TypeOK ==
    /\ manifests \in [Slots -> [Names -> Entry \cup {Absent}]]
    /\ blobs \in SUBSET Blobs
    /\ copy \in [Copies -> Copy \cup {Absent}]
    /\ doomed \in SUBSET Blobs
    /\ now \in Nat
    /\ orphans \in SUBSET Blobs

\* A manifest stored under a digest is the manifest of that digest, and the
\* references every stored entry carries are exactly the blobs of its image:
\* the cleanup relies on that list and on nothing else (dst.go Push and Tag).
ContentAddressed ==
    \A s \in Slots, n \in Names :
        Stored(s, n) =>
            /\ n \in Images => manifests[s][n].image = n
            /\ manifests[s][n].refs = RefsOf[manifests[s][n].image]

\* What a client that resolves a manifest relies on: all its blobs are there
\* and the running cleanup is not about to delete one.
Complete(e) == e.refs \subseteq blobs /\ e.refs \cap doomed = {}

\* A stored manifest is complete unless a cleanup was collecting one of its
\* blobs while it was being copied: sharing blobs between tags, variants and
\* repositories, re-preparing and expiring never damage one (manifest.go
\* cleanupExpired against dst.go Push and Tag).
CleanManifestsComplete ==
    \A s \in Slots, n \in Names :
        Stored(s, n) /\ manifests[s][n].clean => Complete(manifests[s][n])

\* Some stored manifest will lead the cleanup to blob b.
Referenced(b) ==
    \E s \in Slots, n \in Names : Stored(s, n) /\ b \in manifests[s][n].refs

\* Some copy has put blob b and has not finished.
InFlight(b) == \E c \in Copies : copy[c] # Absent /\ b \in copy[c].refs

\* No blob leaks but in the two ways `orphans` records: a copy that failed
\* half-way, and a tag that moved after its old digest entry was gone.  Every
\* other blob is referenced, doomed, or held by a copy (manifest.go
\* cleanupExpired: refsToDelete less refsInUse).
BlobsAccountedFor ==
    \A b \in blobs \ orphans : Referenced(b) \/ b \in doomed \/ InFlight(b)

\* MANIFEST_CACHE_TTL bounds the life of blobs too: whatever is in the blob
\* map will be reached by a cleanup.  Does not hold for what a failed copy put.
EveryBlobExpires ==
    \A b \in blobs : Referenced(b) \/ b \in doomed \/ InFlight(b)

\* An entry older than the TTL is swept, however copies and cleanups
\* interleave (unless a new copy replaces it first).
OutlivedTTL(s, n) == Stored(s, n) /\ manifests[s][n].created + CacheTTL < now
ExpiredIsSwept ==
    \A s \in Slots, n \in Names : OutlivedTTL(s, n) ~> ~OutlivedTTL(s, n)

\* A blob that only expired manifests refer to, that no copy holds and that is
\* no orphan, does not stay so: it is deleted, or referred to or put again.
Garbage(b) ==
    /\ b \in blobs \ orphans
    /\ ~InFlight(b)
    /\ \A s \in Slots, n \in Names :
         Stored(s, n) /\ b \in manifests[s][n].refs => OutlivedTTL(s, n)
GarbageIsCollected == \A b \in Blobs : Garbage(b) ~> ~Garbage(b)
=============================================================================
