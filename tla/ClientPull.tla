------------------------------ MODULE ClientPull ------------------------------
(***************************************************************************)
(* A client that pulls a chart, as helm does: it resolves a tag (HEAD),    *)
(* fetches the manifest by the digest it was told, then asks for each      *)
(* blob.  The blob endpoint (internal/blobs/blobs.go) looks a blob up      *)
(* twice, first its size and then its content, each under the lock of the  *)
(* blob map alone, so nothing holds a manifest and its blobs together: the *)
(* copies and the cleanup of ManifestStore come in between anywhere.       *)
(*                                                                         *)
(* A tag or a digest that is not stored is prepared by ManifestRequests;   *)
(* here a pull begins with a tag that is, and a digest that is not stored  *)
(* is an error: no index lists a digest as a version.                      *)
(*                                                                         *)
(* The field `settled` is history: no older copy of the image has taken    *)
(* the place of the digest entry the pull relies on.                       *)
(***************************************************************************)
EXTENDS ManifestStore

CONSTANTS Pulls  \* clients that may be pulling at one time

VARIABLES pull   \* pull[p]: how far client p has come

storevars == <<manifests, blobs, copy, doomed, now, orphans>>
pullvars == <<storevars, pull>>

\* `entry` is what the tag resolved to, `got` the blobs the client has, and
\* `sized` the one whose size the handler knows.
Pull == [stage: {"resolved", "fetching", "sized"}, slot: Slots, entry: Entry,
         got: SUBSET Blobs, sized: Blobs \cup {Absent}, settled: BOOLEAN]

ASSUME AbsentPullAssumption == Absent \notin Pull \cup Blobs

-----------------------------------------------------------------------------
\* A digest entry that lives at least as long as entry e
Covers(s, e) == Stored(s, e.image) /\ manifests[s][e.image].created >= e.created

PullInit == pull = [p \in Pulls |-> Absent]

At(p, stage) == pull[p] # Absent /\ pull[p].stage = stage

\* The client has all it wanted, or was told that something is not there
End(p) == pull' = [pull EXCEPT ![p] = Absent]

\* HEAD of the manifest by its tag, answered from the store
Resolve(p, s, t) ==
    /\ pull[p] = Absent
    /\ Stored(s, t)
    /\ LET e == manifests[s][t] IN
         pull' = [pull EXCEPT ![p] = [stage |-> "resolved", slot |-> s, entry |-> e, got |-> {},
                                      sized |-> Absent, settled |-> Covers(s, e)]]
    /\ UNCHANGED storevars

\* GET of the manifest by its digest
FetchManifest(p) ==
    /\ At(p, "resolved")
    /\ \/ /\ Stored(pull[p].slot, pull[p].entry.image)
          /\ pull' = [pull EXCEPT ![p].stage = "fetching"]
       \/ ~Stored(pull[p].slot, pull[p].entry.image) /\ End(p)
    /\ UNCHANGED storevars

\* Stat, for HEAD of a blob and first of all for GET
StatBlob(p, b) ==
    /\ At(p, "fetching")
    /\ b \in RefsOf[pull[p].entry.image] \ pull[p].got
    /\ \/ b \in blobs /\ pull' = [pull EXCEPT ![p].stage = "sized", ![p].sized = b]
       \/ b \notin blobs /\ End(p)
    /\ UNCHANGED storevars

\* Get, in a critical section of its own; the content is the client's from then
\* on, whatever becomes of the blob.
GetBlob(p) ==
    /\ At(p, "sized")
    /\ LET got == pull[p].got \cup {pull[p].sized} IN
       \/ /\ pull[p].sized \in blobs
          /\ got # RefsOf[pull[p].entry.image]
          /\ pull' = [pull EXCEPT ![p].stage = "fetching", ![p].sized = Absent, ![p].got = got]
       \/ pull[p].sized \in blobs /\ got = RefsOf[pull[p].entry.image] /\ End(p)
       \/ pull[p].sized \notin blobs /\ End(p)
    /\ UNCHANGED storevars

PullStep(p) == FetchManifest(p) \/ (\E b \in Blobs : StatBlob(p, b)) \/ GetBlob(p)

-----------------------------------------------------------------------------
\* Copy c is about to replace a digest entry pull p relies on by an older one
Ages(c, p) ==
    /\ pull[p] # Absent
    /\ copy[c].slot = pull[p].slot
    /\ copy[c].image = pull[p].entry.image
    /\ copy[c].entry.created < pull[p].entry.created

WriteManifestUnder(c) ==
    /\ WriteManifest(c)
    /\ pull' = [p \in Pulls |-> IF Ages(c, p) THEN [pull[p] EXCEPT !.settled = FALSE] ELSE pull[p]]

\* Every other step of the store leaves the pulls alone
StoreStep ==
    \/ \E c \in Copies :
         \/ \E s \in Slots, i \in Images, t \in Tags : BeginCopy(c, s, i, t)
         \/ \E b \in Blobs : PutBlob(c, b)
         \/ FailCopy(c)
         \/ StampManifest(c)
         \/ ReadForTag(c)
         \/ WriteTag(c)
    \/ Sweep
    \/ \E b \in Blobs : DeleteBlob(b)
    \/ Tick

PullNext ==
    \/ \E p \in Pulls, s \in Slots, t \in Tags : Resolve(p, s, t)
    \/ \E p \in Pulls : PullStep(p)
    \/ \E c \in Copies : WriteManifestUnder(c)
    \/ StoreStep /\ UNCHANGED pull

PullSpec == Init /\ PullInit /\ [][PullNext]_pullvars

\* The cleanup goroutine runs (ManifestStore); clients and copies need not.
PullFairSpec ==
    /\ PullSpec
    /\ WF_pullvars(Sweep /\ UNCHANGED pull)
    /\ \A b \in Blobs : WF_pullvars(DeleteBlob(b) /\ UNCHANGED pull)

-----------------------------------------------------------------------------
(* Properties                                                              *)

PullTypeOK == pull \in [Pulls -> Pull \cup {Absent}]

\* Until the manifest a client resolved is older than the TTL, the client finds
\* it under its digest and finds every blob of it, both times the blob endpoint
\* looks, and no cleanup has any of it among what it will delete: whatever
\* other tags, repositories and variants share with it, move to, or expire.
\* The exceptions are a manifest a cleanup interfered with (`clean`), and a
\* digest entry that is older than the tag's (`settled`).
Protected(p) == pull[p].entry.clean /\ pull[p].settled /\ ~Expired(pull[p].entry)
PullsFindTheirBlobs ==
    \A p \in Pulls : pull[p] # Absent /\ Protected(p) =>
        /\ Stored(pull[p].slot, pull[p].entry.image)
        /\ RefsOf[pull[p].entry.image] \subseteq blobs \ doomed

\* A pull that ends before the manifest it was served has expired has all the
\* blobs of the manifest: what the unit test of the cleanup says of a blob that a
\* live manifest refers to.  Does not hold when a cleanup decided on a blob
\* before a copy put it again and deletes it after the copy stored its manifest.
PullsEndWithAllBlobs ==
    [][\A p \in Pulls :
         /\ pull[p] # Absent /\ pull'[p] = Absent
         /\ pull[p].stage # "resolved" /\ ~Expired(pull[p].entry)
         => /\ pull[p].sized \in blobs
            /\ pull[p].got \cup {pull[p].sized} = RefsOf[pull[p].entry.image]]_pullvars
=============================================================================
