--------------------------- MODULE ClientPullProofs ---------------------------
(***************************************************************************)
(* A client that resolved a tag finds its manifest and blobs until they    *)
(* expire, with the two exceptions PullsFindTheirBlobs names.  Clients     *)
(* only read, so what ManifestStoreProofs establishes holds with them      *)
(* around (PullsImplementStore); what they rely on is PullInv: a digest    *)
(* entry that outlives the resolved one keeps the blobs in the reference   *)
(* count of every sweep.                                                   *)
(***************************************************************************)
EXTENDS ClientPull, ManifestStoreProofs

Relied(p) ==
    /\ Covers(pull[p].slot, pull[p].entry)
    /\ RefsOf[pull[p].entry.image] \subseteq blobs \ doomed

PullsCovered == \A p \in Pulls : pull[p] # Absent /\ Protected(p) => Relied(p)

PullInv == CleanInv /\ PullTypeOK /\ PullsCovered

-----------------------------------------------------------------------------
(* The store with clients                                                  *)

LEMMA PullStepImplementsStore == [PullNext]_pullvars => [Next]_vars
  <1> SUFFICES ASSUME [PullNext]_pullvars PROVE [Next]_vars
    OBVIOUS
  <1>1. CASE UNCHANGED pullvars
    BY <1>1 DEF pullvars, storevars, vars
  <1>2. CASE \E p \in Pulls, s \in Slots, t \in Tags : Resolve(p, s, t)
    BY <1>2 DEF Resolve, storevars, vars
  <1>3. CASE \E p \in Pulls : PullStep(p)
    BY <1>3 DEF PullStep, FetchManifest, StatBlob, GetBlob, storevars, vars
  <1>4. CASE \E c \in Copies : WriteManifestUnder(c)
    BY <1>4 DEF WriteManifestUnder, Next, CopyStep
  <1>5. CASE StoreStep
    BY <1>5 DEF StoreStep, Next, CopyStep
  <1> QED
    BY <1>1, <1>2, <1>3, <1>4, <1>5 DEF PullNext

\* Whatever clients do, the store is one that ManifestStore describes
\* (blobs.go and Manifests.Handle only read it).
THEOREM PullsImplementStore == PullSpec => Spec
  BY PullStepImplementsStore, PTL DEF PullSpec, Spec

-----------------------------------------------------------------------------
(* Types                                                                   *)

LEMMA PullTypeStep == TypeOK /\ PullTypeOK /\ [PullNext]_pullvars => PullTypeOK'
  <1> SUFFICES ASSUME TypeOK, PullTypeOK, [PullNext]_pullvars PROVE PullTypeOK'
    OBVIOUS
  <1> USE AbsentPullAssumption DEF PullTypeOK
  <1>1. CASE UNCHANGED pull
    BY <1>1
  <1>2. ASSUME NEW p \in Pulls, NEW s \in Slots, NEW t \in Tags, Resolve(p, s, t)
        PROVE  PullTypeOK'
    <2> DEFINE new == [stage |-> "resolved", slot |-> s, entry |-> manifests[s][t], got |-> {},
                       sized |-> Absent, settled |-> Covers(s, manifests[s][t])]
    <2>1. manifests[s][t] \in Entry
      BY <1>2 DEF Resolve, Stored, TypeOK, Names
    <2>2. Covers(s, manifests[s][t]) \in BOOLEAN
      BY DEF Covers, Stored
    <2>3. new \in Pull
      BY <2>1, <2>2 DEF Pull
    <2>4. pull' = [pull EXCEPT ![p] = new]
      BY <1>2 DEF Resolve
    <2> QED
      BY <2>3, <2>4
  <1>3. ASSUME NEW p \in Pulls, PullStep(p)
        PROVE  PullTypeOK'
    <2>1. pull[p] \in Pull
      BY <1>3 DEF PullStep, FetchManifest, StatBlob, GetBlob, At
    <2>2. CASE FetchManifest(p)
      BY <2>1, <2>2 DEF FetchManifest, End, Pull
    <2>3. ASSUME NEW b \in Blobs, StatBlob(p, b)
          PROVE  PullTypeOK'
      BY <2>1, <2>3 DEF StatBlob, End, Pull
    <2>4. CASE GetBlob(p)
      <3>1. /\ pull[p].sized \in blobs
            => pull[p].got \cup {pull[p].sized} \in SUBSET Blobs
        BY <2>1 DEF Pull, TypeOK
      <3> QED
        BY <2>1, <2>4, <3>1 DEF GetBlob, End, Pull
    <2> QED
      BY <1>3, <2>2, <2>3, <2>4 DEF PullStep
  <1>4. ASSUME NEW c \in Copies, WriteManifestUnder(c)
        PROVE  PullTypeOK'
    <2>1. \A p \in Pulls : Ages(c, p) => [pull[p] EXCEPT !.settled = FALSE] \in Pull
      BY DEF Ages, Pull
    <2> QED
      BY <1>4, <2>1 DEF WriteManifestUnder
  <1> QED
    BY <1>1, <1>2, <1>3, <1>4 DEF PullNext, StoreStep, pullvars

-----------------------------------------------------------------------------
(* What pulls rely on                                                      *)

\* A step that neither touches the store's entries of pulled images nor takes
\* blobs away, and does not turn time back, leaves a pull what it relies on.
LEMMA ReliedStays ==
    ASSUME TypeOK, PullTypeOK, PullsCovered, UNCHANGED pull,
           now' \in Nat, now' >= now,
           blobs \ doomed \subseteq blobs' \ doomed',
           \A s \in Slots, i \in Images : manifests'[s][i] = manifests[s][i]
    PROVE  PullsCovered'
  <1> SUFFICES ASSUME NEW p \in Pulls, pull[p] # Absent, Protected(p)'
               PROVE  Relied(p)'
    BY DEF PullsCovered
  <1>1. pull[p] \in Pull /\ pull[p].entry \in Entry /\ pull[p].slot \in Slots
    BY DEF PullTypeOK, Pull
  <1>2. pull[p].entry.created \in Nat /\ pull[p].entry.image \in Images
    BY <1>1 DEF Entry
  <1>3. Protected(p)
    BY <1>2, TimeAssumption DEF Protected, Expired, TypeOK
  <1>4. Relied(p)
    BY <1>3 DEF PullsCovered
  <1> QED
    BY <1>1, <1>2, <1>4 DEF Relied, Covers, Stored

LEMMA PullsCoveredStep == PullInv /\ [PullNext]_pullvars => PullsCovered'
  <1> SUFFICES ASSUME PullInv, [PullNext]_pullvars PROVE PullsCovered'
    OBVIOUS
  <1>0. /\ TypeOK /\ ContentAddressed /\ CopiesFaithful /\ EntryHeld
        /\ CleanManifestsComplete /\ PullTypeOK /\ PullsCovered
    BY DEF PullInv, CleanInv, ContentInv, TypeInv
  <1>types. \A p \in Pulls : pull[p] # Absent =>
             /\ pull[p] \in Pull
             /\ pull[p].slot \in Slots
             /\ pull[p].entry \in Entry
             /\ pull[p].entry.image \in Images
             /\ pull[p].entry.created \in Nat
    BY <1>0 DEF PullTypeOK, Pull, Entry
  <1>1. CASE UNCHANGED pullvars
    BY <1>0, <1>1, ReliedStays DEF pullvars, storevars, TypeOK
  <1>2. ASSUME NEW q \in Pulls, NEW s \in Slots, NEW t \in Tags, Resolve(q, s, t)
        PROVE  PullsCovered'
    <2> DEFINE e == manifests[s][t]
    <2>1. e \in Entry /\ e # Absent
      BY <1>0, <1>2 DEF Resolve, Stored, TypeOK, Names
    <2>2. e.clean => RefsOf[e.image] \subseteq blobs \ doomed
      BY <1>0, <1>2, <2>1
      DEF Resolve, CleanManifestsComplete, Complete, ContentAddressed, Stored, Names
    <2>3. UNCHANGED storevars
      BY <1>2 DEF Resolve
    <2>4. /\ pull'[q].entry = e /\ pull'[q].slot = s /\ pull'[q].settled = Covers(s, e)
          /\ \A p \in Pulls \ {q} : pull'[p] = pull[p]
      BY <1>0, <1>2 DEF Resolve, PullTypeOK
    <2>5. Protected(q)' => Relied(q)'
      BY <2>2, <2>3, <2>4 DEF Protected, Relied, Covers, Stored, storevars
    <2>6. \A p \in Pulls \ {q} : pull'[p] # Absent /\ Protected(p)' => Relied(p)'
      BY <1>0, <2>3, <2>4
      DEF PullsCovered, Protected, Relied, Covers, Stored, Expired, storevars
    <2> QED
      BY <2>5, <2>6 DEF PullsCovered
  <1>3. ASSUME NEW q \in Pulls, PullStep(q)
        PROVE  PullsCovered'
    <2>1. UNCHANGED storevars
      BY <1>3 DEF PullStep, FetchManifest, StatBlob, GetBlob
    <2>2. \A p \in Pulls : pull'[p] # Absent =>
            /\ pull[p] # Absent
            /\ pull'[p].slot = pull[p].slot
            /\ pull'[p].entry = pull[p].entry
            /\ pull'[p].settled = pull[p].settled
      <3>1. pull[q] \in Pull
        BY <1>3, <1>types DEF PullStep, FetchManifest, StatBlob, GetBlob, At
      <3>2. \/ End(q)
            \/ \E new \in Pull :
                 /\ pull' = [pull EXCEPT ![q] = new]
                 /\ new.slot = pull[q].slot
                 /\ new.entry = pull[q].entry
                 /\ new.settled = pull[q].settled
        <4>1. CASE FetchManifest(q)
          <5> DEFINE new == [pull[q] EXCEPT !.stage = "fetching"]
          <5>1. new \in Pull /\ new.slot = pull[q].slot /\ new.entry = pull[q].entry
                /\ new.settled = pull[q].settled
            BY <3>1 DEF Pull
          <5>2. End(q) \/ pull' = [pull EXCEPT ![q] = new]
            BY <4>1 DEF FetchManifest
          <5> QED
            BY <5>1, <5>2
        <4>2. ASSUME NEW b \in Blobs, StatBlob(q, b)
              PROVE  <3>2!1 \/ <3>2!2
          <5> DEFINE new == [pull[q] EXCEPT !.stage = "sized", !.sized = b]
          <5>1. new \in Pull /\ new.slot = pull[q].slot /\ new.entry = pull[q].entry
                /\ new.settled = pull[q].settled
            BY <3>1 DEF Pull
          <5>2. End(q) \/ pull' = [pull EXCEPT ![q] = new]
            BY <4>2 DEF StatBlob
          <5> QED
            BY <5>1, <5>2
        <4>3. CASE GetBlob(q)
          <5> DEFINE got == pull[q].got \cup {pull[q].sized}
                     new == [pull[q] EXCEPT !.stage = "fetching", !.sized = Absent, !.got = got]
          <5>1. CASE End(q)
            BY <5>1
          <5>2. CASE pull' = [pull EXCEPT ![q] = new] /\ pull[q].sized \in blobs
            <6>1. got \in SUBSET Blobs
              BY <1>0, <3>1, <5>2 DEF Pull, TypeOK
            <6>2. new \in Pull /\ new.slot = pull[q].slot /\ new.entry = pull[q].entry
                  /\ new.settled = pull[q].settled
              BY <3>1, <6>1 DEF Pull
            <6> QED
              BY <5>2, <6>2
          <5> QED
            BY <4>3, <5>1, <5>2 DEF GetBlob
        <4> QED
          BY <1>3, <4>1, <4>2, <4>3 DEF PullStep
      <3> QED
        BY <1>0, <1>3, <3>1, <3>2, AbsentPullAssumption
        DEF End, PullTypeOK
    <2> QED
      BY <1>0, <2>1, <2>2
      DEF PullsCovered, Protected, Relied, Covers, Stored, Expired, storevars
  <1>4. ASSUME NEW c \in Copies, WriteManifestUnder(c)
        PROVE  PullsCovered'
    <2>1. /\ Running(c) /\ copy[c].stage = "stamped" /\ copy[c] \in Copy
          /\ WriteVariant(copy[c], copy[c].image)
          /\ UNCHANGED <<blobs, doomed, now>>
      BY <1>0, <1>4 DEF WriteManifestUnder, WriteManifest, TypeOK, Running
    <2>2. copy[c].entry \in Entry /\ copy[c].entry.image = copy[c].image
      BY <1>0, <2>1 DEF EntryHeld, CopiesFaithful
    <2> DEFINE new == Held(copy[c])
    <2>3. /\ new \in Entry /\ new # Absent
          /\ new.created = copy[c].entry.created
      BY <2>1, <2>2, HeldEntry, AbsentAssumption DEF Held, Entry
    <2>4. copy[c].slot \in Slots /\ copy[c].image \in Images
      BY <2>1 DEF Copy
    <2>5. \A s \in Slots, i \in Images :
            manifests'[s][i] = IF s = copy[c].slot /\ i = copy[c].image THEN new
                               ELSE manifests[s][i]
      BY <1>0, <2>1, <2>4 DEF WriteVariant, TypeOK, Names
    <2> SUFFICES ASSUME NEW p \in Pulls, pull'[p] # Absent, Protected(p)'
                 PROVE  Relied(p)'
      BY DEF PullsCovered
    <2>6. pull'[p] = pull[p] /\ ~Ages(c, p)
      <3>1. pull'[p] = IF Ages(c, p) THEN [pull[p] EXCEPT !.settled = FALSE] ELSE pull[p]
        BY <1>4 DEF WriteManifestUnder
      <3>2. Ages(c, p) => pull[p] \in Pull
        BY <1>types DEF Ages
      <3>3. Ages(c, p) => ~pull'[p].settled
        BY <3>1, <3>2 DEF Pull
      <3> QED
        BY <3>1, <3>3 DEF Protected
    <2>7. Relied(p) /\ pull[p] # Absent
      BY <1>0, <2>1, <2>6 DEF PullsCovered, Protected, Expired
    <2>8. copy[c].slot = pull[p].slot /\ copy[c].image = pull[p].entry.image
            => copy[c].entry.created >= pull[p].entry.created
      BY <1>types, <2>2, <2>6, <2>7 DEF Ages, Entry
    <2>9. Covers(pull[p].slot, pull[p].entry)'
      <3>1. CASE copy[c].slot = pull[p].slot /\ copy[c].image = pull[p].entry.image
        BY <3>1, <1>types, <2>3, <2>5, <2>6, <2>7, <2>8 DEF Covers, Stored
      <3>2. CASE ~(copy[c].slot = pull[p].slot /\ copy[c].image = pull[p].entry.image)
        BY <3>2, <1>types, <2>5, <2>6, <2>7 DEF Relied, Covers, Stored
      <3> QED
        BY <3>1, <3>2
    <2> QED
      BY <2>1, <2>6, <2>7, <2>9 DEF Relied
  <1>5. ASSUME NEW c \in Copies, UNCHANGED pull,
               \/ \E s \in Slots, i \in Images, t \in Tags : BeginCopy(c, s, i, t)
               \/ \E b \in Blobs : PutBlob(c, b)
               \/ FailCopy(c)
               \/ StampManifest(c)
               \/ ReadForTag(c)
        PROVE  PullsCovered'
    <2>1. UNCHANGED <<manifests, doomed, now>> /\ blobs \subseteq blobs'
      BY <1>5 DEF BeginCopy, PutBlob, Put, FailCopy, StampManifest, ReadForTag
    <2> QED
      BY <1>0, <1>5, <2>1, ReliedStays DEF TypeOK
  <1>6. ASSUME NEW c \in Copies, UNCHANGED pull, WriteTag(c)
        PROVE  PullsCovered'
    <2>1. copy[c] \in Copy /\ copy[c].tag \in Tags /\ copy[c].slot \in Slots
      BY <1>0, <1>6 DEF WriteTag, TypeOK, Copy
    <2>2. \A s \in Slots, i \in Images : manifests'[s][i] = manifests[s][i]
      BY <1>0, <1>6, <2>1, NamesAssumption DEF WriteTag, WriteVariant, TypeOK, Names
    <2>3. UNCHANGED <<blobs, doomed, now>>
      BY <1>6 DEF WriteTag
    <2> QED
      BY <1>0, <1>6, <2>2, <2>3, ReliedStays DEF TypeOK
  <1>7. ASSUME UNCHANGED pull, Sweep
        PROVE  PullsCovered'
    <2> SUFFICES ASSUME NEW p \in Pulls, pull[p] # Absent, Protected(p)'
                 PROVE  Relied(p)'
      BY <1>7 DEF PullsCovered
    <2> DEFINE s == pull[p].slot
               i == pull[p].entry.image
    <2>1. UNCHANGED <<blobs, now>> /\ doomed = {}
      BY <1>7 DEF Sweep
    <2>2. Protected(p)
      BY <1>7, <2>1 DEF Protected, Expired
    <2>3. Relied(p)
      BY <1>0, <2>2 DEF PullsCovered
    <2>4. /\ s \in Slots /\ i \in Names /\ i \in Images
          /\ manifests[s][i] # Absent /\ manifests[s][i] \in Entry
          /\ manifests[s][i].created >= pull[p].entry.created
      BY <1>0, <1>types, <2>3 DEF Relied, Covers, Stored, TypeOK, Names
    <2>5. ~Expired(manifests[s][i])
      BY <1>0, <1>types, <2>2, <2>4, TimeAssumption DEF Protected, Expired, TypeOK, Entry
    <2>6. manifests'[s][i] = manifests[s][i]
      BY <1>7, <2>4, <2>5 DEF Sweep
    <2>7. manifests[s][i].refs = RefsOf[i]
      BY <1>0, <2>4 DEF ContentAddressed, Stored
    <2>8. RefsOf[i] \cap Blobs \subseteq RefsInUse
      BY <2>4, <2>5, <2>7 DEF RefsInUse, Stored
    <2>9. RefsOf[i] \cap doomed' = {}
      BY <1>7, <2>8 DEF Sweep, RefsToDelete
    <2> QED
      BY <1>7, <2>1, <2>3, <2>4, <2>6, <2>9 DEF Relied, Covers, Stored
  <1>8. ASSUME NEW b \in Blobs, UNCHANGED pull, DeleteBlob(b)
        PROVE  PullsCovered'
    <2>1. UNCHANGED <<manifests, now>> /\ blobs' \ doomed' = blobs \ doomed
      BY <1>8 DEF DeleteBlob, Delete
    <2> QED
      BY <1>0, <1>8, <2>1, ReliedStays DEF TypeOK
  <1>9. ASSUME UNCHANGED pull, Tick
        PROVE  PullsCovered'
    BY <1>0, <1>9, ReliedStays DEF Tick, TypeOK
  <1> QED
    BY <1>1, <1>2, <1>3, <1>4, <1>5, <1>6, <1>7, <1>8, <1>9 DEF PullNext, StoreStep

LEMMA PullInitially == Init /\ PullInit => PullInv
  BY CleanInit DEF PullInit, PullInv, PullTypeOK, PullsCovered

LEMMA PullInvStep == PullInv /\ [PullNext]_pullvars => PullInv'
  <1> SUFFICES ASSUME PullInv, [PullNext]_pullvars PROVE PullInv'
    OBVIOUS
  <1>1. CleanInv'
    BY PullStepImplementsStore, CleanStep DEF PullInv
  <1>2. PullTypeOK'
    BY PullTypeStep DEF PullInv, CleanInv, ContentInv, TypeInv
  <1> QED
    BY <1>1, <1>2, PullsCoveredStep DEF PullInv

\* Every pull keeps its type.
THEOREM PullsTypeCorrect == PullSpec => []PullTypeOK
  <1>1. PullInv => PullTypeOK
    BY DEF PullInv
  <1> QED
    BY <1>1, PullInitially, PullInvStep, PTL DEF PullSpec

\* A client that resolved a tag finds the manifest and its blobs until they
\* expire, unless a cleanup interfered with the copy that made the manifest
\* (`clean`), or a copy of the same image that took its time earlier replaced
\* the digest entry since (`settled`): for any number of clients, copies,
\* slots, tags and images, those are the only ways to cut a pull off
\* (blobs.go Handle and manifest.go Handle against cleanupExpired).
THEOREM PullsAreServed == PullSpec => []PullsFindTheirBlobs
  <1>1. PullInv => PullsFindTheirBlobs
    BY DEF PullInv, PullsCovered, PullsFindTheirBlobs, Relied, Covers
  <1> QED
    BY <1>1, PullInitially, PullInvStep, PTL DEF PullSpec
=============================================================================
