------------------------- MODULE ManifestStoreProofs -------------------------
(***************************************************************************)
(* Theorems about ManifestStore, for any slots, images, blobs, number of   *)
(* copies, TTL and clock bound.                                            *)
(*                                                                         *)
(* Inv is the inductive invariant.  CleanManifestsComplete is not          *)
(* inductive: writing an entry makes it complete only if the copy that     *)
(* writes it has put every blob (CopiesFaithful) and no cleanup has doomed *)
(* one of them meanwhile (CleanCopiesUntouched).  BlobsAccountedFor is not *)
(* either: a copy that ends must leave its blobs to the entry it wrote,    *)
(* so only copies that have written nothing yet may hold one (BlobsHeld).  *)
(***************************************************************************)
EXTENDS ManifestStore, TLAPS

-----------------------------------------------------------------------------
(* The inductive invariant                                                 *)

Running(c) == copy[c] # Absent

\* A copy holds an entry exactly where it is about to write one.
EntryHeld ==
    \A c \in Copies :
        Running(c) /\ copy[c].stage \in {"stamped", "tagging"}
            => copy[c].entry \in Entry

\* What a copy has put, and the entry it holds, belong to its image.
CopiesFaithful ==
    \A c \in Copies :
        Running(c) =>
            /\ copy[c].refs \subseteq RefsOf[copy[c].image]
            /\ copy[c].stage # "blobs" => copy[c].refs = RefsOf[copy[c].image]
            /\ copy[c].stage \in {"stamped", "tagging"} =>
                 /\ copy[c].entry.image = copy[c].image
                 /\ copy[c].entry.refs = RefsOf[copy[c].image]

\* No cleanup touches the blobs of a clean copy.
CleanCopiesUntouched ==
    \A c \in Copies :
        Running(c) /\ copy[c].clean =>
            /\ copy[c].refs \subseteq blobs
            /\ RefsOf[copy[c].image] \cap doomed = {}

\* A copy holds a blob on its own only until it has written the manifest.
Unwritten(c) == Running(c) /\ copy[c].stage \in {"blobs", "stamped"}
BlobsHeld ==
    \A b \in blobs \ orphans :
        \/ Referenced(b)
        \/ b \in doomed
        \/ \E c \in Copies : Unwritten(c) /\ b \in copy[c].refs

TypeInv == TypeOK /\ EntryHeld
ContentInv == TypeInv /\ ContentAddressed /\ CopiesFaithful
CleanInv == ContentInv /\ CleanManifestsComplete /\ CleanCopiesUntouched

-----------------------------------------------------------------------------
(* Types                                                                   *)

\* What WriteVariant stores: the entry of the copy, its history apart.
LEMMA HeldEntry ==
    ASSUME NEW cp \in Copy, cp.entry \in Entry
    PROVE  /\ Held(cp) \in Entry
           /\ Held(cp).image = cp.entry.image
           /\ Held(cp).refs = cp.entry.refs
           /\ Held(cp).clean => cp.clean
  <1>1. cp.clean \in BOOLEAN /\ cp.entry.clean \in BOOLEAN
    BY DEF Copy, Entry
  <1> QED
    BY <1>1 DEF Held, Entry

\* Absent is neither an entry nor a copy, whatever the instance.
LEMMA TypeInit == Init => TypeInv
  BY DEF Init, TypeInv, TypeOK, EntryHeld, Running

LEMMA TypeStep == TypeInv /\ [Next]_vars => TypeInv'
  <1> SUFFICES ASSUME TypeInv, [Next]_vars PROVE TypeInv'
    OBVIOUS
  <1> USE RefsAssumption, AbsentAssumption DEF TypeInv, TypeOK, EntryHeld, Running
  <1>1. ASSUME NEW c \in Copies, NEW s \in Slots, NEW i \in Images,
               NEW t \in Tags, BeginCopy(c, s, i, t)
        PROVE  TypeInv'
    <2> DEFINE new == [stage |-> "blobs", slot |-> s, image |-> i, tag |-> t,
                       refs |-> {}, entry |-> Absent,
                       clean |-> doomed \cap RefsOf[i] = {}]
    <2>1. new \in Copy
      BY DEF Copy, Stages
    <2>2. copy' = [copy EXCEPT ![c] = new]
      BY <1>1 DEF BeginCopy
    <2> HIDE DEF new
    <2>3. copy' \in [Copies -> Copy \cup {Absent}]
      BY <2>1, <2>2
    <2>4. new.stage = "blobs"
      BY DEF new
    <2> QED
      BY <1>1, <2>2, <2>3, <2>4 DEF BeginCopy
  <1>2. ASSUME NEW c \in Copies, NEW b \in Blobs, PutBlob(c, b)
        PROVE  TypeInv'
    BY <1>2 DEF PutBlob, Put, Copy, Stages
  <1>3. ASSUME NEW c \in Copies, FailCopy(c)
        PROVE  TypeInv'
    BY <1>3 DEF FailCopy, Copy
  <1>4. ASSUME NEW c \in Copies, StampManifest(c)
        PROVE  TypeInv'
    <2>1. copy[c] \in Copy
      BY <1>4 DEF StampManifest
    <2>2. NewManifest(copy[c]) \in Entry
      BY <2>1 DEF NewManifest, Entry, Copy
    <2>3. [copy[c] EXCEPT !.stage = "stamped", !.entry = NewManifest(copy[c])] \in Copy
      BY <2>1, <2>2 DEF Copy, Stages
    <2> QED
      BY <1>4, <2>1, <2>2, <2>3 DEF StampManifest, Copy
  <1>5. ASSUME NEW c \in Copies, WriteManifest(c)
        PROVE  TypeInv'
    <2>1. /\ copy[c] \in Copy
          /\ copy[c].entry \in Entry
          /\ copy[c].slot \in Slots
          /\ copy[c].image \in Names
      BY <1>5 DEF WriteManifest, Copy, Names
    <2>2. Held(copy[c]) \in Entry
      BY <2>1, HeldEntry
    <2>3. manifests' \in [Slots -> [Names -> Entry \cup {Absent}]]
      BY <1>5, <2>1, <2>2 DEF WriteManifest, WriteVariant
    <2> QED
      BY <1>5, <2>1, <2>3 DEF WriteManifest, Copy, Stages
  <1>6. ASSUME NEW c \in Copies, ReadForTag(c)
        PROVE  TypeInv'
    <2>1. copy[c] \in Copy
      BY <1>6 DEF ReadForTag
    <2>2. manifests[copy[c].slot][copy[c].image] \in Entry \cup {Absent}
      BY <2>1 DEF Copy, Names
    <2> QED
      BY <1>6, <2>1, <2>2 DEF ReadForTag, Copy, Stages
  <1>7. ASSUME NEW c \in Copies, WriteTag(c)
        PROVE  TypeInv'
    <2>1. /\ copy[c] \in Copy
          /\ copy[c].entry \in Entry
          /\ copy[c].slot \in Slots
          /\ copy[c].tag \in Names
      BY <1>7 DEF WriteTag, Copy, Names
    <2>2. Held(copy[c]) \in Entry
      BY <2>1, HeldEntry
    <2>3. manifests' \in [Slots -> [Names -> Entry \cup {Absent}]]
      BY <1>7, <2>1, <2>2 DEF WriteTag, WriteVariant
    <2>4. LeftByTag(copy[c].slot, copy[c].tag, copy[c].image) \subseteq Blobs
      BY <2>1 DEF LeftByTag, Copy, Entry, Names
    <2> QED
      BY <1>7, <2>3, <2>4 DEF WriteTag
  <1>8. CASE Sweep
    <2>1. manifests' \in [Slots -> [Names -> Entry \cup {Absent}]]
      BY <1>8 DEF Sweep
    <2>2. doomed' \in SUBSET Blobs
      BY <1>8 DEF Sweep, RefsToDelete
    <2>3. ASSUME NEW c \in Copies, Running(c)
          PROVE  /\ copy'[c] \in Copy
                 /\ copy'[c].stage = copy[c].stage
                 /\ copy'[c].entry = copy[c].entry
      BY <1>8, <2>3 DEF Sweep, Copy
    <2>4. copy' \in [Copies -> Copy \cup {Absent}]
      BY <1>8, <2>3 DEF Sweep
    <2>5. ASSUME NEW c \in Copies, ~Running(c)
          PROVE  copy'[c] = Absent
      BY <1>8, <2>5 DEF Sweep
    <2> QED
      BY <1>8, <2>1, <2>2, <2>3, <2>4, <2>5 DEF Sweep
  <1>9. ASSUME NEW b \in Blobs, DeleteBlob(b)
        PROVE  TypeInv'
    BY <1>9 DEF DeleteBlob, Delete
  <1>10. CASE Tick
    BY <1>10 DEF Tick
  <1>11. CASE UNCHANGED vars
    BY <1>11 DEF vars
  <1> QED
    BY <1>1, <1>2, <1>3, <1>4, <1>5, <1>6, <1>7, <1>8, <1>9, <1>10, <1>11
    DEF Next, CopyStep

\* Every variable keeps its shape, and a copy about to write holds an entry
\* (Push and Tag of internal/manifest/dst.go).
THEOREM TypeCorrect == Spec => []TypeOK
  <1>1. Spec => []TypeInv
    BY TypeInit, TypeStep, PTL DEF Spec
  <1>2. TypeInv => TypeOK
    BY DEF TypeInv
  <1> QED
    BY <1>1, <1>2, PTL

-----------------------------------------------------------------------------
(* Content                                                                 *)

LEMMA ContentInit == Init => ContentInv
  BY TypeInit DEF Init, ContentInv, ContentAddressed, CopiesFaithful, Stored, Running

\* Writing the entry a copy holds, under a name that is no other image's.
LEMMA WriteKeepsContent ==
    ASSUME ContentInv, NEW c \in Copies, NEW n \in Names,
           Running(c), copy[c].stage \in {"stamped", "tagging"},
           n \in Images => n = copy[c].image,
           WriteVariant(copy[c], n)
    PROVE  /\ ContentAddressed'
           /\ copy[c] \in Copy
           /\ Held(copy[c]) \in Entry
           /\ Held(copy[c]).refs = RefsOf[copy[c].image]
           /\ Held(copy[c]).image = copy[c].image
           /\ Held(copy[c]).clean => copy[c].clean
           /\ manifests' = [manifests EXCEPT ![copy[c].slot][n] = Held(copy[c])]
  <1>1. copy[c] \in Copy /\ copy[c].entry \in Entry /\ copy[c].slot \in Slots
    BY DEF ContentInv, TypeInv, TypeOK, EntryHeld, Running, Copy
  <1>2. /\ Held(copy[c]) \in Entry
        /\ Held(copy[c]).image = copy[c].entry.image
        /\ Held(copy[c]).refs = copy[c].entry.refs
        /\ Held(copy[c]).clean => copy[c].clean
    BY <1>1, HeldEntry
  <1>3. copy[c].entry.image = copy[c].image /\ copy[c].entry.refs = RefsOf[copy[c].image]
    BY DEF ContentInv, CopiesFaithful
  <1>4. manifests' = [manifests EXCEPT ![copy[c].slot][n] = Held(copy[c])]
    BY DEF WriteVariant
  <1>5. manifests \in [Slots -> [Names -> Entry \cup {Absent}]]
    BY DEF ContentInv, TypeInv, TypeOK
  <1>6. \A s \in Slots, m \in Names :
           manifests'[s][m] = IF s = copy[c].slot /\ m = n
                              THEN Held(copy[c]) ELSE manifests[s][m]
    BY <1>1, <1>4, <1>5
  <1>7. ContentAddressed'
    BY <1>2, <1>3, <1>6 DEF ContentInv, ContentAddressed, Stored
  <1> QED
    BY <1>1, <1>2, <1>3, <1>4, <1>7

LEMMA ContentStep == ContentInv /\ [Next]_vars => ContentInv'
  <1> SUFFICES ASSUME ContentInv, [Next]_vars PROVE ContentAddressed' /\ CopiesFaithful'
    BY TypeStep DEF ContentInv
  <1>0. TypeOK /\ ContentAddressed /\ CopiesFaithful
    BY DEF ContentInv, TypeInv
  <1>1. ASSUME NEW c \in Copies, NEW s \in Slots, NEW i \in Images,
               NEW t \in Tags, BeginCopy(c, s, i, t)
        PROVE  ContentAddressed' /\ CopiesFaithful'
    <2> DEFINE new == [stage |-> "blobs", slot |-> s, image |-> i, tag |-> t,
                       refs |-> {}, entry |-> Absent,
                       clean |-> doomed \cap RefsOf[i] = {}]
    <2>1. copy' = [copy EXCEPT ![c] = new] /\ manifests' = manifests
      BY <1>1 DEF BeginCopy
    <2>2. new.refs = {} /\ new.stage = "blobs"
      OBVIOUS
    <2> HIDE DEF new
    <2> QED
      BY <1>0, <2>1, <2>2 DEF TypeOK, ContentAddressed, CopiesFaithful, Stored, Running
  <1>2. ASSUME NEW c \in Copies, NEW b \in Blobs, PutBlob(c, b)
        PROVE  ContentAddressed' /\ CopiesFaithful'
    <2>1. manifests' = manifests /\ Running(c) /\ copy[c].stage = "blobs"
          /\ b \in RefsOf[copy[c].image]
      BY <1>2 DEF PutBlob, Put, Running
    <2>2. copy[c] \in Copy
      BY <1>0, <2>1 DEF TypeOK, Running
    <2>3. copy' = [copy EXCEPT ![c] = [copy[c] EXCEPT !.refs = @ \cup {b}]]
      BY <1>0, <1>2 DEF PutBlob, Put, TypeOK
    <2> DEFINE new == [copy[c] EXCEPT !.refs = @ \cup {b}]
    <2>4. /\ new.refs = copy[c].refs \cup {b}
          /\ new.image = copy[c].image
          /\ new.stage = "blobs"
      BY <2>1, <2>2 DEF Copy
    <2> HIDE DEF new
    <2>5. copy' = [copy EXCEPT ![c] = new]
      BY <2>3 DEF new
    <2> QED
      BY <1>0, <2>1, <2>4, <2>5
      DEF TypeOK, ContentAddressed, CopiesFaithful, Stored, Running
  <1>3. ASSUME NEW c \in Copies, FailCopy(c)
        PROVE  ContentAddressed' /\ CopiesFaithful'
    BY <1>0, <1>3
    DEF FailCopy, TypeOK, ContentAddressed, CopiesFaithful, Stored, Running
  <1>4. ASSUME NEW c \in Copies, StampManifest(c)
        PROVE  ContentAddressed' /\ CopiesFaithful'
    <2>1. /\ manifests' = manifests
          /\ Running(c)
          /\ copy[c].refs = RefsOf[copy[c].image]
      BY <1>0, <1>4 DEF StampManifest, Running, TypeOK
    <2> DEFINE new == [copy[c] EXCEPT !.stage = "stamped",
                                      !.entry = NewManifest(copy[c])]
    <2>2. /\ new.image = copy[c].image
          /\ new.refs = copy[c].refs
          /\ new.entry.image = copy[c].image
          /\ new.entry.refs = copy[c].refs
      BY <1>0, <2>1 DEF NewManifest, TypeOK, Running, Copy
    <2>3. copy' = [copy EXCEPT ![c] = new]
      BY <1>0, <1>4 DEF StampManifest, TypeOK
    <2> HIDE DEF new
    <2> QED
      BY <1>0, <2>1, <2>2, <2>3
      DEF TypeOK, ContentAddressed, CopiesFaithful, Stored, Running
  <1>5. ASSUME NEW c \in Copies, WriteManifest(c)
        PROVE  ContentAddressed' /\ CopiesFaithful'
    <2>1. Running(c) /\ copy[c].stage = "stamped" /\ copy[c] \in Copy
      BY <1>0, <1>5 DEF WriteManifest, Running, TypeOK
    <2>2. ContentAddressed'
      BY <1>5, <2>1, WriteKeepsContent DEF WriteManifest, Copy, Names
    <2>3. CopiesFaithful'
      BY <1>0, <1>5, <2>1 DEF WriteManifest, TypeOK, CopiesFaithful, Running, Copy
    <2> QED
      BY <2>2, <2>3
  <1>6. ASSUME NEW c \in Copies, ReadForTag(c)
        PROVE  ContentAddressed' /\ CopiesFaithful'
    <2> DEFINE hm == manifests[copy[c].slot][copy[c].image]
    <2>1. /\ manifests' = manifests
          /\ Running(c)
          /\ copy[c] \in Copy
          /\ copy[c].stage = "written"
      BY <1>0, <1>6 DEF ReadForTag, Running, TypeOK
    <2>2. hm # Absent => hm.image = copy[c].image /\ hm.refs = RefsOf[copy[c].image]
      BY <1>0, <2>1 DEF ContentAddressed, Stored, Names, Copy
    <2>3. CASE hm # Absent
      <3>1. copy' = [copy EXCEPT ![c].stage = "tagging", ![c].entry = hm]
        BY <1>6, <2>3 DEF ReadForTag
      <3> HIDE DEF hm
      <3> QED
        BY <1>0, <2>1, <2>2, <2>3, <3>1
        DEF TypeOK, ContentAddressed, CopiesFaithful, Stored, Running, Copy
    <2>4. CASE hm = Absent
      <3>1. copy' = [copy EXCEPT ![c] = Absent]
        BY <1>6, <2>4 DEF ReadForTag
      <3> QED
        BY <1>0, <2>1, <3>1
        DEF TypeOK, ContentAddressed, CopiesFaithful, Stored, Running
    <2> QED
      BY <2>3, <2>4
  <1>7. ASSUME NEW c \in Copies, WriteTag(c)
        PROVE  ContentAddressed' /\ CopiesFaithful'
    <2>1. Running(c) /\ copy[c].stage = "tagging" /\ copy[c] \in Copy
      BY <1>0, <1>7 DEF WriteTag, Running, TypeOK
    <2>2. copy[c].tag \in Names /\ copy[c].tag \notin Images
      BY <2>1, NamesAssumption DEF Copy, Names
    <2>3. ContentAddressed'
      BY <1>7, <2>1, <2>2, WriteKeepsContent DEF WriteTag
    <2>4. CopiesFaithful'
      BY <1>0, <1>7 DEF WriteTag, TypeOK, CopiesFaithful, Running
    <2> QED
      BY <2>3, <2>4
  <1>8. CASE Sweep
    <2>1. ContentAddressed'
      BY <1>0, <1>8 DEF Sweep, ContentAddressed, Stored
    <2>2. \A c \in Copies : Running(c) =>
             /\ copy'[c].refs = copy[c].refs
             /\ copy'[c].image = copy[c].image
             /\ copy'[c].stage = copy[c].stage
             /\ copy'[c].entry = copy[c].entry
      BY <1>0, <1>8 DEF Sweep, TypeOK, Running, Copy
    <2>3. \A c \in Copies : copy'[c] # Absent => Running(c)
      BY <1>8 DEF Sweep, Running
    <2> QED
      BY <1>0, <2>1, <2>2, <2>3 DEF CopiesFaithful, Running
  <1>9. ASSUME NEW b \in Blobs, DeleteBlob(b)
        PROVE  ContentAddressed' /\ CopiesFaithful'
    BY <1>0, <1>9 DEF DeleteBlob, Delete, ContentAddressed, CopiesFaithful, Stored, Running
  <1>10. CASE Tick
    BY <1>0, <1>10 DEF Tick, ContentAddressed, CopiesFaithful, Stored, Running
  <1>11. CASE UNCHANGED vars
    BY <1>0, <1>11 DEF vars, ContentAddressed, CopiesFaithful, Stored, Running
  <1> QED
    BY <1>1, <1>2, <1>3, <1>4, <1>5, <1>6, <1>7, <1>8, <1>9, <1>10, <1>11
    DEF Next, CopyStep

\* An entry stored under a digest is that image, and every entry lists exactly
\* the blobs of its image (Push and Tag of internal/manifest/dst.go).
THEOREM EntriesAreContentAddressed == Spec => []ContentAddressed
  <1>1. Spec => []ContentInv
    BY ContentInit, ContentStep, PTL DEF Spec
  <1>2. ContentInv => ContentAddressed
    BY DEF ContentInv
  <1> QED
    BY <1>1, <1>2, PTL

-----------------------------------------------------------------------------
(* Completeness of the entries no cleanup interfered with                  *)

LEMMA CleanInit == Init => CleanInv
  BY ContentInit
  DEF Init, CleanInv, CleanManifestsComplete, CleanCopiesUntouched, Stored, Running

\* An entry written by a clean copy is complete, the others are untouched.
LEMMA WriteKeepsComplete ==
    ASSUME CleanInv, NEW c \in Copies, NEW n \in Names,
           Running(c), copy[c].stage \in {"stamped", "tagging"},
           n \in Images => n = copy[c].image,
           WriteVariant(copy[c], n),
           UNCHANGED <<blobs, doomed>>
    PROVE  CleanManifestsComplete'
  <1>1. /\ Held(copy[c]).refs = RefsOf[copy[c].image]
        /\ Held(copy[c]).clean => copy[c].clean
        /\ copy[c] \in Copy
        /\ manifests' = [manifests EXCEPT ![copy[c].slot][n] = Held(copy[c])]
    BY WriteKeepsContent DEF CleanInv
  <1>2. manifests \in [Slots -> [Names -> Entry \cup {Absent}]]
    BY DEF CleanInv, ContentInv, TypeInv, TypeOK
  <1>3. copy[c].clean => Complete(Held(copy[c]))
    BY <1>1 DEF CleanInv, CleanCopiesUntouched, Complete, ContentInv, CopiesFaithful
  <1>4. \A s \in Slots, m \in Names :
           manifests'[s][m] = IF s = copy[c].slot /\ m = n
                              THEN Held(copy[c]) ELSE manifests[s][m]
    BY <1>1, <1>2 DEF Copy
  <1>5. CleanManifestsComplete
    BY DEF CleanInv
  <1>6. ASSUME NEW s \in Slots, NEW m \in Names,
               manifests'[s][m] # Absent, manifests'[s][m].clean
        PROVE  Complete(manifests'[s][m])
    BY <1>1, <1>3, <1>4, <1>5, <1>6 DEF CleanManifestsComplete, Stored
  <1> QED
    BY <1>6 DEF CleanManifestsComplete, Stored, Complete

LEMMA CleanStep == CleanInv /\ [Next]_vars => CleanInv'
  <1> SUFFICES ASSUME CleanInv, [Next]_vars
               PROVE  CleanManifestsComplete' /\ CleanCopiesUntouched'
    BY ContentStep DEF CleanInv
  <1>0. /\ TypeOK /\ ContentAddressed /\ CopiesFaithful
        /\ CleanManifestsComplete /\ CleanCopiesUntouched
    BY DEF CleanInv, ContentInv, TypeInv
  <1> USE DEF Running
  <1>1. ASSUME NEW c \in Copies, NEW s \in Slots, NEW i \in Images,
               NEW t \in Tags, BeginCopy(c, s, i, t)
        PROVE  CleanManifestsComplete' /\ CleanCopiesUntouched'
    <2> DEFINE new == [stage |-> "blobs", slot |-> s, image |-> i, tag |-> t,
                       refs |-> {}, entry |-> Absent,
                       clean |-> doomed \cap RefsOf[i] = {}]
    <2>1. copy' = [copy EXCEPT ![c] = new] /\ UNCHANGED <<manifests, blobs, doomed>>
      BY <1>1 DEF BeginCopy
    <2>2. /\ new.refs = {}
          /\ new.image = i
          /\ new.clean => RefsOf[i] \cap doomed = {}
      OBVIOUS
    <2> HIDE DEF new
    <2>3. CleanCopiesUntouched'
      BY <1>0, <2>1, <2>2 DEF TypeOK, CleanCopiesUntouched
    <2>4. CleanManifestsComplete'
      BY <1>0, <2>1 DEF CleanManifestsComplete, Stored, Complete
    <2> QED
      BY <2>3, <2>4
  <1>2. ASSUME NEW c \in Copies, NEW b \in Blobs, PutBlob(c, b)
        PROVE  CleanManifestsComplete' /\ CleanCopiesUntouched'
    <2>1. /\ copy[c] # Absent
          /\ copy[c] \in Copy
          /\ blobs' = blobs \cup {b}
          /\ UNCHANGED <<manifests, doomed>>
      BY <1>0, <1>2 DEF PutBlob, Put, TypeOK
    <2> DEFINE new == [copy[c] EXCEPT !.refs = @ \cup {b}]
    <2>2. /\ new.refs = copy[c].refs \cup {b}
          /\ new.image = copy[c].image
          /\ new.clean = copy[c].clean
      BY <2>1 DEF Copy
    <2>3. copy' = [copy EXCEPT ![c] = new]
      BY <1>0, <1>2 DEF PutBlob, Put, TypeOK
    <2> HIDE DEF new
    <2>4. CleanCopiesUntouched'
      BY <1>0, <2>1, <2>2, <2>3 DEF TypeOK, CleanCopiesUntouched
    <2>5. CleanManifestsComplete'
      BY <1>0, <2>1 DEF CleanManifestsComplete, Stored, Complete
    <2> QED
      BY <2>4, <2>5
  <1>3. ASSUME NEW c \in Copies, FailCopy(c)
        PROVE  CleanManifestsComplete' /\ CleanCopiesUntouched'
    BY <1>0, <1>3
    DEF FailCopy, TypeOK, CleanManifestsComplete, CleanCopiesUntouched, Stored, Complete
  <1>4. ASSUME NEW c \in Copies, StampManifest(c)
        PROVE  CleanManifestsComplete' /\ CleanCopiesUntouched'
    <2>1. /\ copy[c] # Absent
          /\ copy[c] \in Copy
          /\ UNCHANGED <<manifests, blobs, doomed>>
      BY <1>0, <1>4 DEF StampManifest, TypeOK
    <2> DEFINE new == [copy[c] EXCEPT !.stage = "stamped",
                                      !.entry = NewManifest(copy[c])]
    <2>2. /\ new.refs = copy[c].refs
          /\ new.image = copy[c].image
          /\ new.clean = copy[c].clean
      BY <2>1 DEF Copy
    <2>3. copy' = [copy EXCEPT ![c] = new]
      BY <1>0, <1>4 DEF StampManifest, TypeOK
    <2> HIDE DEF new
    <2>4. CleanCopiesUntouched'
      BY <1>0, <2>1, <2>2, <2>3 DEF TypeOK, CleanCopiesUntouched
    <2>5. CleanManifestsComplete'
      BY <1>0, <2>1 DEF CleanManifestsComplete, Stored, Complete
    <2> QED
      BY <2>4, <2>5
  <1>5. ASSUME NEW c \in Copies, WriteManifest(c)
        PROVE  CleanManifestsComplete' /\ CleanCopiesUntouched'
    <2>1. /\ copy[c] # Absent
          /\ copy[c].stage = "stamped"
          /\ copy[c] \in Copy
          /\ UNCHANGED <<blobs, doomed>>
      BY <1>0, <1>5 DEF WriteManifest, TypeOK
    <2>2. CleanManifestsComplete'
      BY <1>5, <2>1, WriteKeepsComplete DEF WriteManifest, Copy, Names
    <2>3. CleanCopiesUntouched'
      BY <1>0, <1>5, <2>1 DEF WriteManifest, TypeOK, CleanCopiesUntouched, Copy
    <2> QED
      BY <2>2, <2>3
  <1>6. ASSUME NEW c \in Copies, ReadForTag(c)
        PROVE  CleanManifestsComplete' /\ CleanCopiesUntouched'
    <2>1. copy[c] \in Copy /\ UNCHANGED <<manifests, blobs, doomed>>
      BY <1>0, <1>6 DEF ReadForTag, TypeOK
    <2>2. CleanManifestsComplete'
      BY <1>0, <2>1 DEF CleanManifestsComplete, Stored, Complete
    <2>3. CleanCopiesUntouched'
      BY <1>0, <1>6, <2>1 DEF ReadForTag, TypeOK, CleanCopiesUntouched, Copy
    <2> QED
      BY <2>2, <2>3
  <1>7. ASSUME NEW c \in Copies, WriteTag(c)
        PROVE  CleanManifestsComplete' /\ CleanCopiesUntouched'
    <2>1. /\ copy[c] # Absent
          /\ copy[c].stage = "tagging"
          /\ copy[c] \in Copy
          /\ UNCHANGED <<blobs, doomed>>
      BY <1>0, <1>7 DEF WriteTag, TypeOK
    <2>2. copy[c].tag \in Names /\ copy[c].tag \notin Images
      BY <2>1, NamesAssumption DEF Copy, Names
    <2>3. CleanManifestsComplete'
      BY <1>7, <2>1, <2>2, WriteKeepsComplete DEF WriteTag
    <2>4. CleanCopiesUntouched'
      BY <1>0, <1>7, <2>1 DEF WriteTag, TypeOK, CleanCopiesUntouched
    <2> QED
      BY <2>3, <2>4
  <1>8. CASE Sweep
    <2>1. ASSUME NEW s \in Slots, NEW n \in Names, manifests'[s][n] # Absent
          PROVE  /\ manifests'[s][n] = manifests[s][n]
                 /\ manifests[s][n] \in Entry
                 /\ manifests[s][n].refs \cap doomed' = {}
      <3>1. /\ manifests'[s][n] = manifests[s][n]
            /\ Stored(s, n)
            /\ ~Expired(manifests[s][n])
        BY <1>8, <2>1 DEF Sweep, Stored
      <3>2. manifests[s][n] \in Entry
        BY <1>0, <3>1 DEF TypeOK, Stored
      <3>3. manifests[s][n].refs \subseteq RefsInUse
        BY <3>1, <3>2 DEF RefsInUse, Entry
      <3> QED
        BY <1>8, <3>1, <3>2, <3>3 DEF Sweep
    <2>2. CleanManifestsComplete'
      BY <1>0, <1>8, <2>1 DEF CleanManifestsComplete, Stored, Complete, Sweep
    <2>3. ASSUME NEW c \in Copies, copy'[c] # Absent
          PROVE  /\ copy[c] # Absent
                 /\ copy'[c].refs = copy[c].refs
                 /\ copy'[c].image = copy[c].image
                 /\ copy'[c].clean =>
                       copy[c].clean /\ doomed' \cap RefsOf[copy[c].image] = {}
      <3>1. copy[c] # Absent /\ copy[c] \in Copy
        BY <1>0, <1>8, <2>3 DEF Sweep, TypeOK
      <3> DEFINE untouched == copy[c].clean /\ doomed' \cap RefsOf[copy[c].image] = {}
      <3>2. copy'[c] = [copy[c] EXCEPT !.clean = untouched]
        BY <1>8, <3>1 DEF Sweep
      <3>3. copy'[c].clean = untouched
        BY <3>1, <3>2 DEF Copy
      <3> QED
        BY <3>1, <3>2, <3>3 DEF Copy
    <2>4. CleanCopiesUntouched'
      BY <1>0, <1>8, <2>3 DEF CleanCopiesUntouched, Sweep
    <2> QED
      BY <2>2, <2>4
  <1>9. ASSUME NEW b \in Blobs, DeleteBlob(b)
        PROVE  CleanManifestsComplete' /\ CleanCopiesUntouched'
    <2>1. CleanManifestsComplete'
      BY <1>0, <1>9 DEF DeleteBlob, Delete, CleanManifestsComplete, Stored, Complete
    <2>2. CleanCopiesUntouched'
      BY <1>0, <1>9 DEF DeleteBlob, Delete, CleanCopiesUntouched, CopiesFaithful
    <2> QED
      BY <2>1, <2>2
  <1>10. CASE Tick
    BY <1>0, <1>10
    DEF Tick, CleanManifestsComplete, CleanCopiesUntouched, Stored, Complete
  <1>11. CASE UNCHANGED vars
    BY <1>0, <1>11
    DEF vars, CleanManifestsComplete, CleanCopiesUntouched, Stored, Complete
  <1> QED
    BY <1>1, <1>2, <1>3, <1>4, <1>5, <1>6, <1>7, <1>8, <1>9, <1>10, <1>11
    DEF Next, CopyStep

\* A stored manifest whose copy no cleanup overlapped has all its blobs, and
\* keeps them: the reference counting of cleanupExpired is sound against
\* sharing, re-preparing and expiry (internal/manifest/manifest.go).
THEOREM CleanManifestsAreComplete == Spec => []CleanManifestsComplete
  <1>1. Spec => []CleanInv
    BY CleanInit, CleanStep, PTL DEF Spec
  <1>2. CleanInv => CleanManifestsComplete
    BY DEF CleanInv
  <1> QED
    BY <1>1, <1>2, PTL

-----------------------------------------------------------------------------
(* No blob leaks but the orphans                                           *)

HeldInv == ContentInv /\ BlobsHeld

LEMMA HeldInit == Init => HeldInv
  BY ContentInit DEF Init, HeldInv, BlobsHeld

\* Overwriting an entry loses no reference but those of another image.
LEMMA WriteKeepsReferences ==
    ASSUME ContentInv, NEW c \in Copies, NEW n \in Names,
           Running(c), copy[c].stage \in {"stamped", "tagging"},
           n \in Images => n = copy[c].image,
           WriteVariant(copy[c], n),
           NEW b,
           \/ b \in RefsOf[copy[c].image]
           \/ \E s \in Slots, m \in Names :
                /\ Stored(s, m) /\ b \in manifests[s][m].refs
                /\ ~(s = copy[c].slot /\ m = n)
    PROVE  Referenced(b)'
  <1>1. /\ Held(copy[c]) \in Entry
        /\ Held(copy[c]).refs = RefsOf[copy[c].image]
        /\ copy[c].slot \in Slots
        /\ manifests' = [manifests EXCEPT ![copy[c].slot][n] = Held(copy[c])]
    BY WriteKeepsContent DEF Copy
  <1>2. manifests \in [Slots -> [Names -> Entry \cup {Absent}]]
    BY DEF ContentInv, TypeInv, TypeOK
  <1>3. \A s \in Slots, m \in Names :
           manifests'[s][m] = IF s = copy[c].slot /\ m = n
                              THEN Held(copy[c]) ELSE manifests[s][m]
    BY <1>1, <1>2
  <1>4. Held(copy[c]) # Absent
    BY <1>1, AbsentAssumption
  <1> QED
    BY <1>1, <1>3, <1>4 DEF Referenced, Stored

LEMMA HeldStep == HeldInv /\ [Next]_vars => HeldInv'
  <1> SUFFICES ASSUME HeldInv, [Next]_vars PROVE BlobsHeld'
    BY ContentStep DEF HeldInv
  <1>0. ContentInv /\ TypeOK /\ ContentAddressed /\ CopiesFaithful /\ BlobsHeld
    BY DEF HeldInv, ContentInv, TypeInv
  <1> USE DEF Running, Unwritten
  <1>1. ASSUME NEW c \in Copies, NEW s \in Slots, NEW i \in Images,
               NEW t \in Tags, BeginCopy(c, s, i, t)
        PROVE  BlobsHeld'
    <2>1. /\ copy[c] = Absent
          /\ \A d \in Copies : d # c => copy'[d] = copy[d]
          /\ UNCHANGED <<manifests, blobs, doomed, orphans>>
      BY <1>0, <1>1 DEF BeginCopy, TypeOK
    <2> QED
      BY <1>0, <2>1 DEF BlobsHeld, Referenced, Stored
  <1>2. ASSUME NEW c \in Copies, NEW b \in Blobs, PutBlob(c, b)
        PROVE  BlobsHeld'
    <2>1. /\ copy[c] # Absent
          /\ copy[c] \in Copy
          /\ copy[c].stage = "blobs"
          /\ blobs' = blobs \cup {b}
          /\ UNCHANGED <<manifests, doomed, orphans>>
      BY <1>0, <1>2 DEF PutBlob, Put, TypeOK
    <2> DEFINE new == [copy[c] EXCEPT !.refs = @ \cup {b}]
    <2>2. new.refs = copy[c].refs \cup {b} /\ new.stage = "blobs"
      BY <2>1 DEF Copy
    <2>3. new # Absent
      BY <2>1, <2>2, AbsentAssumption, <1>0 DEF Copy, TypeOK
    <2>4. copy' = [copy EXCEPT ![c] = new]
      BY <1>0, <1>2 DEF PutBlob, Put, TypeOK
    <2> HIDE DEF new
    <2>5. copy'[c] = new /\ \A d \in Copies : d # c => copy'[d] = copy[d]
      BY <1>0, <2>4 DEF TypeOK
    <2> QED
      BY <1>0, <2>1, <2>2, <2>3, <2>5 DEF BlobsHeld, Referenced, Stored
  <1>3. ASSUME NEW c \in Copies, FailCopy(c)
        PROVE  BlobsHeld'
    <2>1. /\ orphans' = orphans \cup copy[c].refs
          /\ \A d \in Copies : d # c => copy'[d] = copy[d]
          /\ UNCHANGED <<manifests, blobs, doomed>>
      BY <1>0, <1>3 DEF FailCopy, TypeOK
    <2> QED
      BY <1>0, <2>1 DEF BlobsHeld, Referenced, Stored
  <1>4. ASSUME NEW c \in Copies, StampManifest(c)
        PROVE  BlobsHeld'
    <2>1. /\ copy[c] # Absent
          /\ copy[c] \in Copy
          /\ UNCHANGED <<manifests, blobs, doomed, orphans>>
      BY <1>0, <1>4 DEF StampManifest, TypeOK
    <2> DEFINE new == [copy[c] EXCEPT !.stage = "stamped",
                                      !.entry = NewManifest(copy[c])]
    <2>2. new.refs = copy[c].refs /\ new.stage = "stamped"
      BY <2>1 DEF Copy
    <2>3. new \in Copy
      <3>1. NewManifest(copy[c]) \in Entry
        BY <1>0, <2>1 DEF NewManifest, Entry, Copy, TypeOK
      <3> QED
        BY <2>1, <3>1 DEF Copy, Stages
    <2>4. copy' = [copy EXCEPT ![c] = new]
      BY <1>0, <1>4 DEF StampManifest, TypeOK
    <2> HIDE DEF new
    <2>5. copy'[c] = new /\ \A d \in Copies : d # c => copy'[d] = copy[d]
      BY <1>0, <2>4 DEF TypeOK
    <2> QED
      BY <1>0, <2>1, <2>2, <2>3, <2>5, AbsentAssumption
      DEF BlobsHeld, Referenced, Stored
  <1>5. ASSUME NEW c \in Copies, WriteManifest(c)
        PROVE  BlobsHeld'
    <2>1. /\ copy[c] # Absent
          /\ copy[c].stage = "stamped"
          /\ copy[c] \in Copy
          /\ copy[c].image \in Names
          /\ copy[c].refs = RefsOf[copy[c].image]
          /\ WriteVariant(copy[c], copy[c].image)
          /\ UNCHANGED <<blobs, doomed, orphans>>
      BY <1>0, <1>5 DEF WriteManifest, TypeOK, CopiesFaithful, Copy, Names
    <2>2. \A d \in Copies : d # c => copy'[d] = copy[d]
      BY <1>0, <1>5 DEF WriteManifest, TypeOK
    <2>3. \A b : b \in copy[c].refs => Referenced(b)'
      BY <1>0, <2>1, WriteKeepsReferences
    <2>4. ASSUME NEW b, Referenced(b)
          PROVE  Referenced(b)'
      <3>1. PICK s \in Slots, m \in Names :
               Stored(s, m) /\ b \in manifests[s][m].refs
        BY <2>4 DEF Referenced
      <3>2. CASE m = copy[c].image
        <4>1. b \in RefsOf[copy[c].image]
          BY <1>0, <2>1, <3>1, <3>2 DEF ContentAddressed, Copy
        <4> QED
          BY <2>1, <2>3, <4>1
      <3>3. CASE m # copy[c].image
        BY <1>0, <2>1, <3>1, <3>3, WriteKeepsReferences
      <3> QED
        BY <3>2, <3>3
    <2> QED
      BY <1>0, <2>1, <2>2, <2>3, <2>4 DEF BlobsHeld
  <1>6. ASSUME NEW c \in Copies, ReadForTag(c)
        PROVE  BlobsHeld'
    <2>1. /\ copy[c].stage = "written"
          /\ \A d \in Copies : d # c => copy'[d] = copy[d]
          /\ UNCHANGED <<manifests, blobs, doomed, orphans>>
      BY <1>0, <1>6 DEF ReadForTag, TypeOK
    <2> QED
      BY <1>0, <2>1 DEF BlobsHeld, Referenced, Stored
  <1>7. ASSUME NEW c \in Copies, WriteTag(c)
        PROVE  BlobsHeld'
    <2>1. /\ copy[c] # Absent
          /\ copy[c].stage = "tagging"
          /\ copy[c] \in Copy
          /\ copy[c].slot \in Slots
          /\ copy[c].tag \in Names
          /\ copy[c].tag \notin Images
          /\ WriteVariant(copy[c], copy[c].tag)
          /\ UNCHANGED <<blobs, doomed>>
      BY <1>0, <1>7, NamesAssumption DEF WriteTag, TypeOK, Copy, Names
    <2> DEFINE old == manifests[copy[c].slot][copy[c].tag]
    <2>2. \A d \in Copies : d # c => copy'[d] = copy[d]
      BY <1>0, <1>7 DEF WriteTag, TypeOK
    <2>3. ASSUME NEW b, Referenced(b), b \notin orphans'
          PROVE  Referenced(b)'
      <3>1. PICK s \in Slots, m \in Names :
               Stored(s, m) /\ b \in manifests[s][m].refs
        BY <2>3 DEF Referenced
      <3>2. CASE ~(s = copy[c].slot /\ m = copy[c].tag)
        BY <1>0, <2>1, <3>1, <3>2, WriteKeepsReferences
      <3>3. CASE s = copy[c].slot /\ m = copy[c].tag
        <4>1. old # Absent /\ b \in old.refs /\ old.refs = RefsOf[old.image]
          BY <1>0, <3>1, <3>3 DEF ContentAddressed, Stored
        <4>2. CASE old.image = copy[c].image
          BY <1>0, <2>1, <4>1, <4>2, WriteKeepsReferences
        <4>3. CASE old.image # copy[c].image
          <5>1. Stored(copy[c].slot, old.image)
            BY <1>7, <2>3, <4>1, <4>3 DEF WriteTag, LeftByTag
          <5>2. old.image \in Images
            BY <1>0, <2>1, <4>1 DEF TypeOK, Entry
          <5>3. b \in manifests[copy[c].slot][old.image].refs
            <6> DEFINE i == old.image
            <6>1. i \in Images /\ i \in Names /\ Stored(copy[c].slot, i) /\ b \in RefsOf[i]
              BY <4>1, <5>1, <5>2 DEF Names
            <6> HIDE DEF i
            <6>2. manifests[copy[c].slot][i].refs = RefsOf[i]
              BY <1>0, <2>1, <6>1 DEF ContentAddressed
            <6> QED
              BY <6>1, <6>2 DEF i
          <5> QED
            BY <1>0, <2>1, <5>1, <5>2, <5>3, WriteKeepsReferences DEF Names
        <4> QED
          BY <4>2, <4>3
      <3> QED
        BY <3>2, <3>3
    <2>4. orphans \subseteq orphans'
      BY <1>7 DEF WriteTag
    <2> QED
      BY <1>0, <2>1, <2>2, <2>3, <2>4 DEF BlobsHeld
  <1>8. CASE Sweep
    <2>1. doomed = {} /\ UNCHANGED <<blobs, orphans>> /\ doomed' = RefsToDelete \ RefsInUse
      BY <1>8 DEF Sweep
    <2>2. ASSUME NEW b \in Blobs, b \in RefsInUse
          PROVE  Referenced(b)'
      BY <1>0, <1>8, <2>2 DEF RefsInUse, Referenced, Stored, Sweep, TypeOK
    <2>3. ASSUME NEW b \in Blobs, Referenced(b)
          PROVE  b \in RefsInUse \cup RefsToDelete
      BY <2>3 DEF RefsInUse, RefsToDelete, Referenced
    <2>4. \A d \in Copies : copy[d] # Absent =>
             /\ copy'[d] # Absent
             /\ copy'[d].refs = copy[d].refs
             /\ copy'[d].stage = copy[d].stage
      <3> SUFFICES ASSUME NEW d \in Copies, copy[d] # Absent
                   PROVE  /\ copy'[d] # Absent
                          /\ copy'[d].refs = copy[d].refs
                          /\ copy'[d].stage = copy[d].stage
        OBVIOUS
      <3> DEFINE untouched == copy[d].clean /\ doomed' \cap RefsOf[copy[d].image] = {}
      <3>1. copy'[d] = [copy[d] EXCEPT !.clean = untouched]
        BY <1>8 DEF Sweep
      <3>2. copy[d] \in Copy
        BY <1>0 DEF TypeOK
      <3>3. untouched \in BOOLEAN
        BY <3>2 DEF Copy
      <3> HIDE DEF untouched
      <3>4. copy'[d] \in Copy
        BY <3>1, <3>2, <3>3 DEF Copy
      <3> QED
        BY <3>1, <3>2, <3>4, AbsentAssumption DEF Copy
    <2> QED
      BY <1>0, <2>1, <2>2, <2>3, <2>4 DEF BlobsHeld, TypeOK
  <1>9. ASSUME NEW b \in Blobs, DeleteBlob(b)
        PROVE  BlobsHeld'
    BY <1>0, <1>9 DEF DeleteBlob, Delete, BlobsHeld, Referenced, Stored
  <1>10. CASE Tick
    BY <1>0, <1>10 DEF Tick, BlobsHeld, Referenced, Stored
  <1>11. CASE UNCHANGED vars
    BY <1>0, <1>11 DEF vars, BlobsHeld, Referenced, Stored
  <1> QED
    BY <1>1, <1>2, <1>3, <1>4, <1>5, <1>6, <1>7, <1>8, <1>9, <1>10, <1>11
    DEF Next, CopyStep

\* A blob that is no orphan is referred to by an entry, doomed, or held by a
\* copy: cleanupExpired misses nothing else (internal/manifest/manifest.go).
THEOREM BlobsAreAccountedFor == Spec => []BlobsAccountedFor
  <1>1. Spec => []HeldInv
    BY HeldInit, HeldStep, PTL DEF Spec
  <1>2. HeldInv => BlobsAccountedFor
    BY DEF HeldInv, BlobsHeld, BlobsAccountedFor, InFlight, Unwritten, Running
  <1> QED
    BY <1>1, <1>2, PTL
=============================================================================
