----------------------------- MODULE ServiceProofs -----------------------------
(***************************************************************************)
(* What clients get from ManifestRequests, for any clients, targets and    *)
(* store: whom "not found" is said to, what is built once only, and that   *)
(* requests, flights, copies and cleanup implement ManifestService.        *)
(*                                                                         *)
(* None of the three is a property of one state alone.  ReadBackInv and    *)
(* BuildInv add to FlightInv what a flight that returned, and a flight     *)
(* that is about to build, know of the store; the refinement needs         *)
(* FlightInv, by which a manifest is written for somebody who waits.       *)
(***************************************************************************)
EXTENDS ManifestRequestsProofs

-----------------------------------------------------------------------------
(* Reading back                                                            *)

\* One of the two names the target is read back under is stored.
Available(s, x) == \E n \in {x, Norm[x]} \cap Names : Stored(s, n)

\* A flight that returned nil leaves the target to be read, until a sweep.
FlightsReadBack ==
    \A s \in Slots, k \in Targets :
        LET f == flight[s][k] IN
        InFlightAt(s, k, "done") /\ f.returns = "nil" /\ ~f.swept /\ Readable(f.target)
          => Available(s, f.target)

\* So does a request that goes on from it; before the last read only the
\* normal form is left.
RequestsReadBack ==
    \A r \in Copies :
        req[r] # Absent /\ ~req[r].swept /\ Readable(req[r].target) =>
          /\ req[r].pc = "read" => Available(req[r].slot, req[r].target)
          /\ req[r].pc = "reread" => Has(req[r].slot, Norm[req[r].target])

ReadBackInv == KeysDistinguish /\ FlightInv /\ FlightsReadBack /\ RequestsReadBack

\* The empty target is read back under no name.
LEMMA LatestIsNotReadable == ~Readable(Latest)
  BY TargetsAssumption, AbsentRequestAssumption DEF Readable, Names

\* No step of a copy removes an entry.
LEMMA CopyKeepsStored ==
    ASSUME TypeInv, NEW c \in Copies, CopyStep(c)
    PROVE  \A s \in Slots, n \in Names : manifests[s][n] # Absent => manifests'[s][n] # Absent
  <1> USE DEF TypeInv, TypeOK
  <1>1. ASSUME NEW n \in Names, copy[c] # Absent, copy[c].stage \in {"stamped", "tagging"},
               WriteVariant(copy[c], n)
        PROVE  \A z \in Slots, m \in Names : manifests[z][m] # Absent => manifests'[z][m] # Absent
    <2>1. Held(copy[c]) # Absent
      BY <1>1, HeldEntry, AbsentAssumption DEF EntryHeld, Running
    <2>2. copy[c].slot \in Slots
      BY <1>1 DEF Copy
    <2> QED
      BY <1>1, <2>1, <2>2 DEF WriteVariant
  <1>2. CASE WriteManifest(c)
    <2>1. copy[c] # Absent /\ copy[c].image \in Names
      BY <1>2 DEF WriteManifest, Copy, Names
    <2> QED
      BY <1>1, <1>2, <2>1 DEF WriteManifest
  <1>3. CASE WriteTag(c)
    <2>1. copy[c] # Absent /\ copy[c].tag \in Names
      BY <1>3 DEF WriteTag, Copy, Names
    <2> QED
      BY <1>1, <1>3, <2>1 DEF WriteTag
  <1>4. CASE UNCHANGED manifests
    BY <1>4
  <1> QED
    BY <1>2, <1>3, <1>4
    DEF CopyStep, BeginCopy, PutBlob, FailCopy, StampManifest, ReadForTag

\* The last step of a copy stores its tag.
LEMMA TagIsStored ==
    ASSUME TypeInv, NEW c \in Copies, WriteTag(c)
    PROVE  /\ copy[c].slot \in Slots /\ copy[c].tag \in Tags
           /\ manifests'[copy[c].slot][copy[c].tag] # Absent
  <1> USE DEF TypeInv, TypeOK
  <1>1. copy[c] # Absent /\ copy[c] \in Copy /\ copy[c].entry \in Entry
    BY DEF WriteTag, EntryHeld, Running
  <1>2. copy[c].slot \in Slots /\ copy[c].tag \in Tags /\ Held(copy[c]) # Absent
    BY <1>1, HeldEntry, AbsentAssumption DEF Copy
  <1> QED
    BY <1>2 DEF WriteTag, WriteVariant, Names

LEMMA FlightsStillReadBack ==
    ASSUME FlightsReadBack,
           \A s \in Slots, n \in Names : manifests[s][n] # Absent => manifests'[s][n] # Absent,
           \A s \in Slots, k \in Targets :
             LET f == flight'[s][k] IN
             \/ f = flight[s][k]
             \/ f = Absent \/ f.stage # "done" \/ f.returns # "nil" \/ ~Readable(f.target)
             \/ \E n \in {f.target, Norm[f.target]} \cap Names : manifests'[s][n] # Absent
    PROVE  FlightsReadBack'
  BY DEF FlightsReadBack, InFlightAt, Available, Stored, Readable

LEMMA RequestsStillReadBack ==
    ASSUME RequestsTypeOK, RequestsReadBack,
           \A s \in Slots, n \in Names : manifests[s][n] # Absent => manifests'[s][n] # Absent,
           \A r \in Copies : req'[r] = req[r] \/ req'[r] = Absent
                              \/ req'[r].pc \notin {"read", "reread"}
    PROVE  RequestsReadBack'
  <1>1. \A r \in Copies : req[r] # Absent => req[r].slot \in Slots
    BY DEF RequestsTypeOK, Request
  <1> QED
    BY <1>1 DEF RequestsReadBack, Available, Has, Stored, Readable

LEMMA ReadBackInit == KeysDistinguish /\ Init /\ RequestsInit => ReadBackInv
  BY FlightInit DEF RequestsInit, ReadBackInv, FlightsReadBack, RequestsReadBack, InFlightAt

\* The targets of a flight and of those who wait for it.
LEMMA WaitersWantTheTarget ==
    ASSUME ReadBackInv, NEW s \in Slots, NEW k \in Targets, flight[s][k] # Absent,
           NEW r \in Copies, Waiting(r, s, k), Readable(req[r].target)
    PROVE  req[r].target = flight[s][k].target
  <1>1. /\ req[r].target \in Targets
        /\ flight[s][k].leader \in Copies /\ flight[s][k].target \in Targets
    BY DEF ReadBackInv, FlightInv, RequestsTypeOK, Request, Flight, Waiting, At
  <1>2. Key[flight[s][k].target] = k /\ Key[req[r].target] = k
    BY DEF ReadBackInv, FlightInv, FlightsConsistent, Waiting
  <1> QED
    BY <1>1, <1>2 DEF ReadBackInv, KeysDistinguish

LEMMA ReadBackStep == ReadBackInv /\ [RequestsNext]_allvars => ReadBackInv'
  <1> SUFFICES ASSUME ReadBackInv, [RequestsNext]_allvars
               PROVE  FlightsReadBack' /\ RequestsReadBack'
    BY FlightInvStep DEF ReadBackInv, KeysDistinguish, Readable
  <1>0. /\ FlightInv /\ TypeInv /\ TypeOK /\ RequestsTypeOK
        /\ FlightsReadBack /\ RequestsReadBack
    BY DEF ReadBackInv, FlightInv, TypeInv
  <1>s. UNCHANGED manifests =>
          \A s \in Slots, n \in Names : manifests[s][n] # Absent => manifests'[s][n] # Absent
    OBVIOUS
  <1>f. ASSUME NEW s \in Slots, NEW k \in Targets, flight[s][k] # Absent
        PROVE  LET f == flight[s][k] IN
               /\ f \in Flight /\ f.leader \in Copies /\ f.target \in Targets
               /\ f.attempt \in Targets
    BY <1>0, <1>f DEF RequestsTypeOK, Flight
  <1>1. ASSUME NEW r \in Copies, NEW s \in Slots, NEW x \in Targets, NEW kind \in Kinds,
               Arrive(r, s, x, kind)
        PROVE  FlightsReadBack' /\ RequestsReadBack'
    <2> DEFINE new == [pc |-> "enter", kind |-> kind, slot |-> s, target |-> x,
                       swept |-> FALSE]
    <2>1. /\ UNCHANGED <<manifests, flight>>
          /\ \E q \in {Absent, new} : req' = [req EXCEPT ![r] = q]
      BY <1>1 DEF Arrive, Answer, svars
    <2>2. new.pc = "enter"
      OBVIOUS
    <2> HIDE DEF new
    <2>3. \A c \in Copies : req'[c] = req[c] \/ req'[c] = Absent
                             \/ req'[c].pc \notin {"read", "reread"}
      BY <1>0, <2>1, <2>2 DEF RequestsTypeOK
    <2> QED
      BY <1>0, <1>s, <2>1, <2>3, FlightsStillReadBack, RequestsStillReadBack
  <1>2. ASSUME NEW r \in Copies, EnterFlight(r)
        PROVE  FlightsReadBack' /\ RequestsReadBack'
    <2> DEFINE s == req[r].slot
               x == req[r].target
               k == Key[x]
               new == [leader |-> r, stage |-> "check", target |-> x, attempt |-> x,
                       returns |-> "nil", swept |-> FALSE]
               went == [req[r] EXCEPT !.pc = "wait"]
    <2>1. /\ req[r] # Absent /\ UNCHANGED manifests
          /\ req' = [req EXCEPT ![r] = went]
          /\ flight' = flight \/ flight' = [flight EXCEPT ![s][k] = new]
      BY <1>2 DEF EnterFlight, At, Goto, svars
    <2>2. went.pc = "wait"
      BY <1>0, <2>1 DEF RequestsTypeOK, Request
    <2>3. new.stage = "check"
      OBVIOUS
    <2> HIDE DEF new, went, s, k
    <2>4. \A c \in Copies : req'[c] = req[c] \/ req'[c] = Absent
                             \/ req'[c].pc \notin {"read", "reread"}
      BY <1>0, <2>1, <2>2 DEF RequestsTypeOK
    <2>5. \A z \in Slots, j \in Targets :
            flight'[z][j] = flight[z][j] \/ flight'[z][j].stage # "done"
      BY <1>0, <2>1, <2>3 DEF RequestsTypeOK
    <2> QED
      BY <1>0, <1>s, <2>1, <2>4, <2>5, FlightsStillReadBack, RequestsStillReadBack
  <1>3. ASSUME NEW r \in Copies, ReadAgain(r)
        PROVE  FlightsReadBack' /\ RequestsReadBack'
    <2> DEFINE went == [req[r] EXCEPT !.pc = "reread"]
    <2>1. /\ UNCHANGED <<manifests, flight>> /\ req[r] # Absent /\ req[r].pc = "read"
          /\ \/ req' = [req EXCEPT ![r] = Absent]
             \/ req' = [req EXCEPT ![r] = went] /\ ~Has(req[r].slot, req[r].target)
      BY <1>3 DEF ReadAgain, Answer, Goto, At, svars
    <2>2. FlightsReadBack'
      BY <1>0, <1>s, <2>1, FlightsStillReadBack
    <2>3. CASE req' = [req EXCEPT ![r] = Absent]
      BY <1>0, <1>s, <2>1, <2>2, <2>3, RequestsStillReadBack DEF RequestsTypeOK
    <2>4. CASE req' = [req EXCEPT ![r] = went] /\ ~Has(req[r].slot, req[r].target)
      <3>1. /\ went.pc = "reread" /\ went.slot = req[r].slot
            /\ went.target = req[r].target /\ went.swept = req[r].swept
        BY <1>0, <2>1 DEF RequestsTypeOK, Request
      <3>2. ~req[r].swept /\ Readable(req[r].target) => Has(req[r].slot, Norm[req[r].target])
        BY <1>0, <2>1, <2>4 DEF RequestsReadBack, Available, Has
      <3> HIDE DEF went
      <3>3. \A c \in Copies : c # r => req'[c] = req[c]
        BY <2>4
      <3>4. req'[r] = went
        BY <1>0, <2>4 DEF RequestsTypeOK
      <3>5. \A c \in Copies :
              req'[c] # Absent /\ ~req'[c].swept /\ Readable(req'[c].target) =>
                /\ req'[c].pc = "read" => Available(req'[c].slot, req'[c].target)
                /\ req'[c].pc = "reread" => Has(req'[c].slot, Norm[req'[c].target])
        BY <1>0, <3>1, <3>2, <3>3, <3>4 DEF RequestsReadBack
      <3> QED
        BY <2>1, <2>2, <3>5 DEF RequestsReadBack, Available, Has, Stored, Readable
    <2> QED
      BY <2>1, <2>3, <2>4
  <1>4. ASSUME NEW r \in Copies, ReadNormalized(r)
        PROVE  FlightsReadBack' /\ RequestsReadBack'
    <2>1. UNCHANGED <<manifests, flight>> /\ req' = [req EXCEPT ![r] = Absent]
      BY <1>4 DEF ReadNormalized, Answer, svars
    <2> QED
      BY <1>0, <1>s, <2>1, FlightsStillReadBack, RequestsStillReadBack DEF RequestsTypeOK
  <1>5. ASSUME NEW s \in Slots, NEW k \in Targets, CheckAgain(s, k)
        PROVE  FlightsReadBack' /\ RequestsReadBack'
    <2> DEFINE f == flight[s][k]
               stage == IF Found(s, f.target) THEN "done" ELSE "prepare"
               new == [f EXCEPT !.stage = stage, !.swept = FALSE]
    <2>1. f # Absent /\ UNCHANGED <<req, manifests>> /\ flight' = [flight EXCEPT ![s][k] = new]
      BY <1>5 DEF CheckAgain, InFlightAt, svars
    <2>2. new.stage = stage /\ new.target = f.target
      BY <1>f, <2>1 DEF Flight
    <2>3. Readable(f.target) /\ stage = "done" => f.target \in Names /\ Stored(s, f.target)
      BY LatestIsNotReadable DEF Found, Has
    <2> HIDE DEF new, stage, f
    <2>4. ASSUME NEW z \in Slots, NEW j \in Targets
          PROVE  LET g == flight'[z][j] IN
                 \/ g = flight[z][j] \/ g.stage # "done" \/ ~Readable(g.target)
                 \/ \E n \in {g.target, Norm[g.target]} \cap Names : manifests'[z][n] # Absent
      <3>1. CASE z = s /\ j = k
        <4>1. flight'[z][j] = new
          BY <1>0, <2>1, <3>1 DEF RequestsTypeOK
        <4> QED
          BY <2>1, <2>2, <2>3, <3>1, <4>1 DEF Stored
      <3>2. CASE z # s \/ j # k
        BY <1>0, <2>1, <3>2 DEF RequestsTypeOK
      <3> QED
        BY <3>1, <3>2
    <2> QED
      BY <1>0, <1>s, <2>1, <2>4, FlightsStillReadBack, RequestsStillReadBack
  <1>6. ASSUME NEW s \in Slots, NEW k \in Targets, PrepareFails(s, k) \/ CopyFails(s, k)
        PROVE  FlightsReadBack' /\ RequestsReadBack'
    <2> DEFINE f == flight[s][k]
               new == Failed(f)
    <2>1. f # Absent /\ UNCHANGED req /\ flight' = [flight EXCEPT ![s][k] = new]
      BY <1>6 DEF PrepareFails, CopyFails, InFlightAt
    <2>2. new.stage # "done" \/ new.returns # "nil"
      BY <1>f, <2>1 DEF Failed, Flight
    <2>3. \A z \in Slots, n \in Names : manifests[z][n] # Absent => manifests'[z][n] # Absent
      BY <1>0, <1>6, <1>f, <1>s, <2>1, CopyKeepsStored
      DEF PrepareFails, CopyFails, CopyStep, svars
    <2> HIDE DEF new
    <2>4. \A z \in Slots, j \in Targets :
            \/ flight'[z][j] = flight[z][j]
            \/ flight'[z][j].stage # "done" \/ flight'[z][j].returns # "nil"
      BY <1>0, <2>1, <2>2 DEF RequestsTypeOK
    <2> QED
      BY <1>0, <2>1, <2>3, <2>4, FlightsStillReadBack, RequestsStillReadBack
  <1>7. ASSUME NEW s \in Slots, NEW k \in Targets, PrepareCopies(s, k)
        PROVE  FlightsReadBack' /\ RequestsReadBack'
    <2> DEFINE f == flight[s][k]
               new == [f EXCEPT !.stage = "copy"]
    <2>1. f # Absent /\ UNCHANGED <<req, manifests>> /\ flight' = [flight EXCEPT ![s][k] = new]
      BY <1>7 DEF PrepareCopies, BeginCopy, InFlightAt
    <2>2. new.stage = "copy"
      BY <1>f, <2>1 DEF Flight
    <2> HIDE DEF new
    <2>3. \A z \in Slots, j \in Targets :
            flight'[z][j] = flight[z][j] \/ flight'[z][j].stage # "done"
      BY <1>0, <2>1, <2>2 DEF RequestsTypeOK
    <2> QED
      BY <1>0, <1>s, <2>1, <2>3, FlightsStillReadBack, RequestsStillReadBack
  <1>8. ASSUME NEW s \in Slots, NEW k \in Targets, CopyGoesOn(s, k)
        PROVE  FlightsReadBack' /\ RequestsReadBack'
    <2>1. flight[s][k] # Absent /\ UNCHANGED <<req, flight>>
      BY <1>8 DEF CopyGoesOn, InFlightAt, rvars
    <2>2. \A z \in Slots, n \in Names : manifests[z][n] # Absent => manifests'[z][n] # Absent
      BY <1>0, <1>8, <1>f, <2>1, CopyKeepsStored DEF CopyGoesOn, CopyStep
    <2> QED
      BY <1>0, <2>1, <2>2, FlightsStillReadBack, RequestsStillReadBack
  <1>9. ASSUME NEW s \in Slots, NEW k \in Targets, CopySucceeds(s, k)
        PROVE  FlightsReadBack' /\ RequestsReadBack'
    <2> DEFINE f == flight[s][k]
               c == f.leader
               new == Prepared(f)
    <2>1. /\ f # Absent /\ f.stage = "copy" /\ UNCHANGED req /\ WriteTag(c)
          /\ flight' = [flight EXCEPT ![s][k] = new]
      BY <1>9 DEF CopySucceeds, InFlightAt
    <2>2. f \in Flight /\ c \in Copies /\ f.target \in Targets
      BY <1>f, <2>1
    <2>3. \A z \in Slots, n \in Names : manifests[z][n] # Absent => manifests'[z][n] # Absent
      BY <1>0, <2>1, <2>2, CopyKeepsStored DEF CopyStep
    <2>4. copy[c] # Absent /\ copy[c].slot = s
      BY <1>0, <2>1 DEF FlightInv, FlightsConsistent
    <2>5. copy[c].tag = ChosenBy[f.attempt]
      <3>1. Waiting(c, s, k)
        BY <1>0, <2>1 DEF FlightInv, FlightsConsistent
      <3> QED
        BY <1>0, <2>2, <2>4, <3>1 DEF FlightInv, CopiesLed, Waiting
    <2>6. ChosenBy[f.attempt] \in Tags /\ manifests'[s][ChosenBy[f.attempt]] # Absent
      BY <1>0, <2>1, <2>2, <2>4, <2>5, TagIsStored
    <2>7. /\ new.target = f.target
          /\ new.returns = "nil" => f.attempt = f.target
      BY <2>2 DEF Prepared, Flight
    <2> HIDE DEF new, f, c
    <2>8. ASSUME NEW z \in Slots, NEW j \in Targets
          PROVE  LET g == flight'[z][j] IN
                 \/ g = flight[z][j] \/ g.returns # "nil" \/ ~Readable(g.target)
                 \/ \E n \in {g.target, Norm[g.target]} \cap Names : manifests'[z][n] # Absent
      <3>1. CASE z = s /\ j = k
        <4>1. flight'[z][j] = new
          BY <1>0, <2>1, <3>1 DEF RequestsTypeOK
        <4>2. CASE new.returns = "nil" /\ Readable(f.target)
          <5>1. ChosenBy[f.target] \in {f.target, Norm[f.target]} \cap Names
            BY <2>6, <2>7, <4>2 DEF Readable, Names
          <5> QED
            BY <2>6, <2>7, <3>1, <4>1, <4>2, <5>1
        <4> QED
          BY <2>7, <4>1, <4>2
      <3>2. CASE z # s \/ j # k
        BY <1>0, <2>1, <3>2 DEF RequestsTypeOK
      <3> QED
        BY <3>1, <3>2
    <2> QED
      BY <1>0, <2>1, <2>3, <2>8, FlightsStillReadBack, RequestsStillReadBack
  <1>10. ASSUME NEW s \in Slots, NEW k \in Targets, EndFlight(s, k)
         PROVE  FlightsReadBack' /\ RequestsReadBack'
    <2> DEFINE f == flight[s][k]
    <2>1. /\ f # Absent /\ f.stage = "done" /\ UNCHANGED manifests
          /\ flight' = [flight EXCEPT ![s][k] = Absent]
      BY <1>10 DEF EndFlight, InFlightAt, svars
    <2>2. FlightsReadBack'
      BY <1>0, <1>s, <2>1, FlightsStillReadBack DEF RequestsTypeOK
    <2>3. ASSUME NEW r \in Copies, req'[r] # Absent, ~req'[r].swept, Readable(req'[r].target)
          PROVE  /\ req'[r].pc = "read" => Available(req'[r].slot, req'[r].target)
                 /\ req'[r].pc = "reread" => Has(req'[r].slot, Norm[req'[r].target])
      <3>1. CASE ~Waiting(r, s, k)
        BY <1>0, <1>10, <2>3, <3>1 DEF EndFlight, RequestsReadBack
      <3>2. CASE Waiting(r, s, k)
        <4> DEFINE went == [req[r] EXCEPT !.pc = "read", !.swept = f.swept]
        <4>1. req'[r] = went /\ f.returns = "nil"
          BY <1>10, <2>3, <3>2 DEF EndFlight
        <4>2. req[r] \in Request /\ f.swept \in BOOLEAN
          BY <1>0, <1>f, <2>1, <3>2 DEF RequestsTypeOK, Waiting, At, Flight
        <4>3. /\ went.pc = "read" /\ went.slot = req[r].slot
              /\ went.target = req[r].target /\ went.swept = f.swept
          BY <4>2 DEF Request
        <4> HIDE DEF went
        <4>4. req[r].target = f.target /\ req[r].slot = s
          BY <2>1, <2>3, <3>2, <4>1, <4>3, WaitersWantTheTarget DEF Waiting
        <4>5. Available(s, f.target)
          BY <1>0, <2>1, <2>3, <4>1, <4>3, <4>4 DEF FlightsReadBack, InFlightAt
        <4> QED
          BY <4>1, <4>3, <4>4, <4>5
      <3> QED
        BY <3>1, <3>2
    <2> QED
      BY <2>1, <2>2, <2>3 DEF RequestsReadBack, Available, Has, Stored, Readable
  <1>11. CASE Sweep /\ NoteSweep
    <2>1. ASSUME NEW s, NEW x, ~Took(s, x)
          PROVE  \A n \in {x, Norm[x]} \cap Names : manifests'[s][n] = manifests[s][n]
      BY <2>1 DEF Took
    <2>2. ASSUME NEW s \in Slots, NEW k \in Targets,
                 flight'[s][k] # Absent, flight'[s][k].stage = "done",
                 flight'[s][k].returns = "nil", ~flight'[s][k].swept,
                 Readable(flight'[s][k].target)
          PROVE  \E n \in {flight'[s][k].target, Norm[flight'[s][k].target]} \cap Names :
                    manifests'[s][n] # Absent
      <3> DEFINE f == flight[s][k]
                 g == flight'[s][k]
      <3>1. /\ f # Absent /\ g.stage = f.stage /\ g.returns = f.returns
            /\ g.target = f.target /\ ~f.swept /\ ~Took(s, f.target)
        BY <1>0, <1>11, <2>2, SweptFlight
      <3>2. Available(s, f.target)
        BY <1>0, <2>2, <3>1 DEF FlightsReadBack, InFlightAt
      <3> HIDE DEF f, g
      <3>3. \E n \in {g.target, Norm[g.target]} \cap Names : manifests'[s][n] # Absent
        BY <2>1, <3>1, <3>2 DEF Available, Stored
      <3> QED
        BY <3>3 DEF g
    <2>3. ASSUME NEW r \in Copies, req'[r] # Absent, ~req'[r].swept, Readable(req'[r].target)
          PROVE  /\ req'[r].pc = "read" =>
                      \E n \in {req'[r].target, Norm[req'[r].target]} \cap Names :
                        manifests'[req'[r].slot][n] # Absent
                 /\ req'[r].pc = "reread" =>
                      Norm[req'[r].target] \in Names
                      /\ manifests'[req'[r].slot][Norm[req'[r].target]] # Absent
      <3> DEFINE q == req[r]
                 w == req'[r]
      <3>1. /\ q # Absent /\ w.pc = q.pc /\ w.slot = q.slot
            /\ w.target = q.target /\ ~q.swept /\ ~Took(q.slot, q.target)
        BY <1>0, <1>11, <2>3, SweptRequest
      <3>2. /\ q.pc = "read" => Available(q.slot, q.target)
            /\ q.pc = "reread" => Has(q.slot, Norm[q.target])
        BY <1>0, <2>3, <3>1 DEF RequestsReadBack
      <3> HIDE DEF q, w
      <3>3. /\ w.pc = "read" =>
                 \E n \in {w.target, Norm[w.target]} \cap Names : manifests'[w.slot][n] # Absent
            /\ w.pc = "reread" =>
                 Norm[w.target] \in Names /\ manifests'[w.slot][Norm[w.target]] # Absent
        BY <2>1, <3>1, <3>2 DEF Available, Has, Stored
      <3> QED
        BY <3>3 DEF w
    <2> QED
      BY <2>2, <2>3
      DEF FlightsReadBack, RequestsReadBack, InFlightAt, Available, Has, Stored, Readable
  <1>12. CASE UNCHANGED <<manifests, req, flight>>
    BY <1>0, <1>12, FlightsStillReadBack, RequestsStillReadBack
  <1>13. CASE \/ (\E b \in Blobs : DeleteBlob(b)) /\ UNCHANGED rvars
              \/ Tick /\ UNCHANGED rvars
              \/ UNCHANGED allvars
    BY <1>12, <1>13 DEF DeleteBlob, Tick, allvars, svars, rvars
  <1> QED
    BY <1>1, <1>2, <1>3, <1>4, <1>5, <1>6, <1>7, <1>8, <1>9, <1>10, <1>11, <1>13
    DEF RequestsNext, RequestStep, FlightStep, Cleanup

\* A step that says "not found".
LEMMA NotFoundStep ==
    ASSUME ReadBackInv, [RequestsNext]_allvars, NEW r \in Copies,
           req[r] # Absent, answer'[r] = "notfound", answer[r] # "notfound"
    PROVE  ~Readable(req[r].target) \/ req[r].swept
  <1>0. RequestsTypeOK /\ RequestsReadBack
    BY DEF ReadBackInv, FlightInv
  <1>1. ASSUME NEW c \in Copies, NEW a, answer' = [answer EXCEPT ![c] = a]
        PROVE  c = r /\ a = "notfound"
    BY <1>0, <1>1 DEF RequestsTypeOK
  <1>2. answer' # answer
    OBVIOUS
  <1>3. ASSUME NEW c \in Copies, NEW s \in Slots, NEW x \in Targets, NEW kind \in Kinds,
               Arrive(c, s, x, kind)
        PROVE  FALSE
    BY <1>1, <1>3 DEF Arrive, Answer
  <1>4. ASSUME NEW c \in Copies, EnterFlight(c)
        PROVE  FALSE
    BY <1>2, <1>4 DEF EnterFlight, Goto
  <1>5. ASSUME NEW c \in Copies, ReadAgain(c)
        PROVE  ~Readable(req[r].target) \/ req[r].swept
    <2>1. /\ c = r /\ req[r].pc = "read"
          /\ ~Has(req[r].slot, req[r].target) /\ Norm[req[r].target] = req[r].target
      BY <1>1, <1>2, <1>5 DEF ReadAgain, At, Answer, Goto
    <2> QED
      BY <1>0, <2>1 DEF RequestsReadBack, Available, Has
  <1>6. ASSUME NEW c \in Copies, ReadNormalized(c)
        PROVE  ~Readable(req[r].target) \/ req[r].swept
    <2>1. /\ c = r /\ req[r].pc = "reread"
          /\ ~Has(req[r].slot, Norm[req[r].target])
      BY <1>1, <1>6 DEF ReadNormalized, At, Answer
    <2> QED
      BY <1>0, <2>1 DEF RequestsReadBack
  <1>7. ASSUME NEW s \in Slots, NEW k \in Targets, FlightStep(s, k)
        PROVE  FALSE
    <2>1. CASE EndFlight(s, k)
      BY <2>1 DEF EndFlight
    <2> QED
      BY <1>2, <1>7, <2>1
      DEF FlightStep, CheckAgain, PrepareFails, PrepareCopies, CopyGoesOn, CopyFails,
          CopySucceeds, rvars
  <1>8. CASE Cleanup \/ (Tick /\ UNCHANGED rvars) \/ UNCHANGED allvars
    BY <1>2, <1>8 DEF Cleanup, rvars, allvars
  <1> QED
    BY <1>3, <1>4, <1>5, <1>6, <1>7, <1>8 DEF RequestsNext, RequestStep

\* However many clients ask, flights fail, retry and end, and copies overlap:
\* who is told that a version index.Get knows is not there lost it to a
\* cleanup (manifest.go getOrPrepareManifest).
THEOREM NotFoundHasACause == KeysDistinguish /\ RequestsSpec => NotFoundIsExplained
  <1>1. KeysDistinguish /\ RequestsSpec => []ReadBackInv
    <2>1. KeysDistinguish /\ Init /\ RequestsInit => ReadBackInv
      BY ReadBackInit
    <2> QED
      BY <2>1, ReadBackStep, PTL DEF RequestsSpec
  <1>2. ReadBackInv /\ [RequestsNext]_allvars =>
          [\A r \in Copies : req[r] # Absent /\ answer'[r] = "notfound" /\ answer[r] # "notfound"
              => ~Readable(req[r].target) \/ req[r].swept]_allvars
    BY NotFoundStep
  <1> QED
    BY <1>1, <1>2, PTL DEF RequestsSpec, NotFoundIsExplained

-----------------------------------------------------------------------------
(* Not building twice                                                      *)

\* What a flight is about to build is not stored.
PreparesMissing ==
    \A s \in Slots, k \in Targets :
        LET t == ChosenBy[flight[s][k].attempt] IN
        InFlightAt(s, k, "prepare") /\ t # Absent => ~Stored(s, t)

BuildInv == VersionsOnly /\ FlightInv /\ PreparesMissing

\* Targets that are versions: what is chosen is what is asked for.
LEMMA ChosenIsAsked ==
    ASSUME VersionsOnly, NEW f \in Flight, f.attempt \in {f.target, Norm[f.target]},
           ChosenBy[f.attempt] # Absent
    PROVE  /\ f.attempt = f.target /\ ChosenBy[f.attempt] = f.target
           /\ f.target \in Tags /\ f.target # Latest
  <1>1. f.target \in Targets
    BY DEF Flight
  <1> QED
    BY <1>1, TargetsAssumption DEF VersionsOnly, Names

\* Writing a manifest under its digest stores no tag.
LEMMA DigestsAreNoTags ==
    ASSUME TypeInv, NEW c \in Copies,
           \/ \E b \in Blobs : PutBlob(c, b)
           \/ FailCopy(c) \/ StampManifest(c) \/ WriteManifest(c) \/ ReadForTag(c)
    PROVE  \A s \in Slots, t \in Tags : manifests'[s][t] = manifests[s][t]
  <1>1. CASE WriteManifest(c)
    <2>1. copy[c].image \in Images /\ copy[c].slot \in Slots
      BY <1>1 DEF WriteManifest, TypeInv, TypeOK, Copy
    <2> QED
      BY <1>1, <2>1, NamesAssumption DEF WriteManifest, WriteVariant, TypeInv, TypeOK, Names
  <1>2. CASE UNCHANGED manifests
    BY <1>2
  <1> QED
    BY <1>1, <1>2 DEF PutBlob, FailCopy, StampManifest, ReadForTag

LEMMA StillMissing ==
    ASSUME BuildInv,
           \A s \in Slots, k \in Targets :
             flight'[s][k] # Absent /\ flight'[s][k].stage = "prepare" =>
               /\ flight[s][k] # Absent /\ flight[s][k].stage = "prepare"
               /\ flight'[s][k].attempt = flight[s][k].attempt,
           \A s \in Slots, t \in Tags : manifests[s][t] = Absent => manifests'[s][t] = Absent
    PROVE  PreparesMissing'
  <1>1. \A s \in Slots, k \in Targets : flight[s][k] # Absent =>
           ChosenBy[flight[s][k].attempt] \in Tags \cup {Absent}
    BY TargetsAssumption DEF BuildInv, FlightInv, RequestsTypeOK, Flight
  <1> QED
    BY <1>1 DEF BuildInv, PreparesMissing, InFlightAt, Stored

LEMMA BuildStep == BuildInv /\ [RequestsNext]_allvars => BuildInv'
  <1> SUFFICES ASSUME BuildInv, [RequestsNext]_allvars PROVE PreparesMissing'
    BY FlightInvStep DEF BuildInv, VersionsOnly
  <1>0. FlightInv /\ TypeInv /\ RequestsTypeOK /\ VersionsOnly /\ PreparesMissing
    BY DEF BuildInv, FlightInv
  <1>f. ASSUME NEW s \in Slots, NEW k \in Targets, flight[s][k] # Absent
        PROVE  LET f == flight[s][k] IN
               /\ f \in Flight /\ f.leader \in Copies /\ f.target \in Targets
               /\ f.attempt \in {f.target, Norm[f.target]}
    BY <1>0, <1>f DEF RequestsTypeOK, Flight, FlightInv, AttemptsKnown
  <1>1. CASE UNCHANGED <<manifests, flight>>
    BY <1>1, StillMissing
  <1>2. ASSUME NEW r \in Copies, EnterFlight(r)
        PROVE  PreparesMissing'
    <2> DEFINE s == req[r].slot
               x == req[r].target
               k == Key[x]
               new == [leader |-> r, stage |-> "check", target |-> x, attempt |-> x,
                       returns |-> "nil", swept |-> FALSE]
    <2>1. /\ UNCHANGED manifests
          /\ flight' = flight \/ flight' = [flight EXCEPT ![s][k] = new]
      BY <1>2 DEF EnterFlight, svars
    <2>2. new.stage = "check"
      OBVIOUS
    <2> HIDE DEF new, s, k
    <2>3. \A z \in Slots, j \in Targets :
            flight'[z][j] = flight[z][j] \/ flight'[z][j].stage = "check"
      BY <1>0, <2>1, <2>2 DEF RequestsTypeOK
    <2> QED
      BY <2>1, <2>3, StillMissing
  <1>3. ASSUME NEW s \in Slots, NEW k \in Targets, CheckAgain(s, k)
        PROVE  PreparesMissing'
    <2> DEFINE f == flight[s][k]
               stage == IF Found(s, f.target) THEN "done" ELSE "prepare"
               new == [f EXCEPT !.stage = stage, !.swept = FALSE]
    <2>1. f # Absent /\ UNCHANGED manifests /\ flight' = [flight EXCEPT ![s][k] = new]
      BY <1>3 DEF CheckAgain, InFlightAt, svars
    <2>2. f \in Flight /\ f.attempt \in {f.target, Norm[f.target]}
      BY <1>f, <2>1
    <2>3. new.stage = stage /\ new.attempt = f.attempt
      BY <2>2 DEF Flight
    <2>4. stage = "prepare" /\ ChosenBy[f.attempt] # Absent =>
            manifests[s][ChosenBy[f.attempt]] = Absent
      BY <1>0, <2>2, ChosenIsAsked DEF Found, Has, Stored, Names
    <2> HIDE DEF new, stage, f
    <2>5. ASSUME NEW z \in Slots, NEW j \in Targets,
                 flight'[z][j] # Absent, flight'[z][j].stage = "prepare",
                 ChosenBy[flight'[z][j].attempt] # Absent
          PROVE  manifests[z][ChosenBy[flight'[z][j].attempt]] = Absent
      <3>1. CASE z = s /\ j = k
        <4>1. flight'[z][j] = new
          BY <1>0, <2>1, <3>1 DEF RequestsTypeOK
        <4> QED
          BY <2>3, <2>4, <2>5, <3>1, <4>1
      <3>2. CASE z # s \/ j # k
        <4>1. flight'[z][j] = flight[z][j]
          BY <1>0, <2>1, <3>2 DEF RequestsTypeOK
        <4> QED
          BY <1>0, <2>5, <4>1 DEF PreparesMissing, InFlightAt, Stored
      <3> QED
        BY <3>1, <3>2
    <2> QED
      BY <2>1, <2>5 DEF PreparesMissing, InFlightAt, Stored
  <1>4. ASSUME NEW s \in Slots, NEW k \in Targets, PrepareFails(s, k) \/ CopyFails(s, k)
        PROVE  PreparesMissing'
    <2> DEFINE f == flight[s][k]
               new == Failed(f)
    <2>1. f # Absent /\ flight' = [flight EXCEPT ![s][k] = new]
      BY <1>4 DEF PrepareFails, CopyFails, InFlightAt
    <2>2. new.stage = "done"
      BY <1>0, <1>f, <2>1 DEF Failed, Flight, VersionsOnly
    <2>3. \A z \in Slots, t \in Tags : manifests'[z][t] = manifests[z][t]
      BY <1>0, <1>4, <1>f, <2>1, DigestsAreNoTags DEF PrepareFails, CopyFails, svars
    <2> HIDE DEF new
    <2>4. \A z \in Slots, j \in Targets :
            flight'[z][j] = flight[z][j] \/ flight'[z][j].stage = "done"
      BY <1>0, <2>1, <2>2 DEF RequestsTypeOK
    <2> QED
      BY <2>3, <2>4, StillMissing
  <1>5. ASSUME NEW s \in Slots, NEW k \in Targets, PrepareCopies(s, k)
        PROVE  PreparesMissing'
    <2> DEFINE f == flight[s][k]
               new == [f EXCEPT !.stage = "copy"]
    <2>1. f # Absent /\ UNCHANGED manifests /\ flight' = [flight EXCEPT ![s][k] = new]
      BY <1>5 DEF PrepareCopies, BeginCopy, InFlightAt
    <2>2. new.stage = "copy"
      BY <1>f, <2>1 DEF Flight
    <2> HIDE DEF new
    <2>3. \A z \in Slots, j \in Targets :
            flight'[z][j] = flight[z][j] \/ flight'[z][j].stage = "copy"
      BY <1>0, <2>1, <2>2 DEF RequestsTypeOK
    <2> QED
      BY <2>1, <2>3, StillMissing
  <1>6. ASSUME NEW s \in Slots, NEW k \in Targets, CopyGoesOn(s, k)
        PROVE  PreparesMissing'
    <2>1. flight[s][k] # Absent /\ UNCHANGED flight
      BY <1>6 DEF CopyGoesOn, InFlightAt, rvars
    <2>2. \A z \in Slots, t \in Tags : manifests'[z][t] = manifests[z][t]
      BY <1>0, <1>6, <1>f, <2>1, DigestsAreNoTags DEF CopyGoesOn
    <2> QED
      BY <2>1, <2>2, StillMissing
  <1>7. ASSUME NEW s \in Slots, NEW k \in Targets, CopySucceeds(s, k)
        PROVE  PreparesMissing'
    <2> DEFINE f == flight[s][k]
               c == f.leader
               new == Prepared(f)
    <2>1. /\ f # Absent /\ f.stage = "copy" /\ WriteTag(c)
          /\ flight' = [flight EXCEPT ![s][k] = new]
      BY <1>7 DEF CopySucceeds, InFlightAt
    <2>2. f \in Flight /\ c \in Copies /\ f.attempt \in {f.target, Norm[f.target]}
      BY <1>f, <2>1
    <2>3. /\ copy[c] # Absent /\ copy[c].slot = s
          /\ Waiting(c, s, k) /\ Key[f.target] = k
      BY <1>0, <2>1 DEF FlightInv, FlightsConsistent, Waiting
    <2>4. copy[c].tag = ChosenBy[f.attempt] /\ copy[c].tag \in Tags
      BY <1>0, <2>1, <2>2, <2>3, TagIsStored DEF FlightInv, CopiesLed, Waiting
    <2>5. copy[c].tag = f.target
      <3>1. copy[c].tag # Absent
        BY <2>4, AbsentRequestAssumption
      <3> QED
        BY <1>0, <2>2, <2>4, <3>1, ChosenIsAsked
    <2>6. new.stage = "done"
      BY <2>2 DEF Prepared, Flight
    <2>7. \A z \in Slots, t \in Tags :
            z # s \/ t # f.target => manifests'[z][t] = manifests[z][t]
      BY <1>0, <2>1, <2>3, <2>5 DEF WriteTag, WriteVariant, TypeInv, TypeOK, Names
    <2> HIDE DEF new, c, f
    <2>8. ASSUME NEW z \in Slots, NEW j \in Targets,
                 flight'[z][j] # Absent, flight'[z][j].stage = "prepare",
                 ChosenBy[flight'[z][j].attempt] # Absent
          PROVE  manifests'[z][ChosenBy[flight'[z][j].attempt]] = Absent
      <3> DEFINE g == flight[z][j]
      <3>1. z # s \/ j # k
        BY <1>0, <2>1, <2>6, <2>8 DEF RequestsTypeOK
      <3>2. flight'[z][j] = g
        BY <1>0, <2>1, <3>1 DEF RequestsTypeOK
      <3>3. g \in Flight /\ g.attempt \in {g.target, Norm[g.target]}
        BY <1>f, <2>8, <3>2
      <3>4. ChosenBy[g.attempt] = g.target /\ g.target \in Tags
        BY <1>0, <2>8, <3>2, <3>3, ChosenIsAsked
      <3>5. Key[g.target] = j
        BY <1>0, <2>8, <3>2 DEF FlightInv, FlightsConsistent, Waiting
      <3>6. z # s \/ g.target # f.target
        BY <2>3, <3>1, <3>5
      <3>7. manifests[z][g.target] = Absent
        BY <1>0, <2>8, <3>2, <3>4 DEF PreparesMissing, InFlightAt, Stored
      <3> QED
        BY <2>7, <3>2, <3>4, <3>6, <3>7
    <2> QED
      BY <2>8 DEF PreparesMissing, InFlightAt, Stored
  <1>8. ASSUME NEW s \in Slots, NEW k \in Targets, EndFlight(s, k)
        PROVE  PreparesMissing'
    <2>1. UNCHANGED manifests /\ flight' = [flight EXCEPT ![s][k] = Absent]
      BY <1>8 DEF EndFlight, svars
    <2>2. \A z \in Slots, j \in Targets : flight'[z][j] = flight[z][j] \/ flight'[z][j] = Absent
      BY <1>0, <2>1 DEF RequestsTypeOK
    <2> QED
      BY <2>1, <2>2, StillMissing
  <1>9. CASE Sweep /\ NoteSweep
    <2>1. ASSUME NEW s \in Slots, NEW k \in Targets,
                 flight'[s][k] # Absent, flight'[s][k].stage = "prepare"
          PROVE  /\ flight[s][k] # Absent /\ flight[s][k].stage = "prepare"
                 /\ flight'[s][k].attempt = flight[s][k].attempt
      BY <1>0, <1>9, <2>1, SweptFlight
    <2>2. \A s \in Slots, t \in Tags : manifests[s][t] = Absent => manifests'[s][t] = Absent
      BY <1>9 DEF Sweep, Names
    <2> QED
      BY <2>1, <2>2, StillMissing
  <1> QED
    BY <1>1, <1>2, <1>3, <1>4, <1>5, <1>6, <1>7, <1>8, <1>9
    DEF RequestsNext, RequestStep, FlightStep, Cleanup, Arrive, ReadAgain, ReadNormalized,
        DeleteBlob, Tick, allvars, svars, rvars

\* A copy begins where a flight prepares.
LEMMA CopyBegins ==
    ASSUME BuildInv, [RequestsNext]_allvars, NEW r \in Copies,
           copy[r] = Absent, copy'[r] # Absent
    PROVE  ~Stored(copy'[r].slot, copy'[r].tag)
  <1>0. TypeOK /\ TypeInv /\ RequestsTypeOK /\ PreparesMissing
    BY DEF BuildInv, FlightInv, TypeInv
  <1>1. ASSUME NEW s \in Slots, NEW k \in Targets, PrepareCopies(s, k)
        PROVE  ~Stored(copy'[r].slot, copy'[r].tag)
    <2> DEFINE f == flight[s][k]
               t == ChosenBy[f.attempt]
    <2>1. InFlightAt(s, k, "prepare") /\ t # Absent /\ f \in Flight
      BY <1>0, <1>1 DEF PrepareCopies, InFlightAt, RequestsTypeOK
    <2>2. PICK i \in Images : BeginCopy(f.leader, s, i, t)
      BY <1>1 DEF PrepareCopies
    <2> DEFINE cp == [stage |-> "blobs", slot |-> s, image |-> i, tag |-> t,
                      refs |-> {}, entry |-> Absent,
                      clean |-> doomed \cap RefsOf[i] = {}]
    <2>3. copy' = [copy EXCEPT ![f.leader] = cp]
      BY <2>2 DEF BeginCopy
    <2>4. cp.slot = s /\ cp.tag = t
      OBVIOUS
    <2> HIDE DEF cp
    <2>5. copy'[r] = cp
      BY <1>0, <2>3 DEF TypeOK
    <2> QED
      BY <1>0, <2>1, <2>4, <2>5 DEF PreparesMissing
  <1>2. ASSUME NEW s \in Slots, NEW k \in Targets, FlightStep(s, k), ~PrepareCopies(s, k)
        PROVE  FALSE
    <2>1. ASSUME NEW c \in Copies, copy[c] # Absent,
                 \A d \in Copies \ {c} : copy'[d] = copy[d]
          PROVE  FALSE
      BY <2>1
    <2>2. ASSUME NEW c \in Copies,
                 \/ \E b \in Blobs : PutBlob(c, b)
                 \/ FailCopy(c) \/ StampManifest(c) \/ WriteManifest(c)
                 \/ ReadForTag(c) \/ WriteTag(c)
          PROVE  FALSE
      <3>1. copy[c] # Absent /\ \A d \in Copies \ {c} : copy'[d] = copy[d]
        BY <1>0, <2>2
        DEF TypeOK, PutBlob, FailCopy, StampManifest, WriteManifest, ReadForTag, WriteTag
      <3> QED
        BY <2>1, <3>1
    <2>3. flight[s][k] # Absent => flight[s][k].leader \in Copies
      BY <1>0 DEF RequestsTypeOK, Flight
    <2> QED
      BY <1>2, <2>2, <2>3
      DEF FlightStep, CheckAgain, PrepareFails, CopyGoesOn, CopyFails, CopySucceeds,
          EndFlight, InFlightAt, svars
  <1>3. CASE Sweep
    BY <1>3 DEF Sweep
  <1>4. CASE UNCHANGED copy
    BY <1>4
  <1> QED
    BY <1>1, <1>2, <1>3, <1>4
    DEF RequestsNext, RequestStep, EnterFlight, Cleanup, Arrive, ReadAgain, ReadNormalized,
        DeleteBlob, Tick, allvars, svars

\* For clients that ask for versions by their name, a version that is stored
\* is never built again: the second look of a flight cannot be overtaken,
\* because only the flight itself could store what it looked for.
THEOREM StoredVersionsAreNotRebuilt == VersionsOnly /\ RequestsSpec => StoredIsNotRebuilt
  <1>1. VersionsOnly /\ Init /\ RequestsInit => BuildInv
    BY FlightInit DEF RequestsInit, BuildInv, PreparesMissing, InFlightAt
  <1>2. VersionsOnly /\ RequestsSpec => []BuildInv
    BY <1>1, BuildStep, PTL DEF RequestsSpec
  <1>3. BuildInv /\ [RequestsNext]_allvars =>
          [\A r \in Copies : copy[r] = Absent /\ copy'[r] # Absent
              => ~Stored(copy'[r].slot, copy'[r].tag)]_allvars
    BY CopyBegins
  <1> QED
    BY <1>2, <1>3, PTL DEF RequestsSpec, StoredIsNotRebuilt

-----------------------------------------------------------------------------
(* The service                                                             *)

LEMMA ServiceInit == Init /\ RequestsInit => Service!Init
  <1> SUFFICES ASSUME Init, RequestsInit PROVE Service!Init
    OBVIOUS
  <1>1. Servable = {}
    BY DEF Init, Servable, Stored
  <1>2. Pending = [r \in Copies |-> Absent]
    BY DEF RequestsInit, Pending
  <1> QED
    BY <1>1, <1>2 DEF RequestsInit, Service!Init

\* What is served depends on the manifests alone.
LEMMA SameServable ==
    ASSUME UNCHANGED manifests
    PROVE  UNCHANGED Servable
  BY DEF Servable, Stored

LEMMA ServableIsStored ==
    ASSUME NEW s \in Slots, NEW x
    PROVE  <<s, x>> \in Servable <=> Has(s, x)
  BY DEF Servable, Has

\* Who waits, and for what.
LEMMA PendingRequest ==
    ASSUME RequestsTypeOK, NEW r \in Copies
    PROVE  /\ req[r] = Absent => Pending[r] = Absent
           /\ req[r] # Absent =>
                /\ Pending[r] # Absent
                /\ Pending[r].slot = req[r].slot /\ Pending[r].slot \in Slots
                /\ Pending[r].target = req[r].target /\ Pending[r].target \in Targets
  <1>1. CASE req[r] = Absent
    BY <1>1 DEF Pending
  <1>2. CASE req[r] # Absent
    <2> DEFINE p == [slot |-> req[r].slot, target |-> req[r].target]
    <2>1. req[r].slot \in Slots /\ req[r].target \in Targets
      BY <1>2 DEF RequestsTypeOK, Request
    <2>2. p \in [slot: Slots, target: Targets] /\ p.slot = req[r].slot /\ p.target = req[r].target
      BY <2>1
    <2>3. p # Absent
      BY <2>2, AbsentRequestAssumption
    <2>4. Pending[r] = p
      BY <1>2 DEF Pending
    <2> HIDE DEF p
    <2> QED
      BY <1>2, <2>1, <2>2, <2>3, <2>4
  <1> QED
    BY <1>1, <1>2

\* A request that ends is pending no more.
LEMMA AnswerEnds ==
    ASSUME RequestsTypeOK, NEW r \in Copies, NEW a, Answer(r, a)
    PROVE  Service!End(r, a)
  <1>1. Pending' = [Pending EXCEPT ![r] = Absent]
    BY DEF Answer, Pending, RequestsTypeOK
  <1> QED
    BY <1>1 DEF Answer, Service!End

\* A request that goes on waits for the same.
LEMMA SamePending ==
    ASSUME \A r \in Copies :
             /\ (req'[r] = Absent) = (req[r] = Absent)
             /\ req[r] # Absent => req'[r].slot = req[r].slot /\ req'[r].target = req[r].target
    PROVE  UNCHANGED Pending
  BY DEF Pending

LEMMA GotoWaits ==
    ASSUME RequestsTypeOK, NEW r \in Copies, req[r] # Absent,
           NEW pc \in {"enter", "wait", "read", "reread"}, Goto(r, pc)
    PROVE  UNCHANGED <<Pending, answer>>
  <1> DEFINE went == [req[r] EXCEPT !.pc = pc]
  <1>1. req[r] \in Request /\ req' = [req EXCEPT ![r] = went] /\ UNCHANGED answer
    BY DEF RequestsTypeOK, Goto
  <1>2. went \in Request /\ went.slot = req[r].slot /\ went.target = req[r].target
    BY <1>1 DEF Request
  <1>3. went # Absent
    BY <1>2, AbsentRequestAssumption
  <1> HIDE DEF went
  <1>4. \A c \in Copies :
          /\ (req'[c] = Absent) = (req[c] = Absent)
          /\ req[c] # Absent => req'[c].slot = req[c].slot /\ req'[c].target = req[c].target
    BY <1>1, <1>2, <1>3 DEF RequestsTypeOK
  <1> QED
    BY <1>1, <1>4, SamePending

\* A manifest that is written becomes available to the client whose flight
\* copies it.
LEMMA WriteMakes ==
    ASSUME FlightInv, NEW c \in Copies, copy[c] # Absent,
           copy[c].stage \in {"stamped", "tagging"},
           NEW n \in Names, WriteVariant(copy[c], n), UNCHANGED <<req, answer>>
    PROVE  Service!Make
  <1>0. TypeInv /\ TypeOK /\ RequestsTypeOK
    BY DEF FlightInv, TypeInv
  <1>1. /\ req[c] # Absent /\ copy[c].slot = req[c].slot
        /\ Pending[c] # Absent /\ Pending[c].slot = req[c].slot /\ req[c].slot \in Slots
    BY <1>0, PendingRequest DEF FlightInv, CopiesLed, At
  <1>2. Held(copy[c]) # Absent
    BY <1>0, HeldEntry, AbsentAssumption DEF TypeInv, TypeOK, EntryHeld, Running
  <1>3. \A s \in Slots, m \in Names :
          manifests'[s][m] # Absent <=> manifests[s][m] # Absent \/ (s = req[c].slot /\ m = n)
    BY <1>0, <1>1, <1>2 DEF WriteVariant, TypeOK
  <1>4. Servable' = Servable \cup {<<req[c].slot, n>>}
    <2>1. \A p \in Slots \X Names : p = <<req[c].slot, n>> <=> p[1] = req[c].slot /\ p[2] = n
      OBVIOUS
    <2>2. <<req[c].slot, n>> \in Slots \X Names
      BY <1>1
    <2>3. Servable' = {p \in Slots \X Names : manifests'[p[1]][p[2]] # Absent}
      BY DEF Servable, Stored
    <2> QED
      BY <1>3, <2>1, <2>2, <2>3 DEF Servable, Stored
  <1>5. UNCHANGED <<Pending, answer>>
    BY DEF Pending
  <1> QED
    BY <1>1, <1>4, <1>5 DEF Service!Make

LEMMA ServiceStep == FlightInv /\ [RequestsNext]_allvars => [Service!Next]_(Service!vars)
  <1> SUFFICES ASSUME FlightInv, [RequestsNext]_allvars
               PROVE  [Service!Next]_(Service!vars)
    OBVIOUS
  <1>0. TypeInv /\ TypeOK /\ RequestsTypeOK
    BY DEF FlightInv, TypeInv
  <1>1. CASE UNCHANGED <<Servable, Pending, answer>>
    BY <1>1 DEF Service!vars
  <1>2. CASE UNCHANGED <<manifests, req, answer>>
    <2>1. UNCHANGED Pending
      BY <1>2 DEF Pending
    <2> QED
      BY <1>1, <1>2, <2>1, SameServable
  <1>3. ASSUME NEW r \in Copies, NEW s \in Slots, NEW x \in Targets, NEW kind \in Kinds,
               Arrive(r, s, x, kind)
        PROVE  Service!Next
    <2>1. req[r] = Absent /\ Pending[r] = Absent /\ UNCHANGED Servable
      BY <1>0, <1>3, PendingRequest, SameServable DEF Arrive, svars
    <2>2. CASE kind = "manifest" /\ Has(s, x) /\ Answer(r, "served")
      <3>1. <<s, x>> \in Servable
        BY <2>2, ServableIsStored
      <3>2. Service!End(r, "served")
        BY <1>0, <2>2, AnswerEnds
      <3>3. Service!Ask(r)
        BY <2>1, <3>1, <3>2 DEF Service!Ask
      <3> QED
        BY <3>3 DEF Service!Next
    <2>3. CASE /\ req' = [req EXCEPT ![r] = [pc |-> "enter", kind |-> kind, slot |-> s,
                                             target |-> x, swept |-> FALSE]]
               /\ answer' = [answer EXCEPT ![r] = "none"]
      <3> DEFINE new == [pc |-> "enter", kind |-> kind, slot |-> s, target |-> x,
                         swept |-> FALSE]
      <3>1. new \in Request /\ new.slot = s /\ new.target = x
        BY DEF Request
      <3>2. new # Absent
        BY <3>1, AbsentRequestAssumption
      <3>3. req' = [req EXCEPT ![r] = new]
        BY <2>3
      <3> HIDE DEF new
      <3>4. \A c \in Copies : req'[c] = IF c = r THEN new ELSE req[c]
        BY <1>0, <3>3 DEF RequestsTypeOK
      <3>5. Pending' = [Pending EXCEPT ![r] = [slot |-> s, target |-> x]]
        BY <3>1, <3>2, <3>4 DEF Pending
      <3>6. Service!Ask(r)
        BY <2>1, <2>3, <3>5 DEF Service!Ask
      <3> QED
        BY <3>6 DEF Service!Next
    <2> QED
      BY <1>3, <2>2, <2>3 DEF Arrive
  <1>4. ASSUME NEW r \in Copies, EnterFlight(r)
        PROVE  UNCHANGED <<Servable, Pending, answer>>
    BY <1>0, <1>4, GotoWaits, SameServable DEF EnterFlight, At, svars
  <1>5. ASSUME NEW r \in Copies, ReadAgain(r)
        PROVE  Service!Next \/ UNCHANGED <<Servable, Pending, answer>>
    <2>1. /\ req[r] # Absent /\ UNCHANGED Servable
          /\ Pending[r] # Absent /\ Pending[r].slot = req[r].slot /\ Pending[r].slot \in Slots
          /\ Pending[r].target = req[r].target
      BY <1>0, <1>5, PendingRequest, SameServable DEF ReadAgain, At, svars
    <2>2. CASE Answer(r, "listed")
      <3>1. Service!List(r)
        BY <1>0, <2>1, <2>2, AnswerEnds DEF Service!List
      <3> QED
        BY <3>1 DEF Service!Next
    <2>3. CASE Has(req[r].slot, req[r].target) /\ Answer(r, "served")
      <3>1. <<Pending[r].slot, Pending[r].target>> \in Servable
        BY <2>1, <2>3, ServableIsStored
      <3>2. Service!Serve(r)
        BY <1>0, <2>1, <2>3, <3>1, AnswerEnds DEF Service!Serve
      <3> QED
        BY <3>2 DEF Service!Next
    <2>4. CASE Goto(r, "reread")
      BY <1>0, <2>1, <2>4, GotoWaits
    <2>5. CASE /\ ~Has(req[r].slot, req[r].target) /\ Norm[req[r].target] = req[r].target
               /\ Answer(r, "notfound")
      <3>1. <<Pending[r].slot, Norm[Pending[r].target]>> \notin Servable
        BY <2>1, <2>5, ServableIsStored
      <3>2. Service!NotFound(r)
        BY <1>0, <2>1, <2>5, <3>1, AnswerEnds DEF Service!NotFound
      <3> QED
        BY <3>2 DEF Service!Next
    <2> QED
      BY <1>5, <2>2, <2>3, <2>4, <2>5 DEF ReadAgain
  <1>6. ASSUME NEW r \in Copies, ReadNormalized(r)
        PROVE  Service!Next
    <2>1. /\ req[r] # Absent /\ UNCHANGED Servable
          /\ Pending[r] # Absent /\ Pending[r].slot = req[r].slot /\ Pending[r].slot \in Slots
          /\ Pending[r].target = req[r].target
      BY <1>0, <1>6, PendingRequest, SameServable DEF ReadNormalized, At, svars
    <2>2. CASE Has(req[r].slot, Norm[req[r].target])
      <3>1. <<Pending[r].slot, Norm[Pending[r].target]>> \in Servable
        BY <2>1, <2>2, ServableIsStored
      <3>2. Service!Serve(r)
        BY <1>0, <1>6, <2>1, <2>2, <3>1, AnswerEnds DEF ReadNormalized, Service!Serve
      <3> QED
        BY <3>2 DEF Service!Next
    <2>3. CASE ~Has(req[r].slot, Norm[req[r].target])
      <3>1. <<Pending[r].slot, Norm[Pending[r].target]>> \notin Servable
        BY <2>1, <2>3, ServableIsStored
      <3>2. Service!NotFound(r)
        BY <1>0, <1>6, <2>1, <2>3, <3>1, AnswerEnds DEF ReadNormalized, Service!NotFound
      <3> QED
        BY <3>2 DEF Service!Next
    <2> QED
      BY <2>2, <2>3
  <1>7. ASSUME NEW s \in Slots, NEW k \in Targets, CopyGoesOn(s, k) \/ CopySucceeds(s, k)
        PROVE  Service!Next \/ UNCHANGED <<manifests, req, answer>>
    <2> DEFINE c == flight[s][k].leader
    <2>1. c \in Copies /\ UNCHANGED <<req, answer>>
      BY <1>0, <1>7 DEF CopyGoesOn, CopySucceeds, InFlightAt, RequestsTypeOK, Flight, rvars
    <2>2. CASE WriteManifest(c)
      <3>1. copy[c] # Absent /\ copy[c].image \in Names
        BY <1>0, <2>1, <2>2 DEF WriteManifest, TypeOK, Copy, Names
      <3>2. Service!Make
        BY <2>1, <2>2, <3>1, WriteMakes DEF WriteManifest
      <3> QED
        BY <3>2 DEF Service!Next
    <2>3. CASE WriteTag(c)
      <3>1. copy[c] # Absent /\ copy[c].tag \in Names
        BY <1>0, <2>1, <2>3 DEF WriteTag, TypeOK, Copy, Names
      <3>2. Service!Make
        BY <2>1, <2>3, <3>1, WriteMakes DEF WriteTag
      <3> QED
        BY <3>2 DEF Service!Next
    <2> QED
      BY <1>7, <2>1, <2>2, <2>3
      DEF CopyGoesOn, CopySucceeds, PutBlob, StampManifest, ReadForTag
  <1>8. ASSUME NEW s \in Slots, NEW k \in Targets, EndFlight(s, k)
        PROVE  Service!Next \/ UNCHANGED <<Servable, Pending, answer>>
    <2> DEFINE f == flight[s][k]
               S == {r \in Copies : Waiting(r, s, k)}
               a == IF f.returns = "error" THEN "failed" ELSE "panic"
    <2>1. UNCHANGED Servable
      BY <1>8, SameServable DEF EndFlight, svars
    <2>2. CASE f.returns = "nil"
      <3>1. UNCHANGED answer
        BY <1>0, <1>8, <2>2 DEF EndFlight, RequestsTypeOK
      <3>2. ASSUME NEW r \in Copies
            PROVE  /\ (req'[r] = Absent) = (req[r] = Absent)
                   /\ req[r] # Absent =>
                        req'[r].slot = req[r].slot /\ req'[r].target = req[r].target
        <4>1. CASE ~Waiting(r, s, k)
          BY <1>8, <4>1 DEF EndFlight
        <4>2. CASE Waiting(r, s, k)
          <5> DEFINE went == [req[r] EXCEPT !.pc = "read", !.swept = f.swept]
          <5>1. req'[r] = went
            BY <1>8, <2>2, <4>2 DEF EndFlight
          <5>5. f \in Flight
            BY <1>0, <1>8 DEF RequestsTypeOK, EndFlight, InFlightAt
          <5>2. req[r] \in Request /\ req[r] # Absent /\ f.swept \in BOOLEAN
            BY <1>0, <4>2, <5>5 DEF RequestsTypeOK, Waiting, At, Flight
          <5>3. went \in Request /\ went.slot = req[r].slot /\ went.target = req[r].target
            BY <5>2 DEF Request
          <5>4. went # Absent
            BY <5>3, AbsentRequestAssumption
          <5> HIDE DEF went
          <5> QED
            BY <5>1, <5>2, <5>3, <5>4
        <4> QED
          BY <4>1, <4>2
      <3> QED
        BY <2>1, <3>1, <3>2, SamePending
    <2>3. CASE f.returns # "nil"
      <3>1. \A r \in Copies : req'[r] = IF r \in S THEN Absent ELSE req[r]
        BY <1>8, <2>3 DEF EndFlight
      <3>2. Pending' = [r \in Copies |-> IF r \in S THEN Absent ELSE Pending[r]]
        BY <3>1 DEF Pending
      <3>3. answer' = [r \in Copies |-> IF r \in S THEN a ELSE answer[r]]
        BY <1>8, <2>3 DEF EndFlight
      <3>4. \A r \in S : r \in Copies /\ Pending[r] # Absent /\ Pending[r].slot = s
        BY <1>0, PendingRequest DEF Waiting, At
      <3>5. S \in SUBSET {r \in Copies : Pending[r] # Absent}
        BY <3>4
      <3>6. a \in {"failed", "panic"}
        OBVIOUS
      <3> HIDE DEF S, a
      <3>7. Service!Fail
        BY <2>1, <3>2, <3>3, <3>4, <3>5, <3>6 DEF Service!Fail
      <3> QED
        BY <3>7 DEF Service!Next
    <2> QED
      BY <2>2, <2>3
  <1>9. CASE Sweep /\ NoteSweep /\ UNCHANGED answer
    <2>1. \A s \in Slots, n \in Names : manifests'[s][n] # Absent => manifests[s][n] # Absent
      BY <1>9 DEF Sweep
    <2>2. Servable' \in SUBSET Servable
      BY <2>1 DEF Servable, Stored
    <2>3. ASSUME NEW r \in Copies
          PROVE  /\ (req'[r] = Absent) = (req[r] = Absent)
                 /\ req[r] # Absent =>
                      req'[r].slot = req[r].slot /\ req'[r].target = req[r].target
      BY <1>0, <1>9, SweptRequest
    <2>4. Service!Expire
      BY <1>9, <2>2, <2>3, SamePending DEF Service!Expire
    <2> QED
      BY <2>4 DEF Service!Next
  <1>10. ASSUME NEW s \in Slots, NEW k \in Targets, FlightStep(s, k)
         PROVE  [Service!Next]_(Service!vars)
    <2>1. CASE CopyGoesOn(s, k) \/ CopySucceeds(s, k)
      BY <1>2, <1>7, <2>1
    <2>2. CASE EndFlight(s, k)
      BY <1>1, <1>8, <2>2
    <2>3. CASE CheckAgain(s, k) \/ PrepareFails(s, k)
      BY <1>2, <2>3 DEF CheckAgain, PrepareFails, svars
    <2>4. CASE PrepareCopies(s, k) \/ CopyFails(s, k)
      BY <1>2, <2>4 DEF PrepareCopies, CopyFails, BeginCopy, FailCopy, ReadForTag
    <2> QED
      BY <1>10, <2>1, <2>2, <2>3, <2>4 DEF FlightStep
  <1>11. ASSUME NEW r \in Copies, RequestStep(r)
         PROVE  [Service!Next]_(Service!vars)
    BY <1>1, <1>4, <1>5, <1>6, <1>11 DEF RequestStep
  <1>12. CASE Cleanup \/ (Tick /\ UNCHANGED rvars) \/ UNCHANGED allvars
    BY <1>2, <1>9, <1>12 DEF Cleanup, DeleteBlob, Tick, allvars, svars, rvars
  <1> QED
    BY <1>3, <1>10, <1>11, <1>12 DEF RequestsNext

\* Requests, flights, copies and cleanup together are the service a client can
\* rely on: it is served what is stored under the name it asked for, refused
\* only what is not, and nothing is stored that nobody waits for (Handle and
\* HandleTags of manifest.go over the singleflight group, oras.Copy and
\* cleanupExpired).
THEOREM RequestsImplementService == RequestsSpec => ServiceSpec
  <1>1. RequestsSpec => []FlightInv
    BY FlightInit, FlightInvStep, PTL DEF RequestsSpec
  <1> QED
    BY <1>1, ServiceInit, ServiceStep, PTL DEF RequestsSpec, ServiceSpec, Service!Spec
=============================================================================
