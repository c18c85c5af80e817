------------------------ MODULE ManifestRequestsProofs ------------------------
(***************************************************************************)
(* Theorems about ManifestRequests, for any clients, targets and store.    *)
(* The composition of requests, flights and store implements the store, so *)
(* the theorems of ManifestStoreProofs hold of it too.  A store step needs *)
(* a copy, a slot and a tag: that the leader, the slot and the chosen      *)
(* version of a flight are such is the type invariant of the requests.     *)
(*                                                                         *)
(* FlightInv is the inductive invariant of the flights.  FlightsConsistent *)
(* is not inductive: a flight that begins to copy must know that its       *)
(* leader copies for no other flight, so each copy is tied to the one      *)
(* flight its goroutine waits for (CopiesLed).                             *)
(***************************************************************************)
EXTENDS ManifestRequests, ManifestStoreProofs

-----------------------------------------------------------------------------
(* Types                                                                   *)

LEMMA RequestsTypeInit == RequestsInit => RequestsTypeOK
  BY DEF RequestsInit, RequestsTypeOK, Answers

LEMMA FailedFlight ==
    ASSUME NEW f \in Flight
    PROVE  Failed(f) \in Flight
  BY TargetsAssumption DEF Failed, Flight, Returns

LEMMA PreparedFlight ==
    ASSUME NEW f \in Flight
    PROVE  Prepared(f) \in Flight
  BY DEF Prepared, Flight, Returns

\* A sweep changes nothing of a request or a flight but what it notes.
LEMMA SweptRequest ==
    ASSUME RequestsTypeOK, NoteSweep, NEW r \in Copies
    PROVE  /\ req[r] = Absent => req'[r] = Absent
           /\ req[r] # Absent =>
                /\ req'[r] \in Request /\ req'[r] # Absent
                /\ req'[r].pc = req[r].pc /\ req'[r].slot = req[r].slot
                /\ req'[r].target = req[r].target
                /\ req'[r].swept <=> req[r].swept \/ Took(req[r].slot, req[r].target)
  <1> DEFINE swept == req[r].swept \/ Took(req[r].slot, req[r].target)
             new == [req[r] EXCEPT !.swept = swept]
  <1>1. req'[r] = IF req[r] = Absent THEN Absent ELSE new
    BY DEF NoteSweep
  <1>2. CASE req[r] # Absent
    <2>1. req[r] \in Request /\ swept \in BOOLEAN
      BY <1>2 DEF RequestsTypeOK, Request
    <2>2. swept <=> req[r].swept \/ Took(req[r].slot, req[r].target)
      OBVIOUS
    <2> HIDE DEF swept
    <2>3. /\ new \in Request /\ new.pc = req[r].pc /\ new.slot = req[r].slot
          /\ new.target = req[r].target /\ new.swept = swept
      BY <2>1 DEF Request
    <2>4. new # Absent
      BY <2>3, AbsentRequestAssumption
    <2> HIDE DEF new
    <2>5. req'[r] = new
      BY <1>1, <1>2
    <2> QED
      BY <1>2, <2>2, <2>3, <2>4, <2>5
  <1> QED
    BY <1>1, <1>2

LEMMA SweptFlight ==
    ASSUME RequestsTypeOK, NoteSweep, NEW s \in Slots, NEW k \in Targets
    PROVE  LET f == flight[s][k]
               g == flight'[s][k]
           IN /\ f = Absent => g = Absent
              /\ f # Absent =>
                   /\ g \in Flight /\ g # Absent
                   /\ g.leader = f.leader /\ g.stage = f.stage /\ g.returns = f.returns
                   /\ g.target = f.target /\ g.attempt = f.attempt
                   /\ g.swept <=> f.swept \/ Took(s, f.target)
  <1> DEFINE f == flight[s][k]
             swept == f.swept \/ Took(s, f.target)
             new == [f EXCEPT !.swept = swept]
  <1>1. flight'[s][k] = IF f = Absent THEN Absent ELSE new
    BY DEF NoteSweep
  <1>2. CASE f # Absent
    <2>1. f \in Flight /\ swept \in BOOLEAN
      BY <1>2 DEF RequestsTypeOK, Flight
    <2>2. swept <=> f.swept \/ Took(s, f.target)
      OBVIOUS
    <2> HIDE DEF swept
    <2>3. /\ new \in Flight /\ new.leader = f.leader /\ new.stage = f.stage
          /\ new.target = f.target /\ new.attempt = f.attempt /\ new.returns = f.returns
          /\ new.swept = swept
      BY <2>1 DEF Flight
    <2>4. new # Absent
      BY <2>3, AbsentRequestAssumption
    <2> HIDE DEF new
    <2>5. flight'[s][k] = new
      BY <1>1, <1>2
    <2> QED
      BY <1>2, <2>2, <2>3, <2>4, <2>5
  <1> QED
    BY <1>1, <1>2

LEMMA RequestsTypeStep ==
    RequestsTypeOK /\ [RequestsNext]_allvars => RequestsTypeOK'
  <1> SUFFICES ASSUME RequestsTypeOK, [RequestsNext]_allvars PROVE RequestsTypeOK'
    OBVIOUS
  <1> USE DEF RequestsTypeOK
  <1>a. ASSUME NEW r \in Copies, NEW a \in Answers, Answer(r, a)
        PROVE  /\ req' \in [Copies -> Request \cup {Absent}]
               /\ answer' \in [Copies -> Answers]
    BY <1>a DEF Answer
  <1>g. ASSUME NEW r \in Copies, NEW pc \in {"enter", "wait", "read", "reread"},
               req[r] # Absent, Goto(r, pc)
        PROVE  /\ req' \in [Copies -> Request \cup {Absent}]
               /\ answer' \in [Copies -> Answers]
    BY <1>g DEF Goto, Request
  <1>f. ASSUME NEW s \in Slots, NEW x \in Targets, NEW new \in Flight \cup {Absent},
               flight' = [flight EXCEPT ![s][x] = new]
        PROVE  flight' \in [Slots -> [Targets -> Flight \cup {Absent}]]
    BY <1>f
  <1>1. ASSUME NEW r \in Copies, NEW s \in Slots, NEW x \in Targets, NEW kind \in Kinds,
               Arrive(r, s, x, kind)
        PROVE  RequestsTypeOK'
    <2> DEFINE new == [pc |-> "enter", kind |-> kind, slot |-> s, target |-> x,
                       swept |-> FALSE]
    <2>1. CASE Answer(r, "served")
      BY <1>1, <1>a, <2>1 DEF Arrive, Answers
    <2>2. CASE /\ req' = [req EXCEPT ![r] = new]
               /\ answer' = [answer EXCEPT ![r] = "none"]
      <3>1. new \in Request
        BY DEF Request
      <3> HIDE DEF new
      <3> QED
        BY <1>1, <2>2, <3>1 DEF Arrive, Answers
    <2> QED
      BY <1>1, <2>1, <2>2 DEF Arrive
  <1>2. ASSUME NEW r \in Copies, EnterFlight(r)
        PROVE  RequestsTypeOK'
    <2>1. req[r] # Absent /\ req[r] \in Request
      BY <1>2 DEF EnterFlight, At
    <2> DEFINE s == req[r].slot
               x == req[r].target
               k == Key[x]
               new == [leader |-> r, stage |-> "check", target |-> x, attempt |-> x,
                       returns |-> "nil", swept |-> FALSE]
    <2>2. s \in Slots /\ x \in Targets /\ k \in Targets
      BY <2>1, TargetsAssumption DEF Request
    <2>3. new \in Flight
      BY <2>2 DEF Flight, Returns
    <2>4. flight' = flight \/ flight' = [flight EXCEPT ![s][k] = new]
      BY <1>2 DEF EnterFlight
    <2> HIDE DEF new, s, x, k
    <2>5. flight' \in [Slots -> [Targets -> Flight \cup {Absent}]]
      BY <1>f, <2>2, <2>3, <2>4
    <2> QED
      BY <1>2, <1>g, <2>1, <2>5 DEF EnterFlight
  <1>3. ASSUME NEW r \in Copies, ReadAgain(r)
        PROVE  RequestsTypeOK'
    BY <1>3, <1>a, <1>g DEF ReadAgain, At, Answers, rvars
  <1>4. ASSUME NEW r \in Copies, ReadNormalized(r)
        PROVE  RequestsTypeOK'
    BY <1>4, <1>a DEF ReadNormalized, At, Answers
  <1>5. ASSUME NEW s \in Slots, NEW x \in Targets, CheckAgain(s, x)
        PROVE  RequestsTypeOK'
    <2> DEFINE f == flight[s][x]
               stage == IF Found(s, f.target) THEN "done" ELSE "prepare"
               new == [f EXCEPT !.stage = stage, !.swept = FALSE]
    <2>1. f \in Flight
      BY <1>5 DEF CheckAgain, InFlightAt
    <2>2. new \in Flight
      BY <2>1 DEF Flight
    <2>3. flight' = [flight EXCEPT ![s][x] = new]
      BY <1>5 DEF CheckAgain
    <2> HIDE DEF new
    <2> QED
      BY <1>5, <1>f, <2>2, <2>3 DEF CheckAgain
  <1>6. ASSUME NEW s \in Slots, NEW x \in Targets,
               PrepareFails(s, x) \/ CopyFails(s, x)
        PROVE  RequestsTypeOK'
    <2>1. /\ flight[s][x] \in Flight
          /\ flight' = [flight EXCEPT ![s][x] = Failed(flight[s][x])]
          /\ UNCHANGED <<req, answer>>
      BY <1>6 DEF PrepareFails, CopyFails, InFlightAt
    <2> QED
      BY <1>f, <2>1, FailedFlight
  <1>7. ASSUME NEW s \in Slots, NEW x \in Targets, PrepareCopies(s, x)
        PROVE  RequestsTypeOK'
    <2> DEFINE f == flight[s][x]
               new == [f EXCEPT !.stage = "copy"]
    <2>1. f \in Flight /\ flight' = [flight EXCEPT ![s][x] = new]
      BY <1>7 DEF PrepareCopies, InFlightAt
    <2>2. new \in Flight
      BY <2>1 DEF Flight
    <2> HIDE DEF new
    <2> QED
      BY <1>7, <1>f, <2>1, <2>2 DEF PrepareCopies
  <1>8. ASSUME NEW s \in Slots, NEW x \in Targets, CopyGoesOn(s, x)
        PROVE  RequestsTypeOK'
    BY <1>8 DEF CopyGoesOn, rvars
  <1>9. ASSUME NEW s \in Slots, NEW x \in Targets, CopySucceeds(s, x)
        PROVE  RequestsTypeOK'
    <2>1. /\ flight[s][x] \in Flight
          /\ flight' = [flight EXCEPT ![s][x] = Prepared(flight[s][x])]
          /\ UNCHANGED <<req, answer>>
      BY <1>9 DEF CopySucceeds, InFlightAt
    <2> QED
      BY <1>f, <2>1, PreparedFlight
  <1>10. ASSUME NEW s \in Slots, NEW x \in Targets, EndFlight(s, x)
         PROVE  RequestsTypeOK'
    <2>1. flight[s][x] \in Flight /\ flight' = [flight EXCEPT ![s][x] = Absent]
      BY <1>10 DEF EndFlight, InFlightAt
    <2>2. flight[s][x].swept \in BOOLEAN
      BY <2>1 DEF Flight
    <2>3. req' \in [Copies -> Request \cup {Absent}]
      <3>1. ASSUME NEW r \in Copies, Waiting(r, s, x)
            PROVE  [req[r] EXCEPT !.pc = "read", !.swept = flight[s][x].swept] \in Request
        <4>1. req[r] \in Request
          BY <3>1 DEF Waiting, At
        <4> QED
          BY <4>1, <2>2 DEF Request
      <3> QED
        BY <1>10, <3>1 DEF EndFlight
    <2>4. answer' \in [Copies -> Answers]
      BY <1>10 DEF EndFlight, Answers
    <2> QED
      BY <1>f, <2>1, <2>3, <2>4
  <1>11. CASE Cleanup
    <2>1. CASE (\E b \in Blobs : DeleteBlob(b)) /\ UNCHANGED rvars
      BY <2>1 DEF rvars
    <2>2. CASE NoteSweep /\ UNCHANGED answer
      <3>1. req' \in [Copies -> Request \cup {Absent}]
        BY <2>2, SweptRequest DEF NoteSweep
      <3>2. flight' \in [Slots -> [Targets -> Flight \cup {Absent}]]
        BY <2>2, SweptFlight DEF NoteSweep
      <3> QED
        BY <2>2, <3>1, <3>2
    <2> QED
      BY <1>11, <2>1, <2>2 DEF Cleanup
  <1>12. CASE Tick /\ UNCHANGED rvars
    BY <1>12 DEF rvars
  <1>13. CASE UNCHANGED allvars
    BY <1>13 DEF allvars, rvars
  <1> QED
    BY <1>1, <1>2, <1>3, <1>4, <1>5, <1>6, <1>7, <1>8, <1>9, <1>10, <1>11, <1>12, <1>13
    DEF RequestsNext, RequestStep, FlightStep

\* Requests, flights and answers keep their shape, a retry under the normal
\* form included (manifest.go getOrPrepareManifest, prepareManifest).
THEOREM RequestsTypeCorrect == RequestsSpec => []RequestsTypeOK
  BY RequestsTypeInit, RequestsTypeStep, PTL DEF RequestsSpec

-----------------------------------------------------------------------------
(* The composition implements the store                                    *)

LEMMA StoreStep == RequestsTypeOK /\ [RequestsNext]_allvars => [Next]_vars
  <1> SUFFICES ASSUME RequestsTypeOK, [RequestsNext]_allvars PROVE [Next]_vars
    OBVIOUS
  <1>1. ASSUME NEW r \in Copies, NEW s \in Slots, NEW x \in Targets, NEW kind \in Kinds,
               Arrive(r, s, x, kind)
        PROVE  [Next]_vars
    BY <1>1 DEF Arrive, svars, vars
  <1>2. ASSUME NEW r \in Copies, RequestStep(r)
        PROVE  [Next]_vars
    BY <1>2 DEF RequestStep, EnterFlight, ReadAgain, ReadNormalized, svars, vars
  <1>3. ASSUME NEW s \in Slots, NEW x \in Targets, FlightStep(s, x)
        PROVE  [Next]_vars
    <2> DEFINE f == flight[s][x]
    <2>1. CASE CheckAgain(s, x) \/ PrepareFails(s, x) \/ EndFlight(s, x)
      BY <2>1 DEF CheckAgain, PrepareFails, EndFlight, svars, vars
    <2>2. f # Absent => f.leader \in Copies /\ f.attempt \in Targets
      BY DEF RequestsTypeOK, Flight
    <2>3. CASE PrepareCopies(s, x)
      <3>1. ChosenBy[f.attempt] \in Tags /\ f.leader \in Copies
        BY <2>2, <2>3, TargetsAssumption DEF PrepareCopies, InFlightAt
      <3> QED
        BY <2>3, <3>1 DEF PrepareCopies, Next, CopyStep
    <2>4. CASE CopyGoesOn(s, x)
      <3>1. f.leader \in Copies
        BY <2>2, <2>4 DEF CopyGoesOn, InFlightAt
      <3> QED
        BY <2>4, <3>1 DEF CopyGoesOn, Next, CopyStep
    <2>5. CASE CopyFails(s, x)
      <3>1. f.leader \in Copies
        BY <2>2, <2>5 DEF CopyFails, InFlightAt
      <3> QED
        BY <2>5, <3>1 DEF CopyFails, Next, CopyStep
    <2>6. CASE CopySucceeds(s, x)
      <3>1. f.leader \in Copies
        BY <2>2, <2>6 DEF CopySucceeds, InFlightAt
      <3> QED
        BY <2>6, <3>1 DEF CopySucceeds, Next, CopyStep
    <2> QED
      BY <1>3, <2>1, <2>3, <2>4, <2>5, <2>6 DEF FlightStep
  <1>4. CASE Cleanup
    BY <1>4 DEF Cleanup, Next
  <1>5. CASE Tick
    BY <1>5 DEF Next
  <1>6. CASE UNCHANGED allvars
    BY <1>6 DEF allvars, svars, vars
  <1> QED
    BY <1>1, <1>2, <1>3, <1>4, <1>5, <1>6 DEF RequestsNext

\* Whatever clients ask for, and however their flights end, they do to the
\* store what ManifestStore says and no more.
THEOREM RequestsImplementStore == RequestsSpec => Spec
  BY StoreStep, RequestsTypeCorrect, PTL DEF RequestsSpec, Spec

\* So what a client is served has all its blobs, unless a cleanup overlapped
\* the copy that made it.
THEOREM ServedManifestsAreComplete == RequestsSpec => []CleanManifestsComplete
  BY RequestsImplementStore, CleanManifestsAreComplete, PTL

-----------------------------------------------------------------------------
(* Flights and copies                                                      *)

\* Who copies is the leader of a flight that has come to its copy, into the
\* flight's slot, under the version index.Get chose for what is attempted.
CopiesLed ==
    \A c \in Copies : copy[c] # Absent =>
        /\ At(c, "wait")
        /\ LET f == flight[req[c].slot][Key[req[c].target]] IN
           /\ f # Absent
           /\ f.leader = c
           /\ f.stage = "copy"
           /\ copy[c].slot = req[c].slot
           /\ copy[c].tag = ChosenBy[f.attempt]

\* A flight attempts the target it was opened for, or its normal form.
AttemptsKnown ==
    \A s \in Slots, k \in Targets : flight[s][k] # Absent =>
        flight[s][k].attempt \in {flight[s][k].target, Norm[flight[s][k].target]}

FlightInv == TypeInv /\ RequestsTypeOK /\ FlightsConsistent /\ CopiesLed /\ AttemptsKnown

LEMMA FlightInit == Init /\ RequestsInit => FlightInv
  BY TypeInit, RequestsTypeInit
  DEF Init, RequestsInit, FlightInv, FlightsConsistent, CopiesLed, AttemptsKnown, At

\* One flight changes, and at most its leader's copy with it: other flights
\* have other leaders, because a leader waits under one key.
LEMMA FlightGoesOn ==
    ASSUME FlightInv, NEW s \in Slots, NEW k \in Targets, NEW g,
           flight[s][k] # Absent,
           flight' = [flight EXCEPT ![s][k] = g],
           g # Absent,
           g.leader = flight[s][k].leader,
           g.target = flight[s][k].target,
           g.attempt \in {g.target, Norm[g.target]},
           UNCHANGED req,
           \A c \in Copies \ {g.leader} : copy'[c] = copy[c],
           g.stage = "copy" <=> copy'[g.leader] # Absent,
           g.stage = "copy" =>
             copy'[g.leader].slot = s /\ copy'[g.leader].tag = ChosenBy[g.attempt]
    PROVE  FlightsConsistent' /\ CopiesLed' /\ AttemptsKnown'
  <1> USE DEF FlightInv, RequestsTypeOK
  <1> DEFINE f == flight[s][k]
  <1>1. /\ g.leader \in Copies /\ Waiting(g.leader, s, k)
        /\ req[g.leader].target = g.target
    BY DEF FlightsConsistent, Flight
  <1>2. flight'[s][k] = g
    OBVIOUS
  <1>3. ASSUME NEW z \in Slots, NEW j \in Targets, z # s \/ j # k
        PROVE  flight'[z][j] = flight[z][j]
    BY <1>3
  <1>4. ASSUME NEW z \in Slots, NEW j \in Targets, z # s \/ j # k, flight[z][j] # Absent
        PROVE  /\ flight[z][j].leader \in Copies \ {g.leader}
               /\ copy'[flight[z][j].leader] = copy[flight[z][j].leader]
    <2>1. Waiting(flight[z][j].leader, z, j) /\ flight[z][j].leader \in Copies
      BY <1>4 DEF FlightsConsistent, Flight
    <2>2. flight[z][j].leader # g.leader
      BY <1>1, <1>4, <2>1 DEF Waiting
    <2> QED
      BY <2>1, <2>2
  <1>5. \A r \in Copies : At(r, "wait") =>
            req[r].slot \in Slots /\ Key[req[r].target] \in Targets
    BY TargetsAssumption DEF At, Request
  <1>6. FlightsConsistent'
    <2>1. \A r \in Copies :
            At(r, "wait") => flight'[req[r].slot][Key[req[r].target]] # Absent
      <3> SUFFICES ASSUME NEW r \in Copies, At(r, "wait")
                   PROVE  flight'[req[r].slot][Key[req[r].target]] # Absent
        OBVIOUS
      <3>1. flight[req[r].slot][Key[req[r].target]] # Absent
        BY DEF FlightsConsistent
      <3> QED
        BY <1>2, <1>3, <1>5, <3>1
    <2>2. ASSUME NEW z \in Slots, NEW j \in Targets, flight'[z][j] # Absent
          PROVE  /\ Waiting(flight'[z][j].leader, z, j)
                 /\ req[flight'[z][j].leader].target = flight'[z][j].target
                 /\ (flight'[z][j].stage = "copy") = (copy'[flight'[z][j].leader] # Absent)
                 /\ flight'[z][j].stage = "copy" => copy'[flight'[z][j].leader].slot = z
      <3>1. CASE z = s /\ j = k
        BY <1>1, <1>2, <3>1
      <3>2. CASE z # s \/ j # k
        <4>1. flight'[z][j] = flight[z][j] /\ flight[z][j] # Absent
          BY <1>3, <2>2, <3>2
        <4>2. copy'[flight[z][j].leader] = copy[flight[z][j].leader]
          BY <1>4, <3>2, <4>1
        <4> QED
          BY <4>1, <4>2 DEF FlightsConsistent
      <3> QED
        BY <3>1, <3>2
    <2>3. ASSUME NEW z \in Slots, NEW j \in Targets, flight'[z][j] # Absent
          PROVE  /\ req'[flight'[z][j].leader] # Absent
                 /\ req'[flight'[z][j].leader].pc = "wait"
                 /\ req'[flight'[z][j].leader].slot = z
                 /\ Key[req'[flight'[z][j].leader].target] = j
                 /\ req'[flight'[z][j].leader].target = flight'[z][j].target
                 /\ (flight'[z][j].stage = "copy") = (copy'[flight'[z][j].leader] # Absent)
                 /\ flight'[z][j].stage = "copy" => copy'[flight'[z][j].leader].slot = z
      BY <2>2, <2>3 DEF Waiting, At
    <2>4. \A r \in Copies : req'[r] # Absent /\ req'[r].pc = "wait" =>
            flight'[req'[r].slot][Key[req'[r].target]] # Absent
      BY <2>1 DEF At
    <2> QED
      BY ONLY <2>3, <2>4 DEF FlightsConsistent, Waiting, At
  <1>7. CopiesLed'
    <2> SUFFICES ASSUME NEW c \in Copies, copy'[c] # Absent
                 PROVE  /\ req'[c] # Absent /\ req'[c].pc = "wait"
                        /\ LET h == flight'[req'[c].slot][Key[req'[c].target]] IN
                           /\ h # Absent
                           /\ h.leader = c
                           /\ h.stage = "copy"
                           /\ copy'[c].slot = req'[c].slot
                           /\ copy'[c].tag = ChosenBy[h.attempt]
      BY DEF CopiesLed, At
    <2>1. CASE c = g.leader
      <3>1. req[c] # Absent /\ req[c].pc = "wait" /\ req[c].slot = s /\ Key[req[c].target] = k
        BY <1>1, <2>1 DEF Waiting, At
      <3>2. g.stage = "copy"
        BY <2>1
      <3>3. flight'[req'[c].slot][Key[req'[c].target]] = g
        BY <1>2, <3>1
      <3>4. copy'[c].slot = s /\ copy'[c].tag = ChosenBy[g.attempt]
        BY <2>1, <3>2
      <3> QED
        BY <2>1, <3>1, <3>2, <3>3, <3>4
    <2>2. CASE c # g.leader
      <3> DEFINE z == req[c].slot
                 j == Key[req[c].target]
      <3>1. copy[c] # Absent /\ copy'[c] = copy[c]
        BY <2>2
      <3>2. /\ At(c, "wait") /\ z \in Slots /\ j \in Targets
            /\ flight[z][j].leader = c
        BY <1>5, <3>1 DEF CopiesLed
      <3>3. z # s \/ j # k
        BY <2>2, <3>2
      <3>4. flight'[z][j] = flight[z][j]
        BY <1>3, <3>2, <3>3
      <3>5. /\ req[c] # Absent /\ req[c].pc = "wait"
            /\ flight[z][j] # Absent /\ flight[z][j].leader = c
            /\ flight[z][j].stage = "copy"
            /\ copy[c].slot = z
            /\ copy[c].tag = ChosenBy[flight[z][j].attempt]
        BY <3>1 DEF CopiesLed, At
      <3> QED
        BY <3>1, <3>4, <3>5
    <2> QED
      BY <2>1, <2>2
  <1>8. AttemptsKnown'
    BY <1>2, <1>3 DEF AttemptsKnown
  <1> QED
    BY <1>6, <1>7, <1>8

\* Who is not waiting leads nothing, so what becomes of such a request does
\* not matter to the flights until it waits.
LEMMA OthersGoOn ==
    ASSUME FlightInv, NEW r \in Copies, NEW q,
           req[r] = Absent \/ req[r].pc # "wait",
           q = Absent \/ q.pc # "wait",
           req' = [req EXCEPT ![r] = q],
           UNCHANGED <<copy, flight>>
    PROVE  FlightsConsistent' /\ CopiesLed' /\ AttemptsKnown'
  <1> USE DEF FlightInv, RequestsTypeOK
  <1>1. \A c \in Copies : req'[c] # Absent /\ req'[c].pc = "wait" =>
            c # r /\ req'[c] = req[c]
    OBVIOUS
  <1>2. \A c \in Copies : req[c] # Absent /\ req[c].pc = "wait" => req'[c] = req[c]
    OBVIOUS
  <1>3. ASSUME NEW s \in Slots, NEW k \in Targets, flight[s][k] # Absent
        PROVE  LET f == flight[s][k] IN
               /\ f.leader \in Copies
               /\ req'[f.leader] = req[f.leader]
               /\ req[f.leader] # Absent /\ req[f.leader].pc = "wait"
               /\ req[f.leader].slot = s /\ Key[req[f.leader].target] = k
               /\ req[f.leader].target = f.target
               /\ (f.stage = "copy") = (copy[f.leader] # Absent)
               /\ f.stage = "copy" => copy[f.leader].slot = s
    <2>1. flight[s][k].leader \in Copies
      BY <1>3 DEF Flight
    <2> QED
      BY <1>2, <1>3, <2>1 DEF FlightsConsistent, Waiting, At
  <1>4. FlightsConsistent'
    <2>1. \A c \in Copies : req'[c] # Absent /\ req'[c].pc = "wait" =>
            flight'[req'[c].slot][Key[req'[c].target]] # Absent
      BY <1>1 DEF FlightsConsistent, At
    <2>2. ASSUME NEW s \in Slots, NEW k \in Targets, flight'[s][k] # Absent
          PROVE  LET f == flight'[s][k] IN
                 /\ req'[f.leader] # Absent /\ req'[f.leader].pc = "wait"
                 /\ req'[f.leader].slot = s /\ Key[req'[f.leader].target] = k
                 /\ req'[f.leader].target = f.target
                 /\ (f.stage = "copy") = (copy'[f.leader] # Absent)
                 /\ f.stage = "copy" => copy'[f.leader].slot = s
      BY <1>3, <2>2
    <2> QED
      BY ONLY <2>1, <2>2 DEF FlightsConsistent, Waiting, At
  <1>5. CopiesLed'
    <2>1. ASSUME NEW c \in Copies, copy[c] # Absent
          PROVE  req'[c] = req[c]
      BY <1>2, <2>1 DEF CopiesLed, At
    <2> QED
      BY <2>1 DEF CopiesLed, At
  <1>6. AttemptsKnown'
    BY DEF AttemptsKnown
  <1> QED
    BY <1>4, <1>5, <1>6

\* A cleanup changes nothing of a request, a flight or a copy but its history.
LEMMA HistoryGoesOn ==
    ASSUME FlightInv,
           \A r \in Copies :
             /\ (req'[r] = Absent) = (req[r] = Absent)
             /\ req[r] # Absent =>
                  req'[r].pc = req[r].pc /\ req'[r].slot = req[r].slot
                  /\ req'[r].target = req[r].target,
           \A s \in Slots, k \in Targets :
             /\ (flight'[s][k] = Absent) = (flight[s][k] = Absent)
             /\ flight[s][k] # Absent =>
                  flight'[s][k].leader = flight[s][k].leader
                  /\ flight'[s][k].stage = flight[s][k].stage
                  /\ flight'[s][k].target = flight[s][k].target
                  /\ flight'[s][k].attempt = flight[s][k].attempt,
           \A c \in Copies :
             /\ (copy'[c] = Absent) = (copy[c] = Absent)
             /\ copy[c] # Absent =>
                  copy'[c].slot = copy[c].slot /\ copy'[c].tag = copy[c].tag
    PROVE  FlightsConsistent' /\ CopiesLed' /\ AttemptsKnown'
  <1> USE DEF FlightInv, RequestsTypeOK
  <1>1. \A r \in Copies : req[r] # Absent =>
            req[r].slot \in Slots /\ Key[req[r].target] \in Targets
    BY TargetsAssumption DEF Request
  <1>2. \A s \in Slots, k \in Targets :
            flight[s][k] # Absent => flight[s][k].leader \in Copies
    BY DEF Flight
  <1>3. FlightsConsistent'
    <2>1. ASSUME NEW c \in Copies, req'[c] # Absent, req'[c].pc = "wait"
          PROVE  flight'[req'[c].slot][Key[req'[c].target]] # Absent
      <3>1. /\ req[c] # Absent /\ req[c].pc = "wait"
            /\ req'[c].slot = req[c].slot /\ req'[c].target = req[c].target
        BY <2>1
      <3>2. flight[req[c].slot][Key[req[c].target]] # Absent
        BY <3>1 DEF FlightsConsistent, At
      <3> QED
        BY <1>1, <3>1, <3>2
    <2>2. ASSUME NEW s \in Slots, NEW k \in Targets, flight'[s][k] # Absent
          PROVE  LET f == flight'[s][k] IN
                 /\ req'[f.leader] # Absent /\ req'[f.leader].pc = "wait"
                 /\ req'[f.leader].slot = s /\ Key[req'[f.leader].target] = k
                 /\ req'[f.leader].target = f.target
                 /\ (f.stage = "copy") = (copy'[f.leader] # Absent)
                 /\ f.stage = "copy" => copy'[f.leader].slot = s
      <3> DEFINE f == flight[s][k]
      <3>1. /\ f # Absent /\ f.leader \in Copies /\ flight'[s][k].leader = f.leader
            /\ flight'[s][k].stage = f.stage /\ flight'[s][k].target = f.target
        BY <1>2, <2>2
      <3>2. /\ req[f.leader] # Absent /\ req[f.leader].pc = "wait"
            /\ req[f.leader].slot = s /\ Key[req[f.leader].target] = k
            /\ req[f.leader].target = f.target
            /\ (f.stage = "copy") = (copy[f.leader] # Absent)
            /\ f.stage = "copy" => copy[f.leader].slot = s
        BY <3>1 DEF FlightsConsistent, Waiting, At
      <3> HIDE DEF f
      <3> QED
        BY <3>1, <3>2
    <2> QED
      BY ONLY <2>1, <2>2 DEF FlightsConsistent, Waiting, At
  <1>4. CopiesLed'
    <2> SUFFICES ASSUME NEW c \in Copies, copy'[c] # Absent
                 PROVE  /\ req'[c] # Absent /\ req'[c].pc = "wait"
                        /\ LET h == flight'[req'[c].slot][Key[req'[c].target]] IN
                           /\ h # Absent
                           /\ h.leader = c
                           /\ h.stage = "copy"
                           /\ copy'[c].slot = req'[c].slot
                           /\ copy'[c].tag = ChosenBy[h.attempt]
      BY DEF CopiesLed, At
    <2> DEFINE s == req[c].slot
               k == Key[req[c].target]
    <2>1. /\ req[c] # Absent /\ req[c].pc = "wait"
          /\ flight[s][k] # Absent /\ flight[s][k].leader = c
          /\ flight[s][k].stage = "copy"
          /\ copy[c].slot = s /\ copy[c].tag = ChosenBy[flight[s][k].attempt]
      BY DEF CopiesLed, At
    <2>2. s \in Slots /\ k \in Targets /\ req'[c].slot = s /\ Key[req'[c].target] = k
      BY <1>1, <2>1
    <2> HIDE DEF s, k
    <2> QED
      BY <2>1, <2>2
  <1>5. AttemptsKnown'
    BY DEF AttemptsKnown
  <1> QED
    BY <1>3, <1>4, <1>5

\* A flight whose copy ended keeps its leader and its target, and copies no
\* more, whether it is tried again or done.
LEMMA EndedCopy ==
    ASSUME NEW f \in Flight, f.attempt \in {f.target, Norm[f.target]},
           NEW g \in {Failed(f), Prepared(f)}
    PROVE  /\ g # Absent
           /\ g.leader = f.leader /\ g.target = f.target
           /\ g.attempt \in {f.target, Norm[f.target]}
           /\ g.stage # "copy"
  <1>1. g \in Flight
    BY FailedFlight, PreparedFlight
  <1>2. CASE g = Prepared(f)
    BY <1>1, <1>2, AbsentRequestAssumption DEF Prepared, Flight
  <1>3. CASE g = Failed(f)
    BY <1>1, <1>3, AbsentRequestAssumption DEF Failed, Flight
  <1> QED
    BY <1>2, <1>3

\* A copy that goes on stays the copy of its slot under its tag.
LEMMA CopyGoingOn ==
    ASSUME TypeInv, NEW c \in Copies, copy[c] # Absent,
           \/ \E b \in Blobs : PutBlob(c, b)
           \/ StampManifest(c)
           \/ WriteManifest(c)
           \/ ReadForTag(c) /\ copy'[c] # Absent
    PROVE  /\ copy'[c] # Absent
           /\ copy'[c].slot = copy[c].slot /\ copy'[c].tag = copy[c].tag
           /\ \A d \in Copies \ {c} : copy'[d] = copy[d]
  <1> USE AbsentAssumption DEF TypeInv, TypeOK
  <1>0. copy[c] \in Copy
    OBVIOUS
  <1>1. CASE \E b \in Blobs : PutBlob(c, b)
    <2>1. PICK b \in Blobs : copy' = [copy EXCEPT ![c].refs = @ \cup {b}]
      BY <1>1 DEF PutBlob
    <2> DEFINE new == [copy[c] EXCEPT !.refs = @ \cup {b}]
    <2>2. new \in Copy /\ new.slot = copy[c].slot /\ new.tag = copy[c].tag
      BY <1>0 DEF Copy
    <2>3. copy' = [copy EXCEPT ![c] = new]
      BY <2>1
    <2> HIDE DEF new
    <2> QED
      BY <2>2, <2>3
  <1>2. CASE StampManifest(c)
    <2> DEFINE new == [copy[c] EXCEPT !.stage = "stamped", !.entry = NewManifest(copy[c])]
    <2>1. NewManifest(copy[c]) \in Entry
      BY <1>0 DEF NewManifest, Entry, Copy
    <2>2. new \in Copy /\ new.slot = copy[c].slot /\ new.tag = copy[c].tag
      BY <1>0, <2>1 DEF Copy, Stages
    <2>3. copy' = [copy EXCEPT ![c] = new]
      BY <1>2 DEF StampManifest
    <2> HIDE DEF new
    <2> QED
      BY <2>2, <2>3
  <1>3. CASE WriteManifest(c)
    <2> DEFINE new == [copy[c] EXCEPT !.stage = "written", !.entry = Absent]
    <2>1. new \in Copy /\ new.slot = copy[c].slot /\ new.tag = copy[c].tag
      BY <1>0 DEF Copy, Stages
    <2>2. copy' = [copy EXCEPT ![c] = new]
      BY <1>3 DEF WriteManifest
    <2> HIDE DEF new
    <2> QED
      BY <2>1, <2>2
  <1>4. CASE ReadForTag(c) /\ copy'[c] # Absent
    <2> DEFINE hm == manifests[copy[c].slot][copy[c].image]
               new == [copy[c] EXCEPT !.stage = "tagging", !.entry = hm]
    <2>1. new.slot = copy[c].slot /\ new.tag = copy[c].tag
      BY <1>0 DEF Copy
    <2>2. copy' = [copy EXCEPT ![c] = new] \/ copy' = [copy EXCEPT ![c] = Absent]
      BY <1>4 DEF ReadForTag
    <2> HIDE DEF new
    <2> QED
      BY <1>4, <2>1, <2>2
  <1> QED
    BY <1>1, <1>2, <1>3, <1>4

LEMMA FlightInvStep == FlightInv /\ [RequestsNext]_allvars => FlightInv'
  <1> SUFFICES ASSUME FlightInv, [RequestsNext]_allvars
               PROVE  FlightsConsistent' /\ CopiesLed' /\ AttemptsKnown'
    BY RequestsTypeStep, StoreStep, TypeStep DEF FlightInv
  <1>0. TypeInv /\ TypeOK /\ RequestsTypeOK
    BY DEF FlightInv, TypeInv
  <1>f. ASSUME NEW s \in Slots, NEW k \in Targets, flight[s][k] # Absent
        PROVE  LET f == flight[s][k] IN
               /\ f \in Flight /\ f.leader \in Copies
               /\ f.attempt \in {f.target, Norm[f.target]}
               /\ f.stage = "copy" =>
                    /\ copy[f.leader] # Absent
                    /\ copy[f.leader].slot = s
                    /\ copy[f.leader].tag = ChosenBy[f.attempt]
               /\ f.stage # "copy" => copy[f.leader] = Absent
    <2> DEFINE f == flight[s][k]
    <2>1. f \in Flight /\ f.leader \in Copies /\ f.attempt \in {f.target, Norm[f.target]}
      BY <1>0, <1>f DEF RequestsTypeOK, Flight, FlightInv, AttemptsKnown
    <2>2. /\ (f.stage = "copy") = (copy[f.leader] # Absent)
          /\ f.stage = "copy" => copy[f.leader].slot = s
          /\ req[f.leader].slot = s /\ Key[req[f.leader].target] = k
      BY <1>f DEF FlightInv, FlightsConsistent, Waiting
    <2>3. f.stage = "copy" => copy[f.leader].tag = ChosenBy[f.attempt]
      BY <2>1, <2>2 DEF FlightInv, CopiesLed
    <2> QED
      BY <2>1, <2>2, <2>3
  <1>1. ASSUME NEW r \in Copies, NEW s \in Slots, NEW x \in Targets, NEW kind \in Kinds,
               Arrive(r, s, x, kind)
        PROVE  FlightsConsistent' /\ CopiesLed' /\ AttemptsKnown'
    <2> DEFINE new == [pc |-> "enter", kind |-> kind, slot |-> s, target |-> x,
                       swept |-> FALSE]
    <2>1. \E q \in {Absent, new} : req' = [req EXCEPT ![r] = q]
      BY <1>1 DEF Arrive, Answer
    <2>2. req[r] = Absent /\ UNCHANGED <<copy, flight>> /\ new.pc # "wait"
      BY <1>1 DEF Arrive, svars
    <2> HIDE DEF new
    <2> QED
      BY <2>1, <2>2, OthersGoOn
  <1>2. ASSUME NEW r \in Copies, ReadAgain(r) \/ ReadNormalized(r)
        PROVE  FlightsConsistent' /\ CopiesLed' /\ AttemptsKnown'
    <2> DEFINE new == [req[r] EXCEPT !.pc = "reread"]
    <2>1. \E q \in {Absent, new} : req' = [req EXCEPT ![r] = q]
      BY <1>2 DEF ReadAgain, ReadNormalized, Answer, Goto
    <2>2. req[r] # Absent /\ req[r].pc # "wait" /\ UNCHANGED <<copy, flight>>
      BY <1>2 DEF ReadAgain, ReadNormalized, At, svars
    <2>3. new.pc # "wait"
      BY <1>0, <2>2 DEF RequestsTypeOK, Request
    <2> HIDE DEF new
    <2> QED
      BY <2>1, <2>2, <2>3, OthersGoOn
  <1>3. ASSUME NEW s \in Slots, NEW k \in Targets, CheckAgain(s, k)
        PROVE  FlightsConsistent' /\ CopiesLed' /\ AttemptsKnown'
    <2> DEFINE f == flight[s][k]
               stage == IF Found(s, f.target) THEN "done" ELSE "prepare"
               new == [f EXCEPT !.stage = stage, !.swept = FALSE]
    <2>1. f # Absent /\ f.stage = "check" /\ UNCHANGED <<req, copy>>
          /\ flight' = [flight EXCEPT ![s][k] = new]
      BY <1>3 DEF CheckAgain, InFlightAt, svars
    <2>2. f \in Flight
      BY <1>f, <2>1
    <2>3. /\ new \in Flight /\ new.leader = f.leader /\ new.target = f.target
          /\ new.attempt = f.attempt /\ new.stage # "copy"
      BY <2>2 DEF Flight
    <2>4. new # Absent
      BY <2>3, AbsentRequestAssumption
    <2>5. copy[f.leader] = Absent /\ f.attempt \in {f.target, Norm[f.target]}
      BY <1>f, <2>1
    <2> HIDE DEF new, stage
    <2> QED
      BY <2>1, <2>3, <2>4, <2>5, FlightGoesOn
  <1>4. ASSUME NEW s \in Slots, NEW k \in Targets, PrepareFails(s, k)
        PROVE  FlightsConsistent' /\ CopiesLed' /\ AttemptsKnown'
    <2> DEFINE f == flight[s][k]
               new == Failed(f)
    <2>1. f # Absent /\ f.stage = "prepare" /\ UNCHANGED <<req, copy>>
          /\ flight' = [flight EXCEPT ![s][k] = new]
      BY <1>4 DEF PrepareFails, InFlightAt, svars
    <2>2. f \in Flight /\ f.attempt \in {f.target, Norm[f.target]}
          /\ copy[f.leader] = Absent
      BY <1>f, <2>1
    <2>3. /\ new # Absent /\ new.leader = f.leader /\ new.target = f.target
          /\ new.attempt \in {f.target, Norm[f.target]} /\ new.stage # "copy"
      BY <2>2, EndedCopy
    <2> HIDE DEF new
    <2> QED
      BY <2>1, <2>2, <2>3, FlightGoesOn
  <1>5. ASSUME NEW s \in Slots, NEW k \in Targets, PrepareCopies(s, k)
        PROVE  FlightsConsistent' /\ CopiesLed' /\ AttemptsKnown'
    <2> DEFINE f == flight[s][k]
               t == ChosenBy[f.attempt]
               new == [f EXCEPT !.stage = "copy"]
    <2>1. /\ f # Absent /\ f.stage = "prepare" /\ UNCHANGED req /\ t # Absent
          /\ flight' = [flight EXCEPT ![s][k] = new]
      BY <1>5 DEF PrepareCopies, InFlightAt
    <2>2. PICK i \in Images : BeginCopy(f.leader, s, i, t)
      BY <1>5 DEF PrepareCopies
    <2>3. f \in Flight /\ f.leader \in Copies /\ f.attempt \in {f.target, Norm[f.target]}
      BY <1>f, <2>1
    <2>4. /\ new \in Flight /\ new.leader = f.leader /\ new.target = f.target
          /\ new.attempt = f.attempt /\ new.stage = "copy"
      BY <2>3 DEF Flight
    <2>5. new # Absent
      BY <2>4, AbsentRequestAssumption
    <2>6. t \in Tags
      BY <2>1, <2>3, TargetsAssumption DEF Flight
    <2> DEFINE cp == [stage |-> "blobs", slot |-> s, image |-> i, tag |-> t,
                      refs |-> {}, entry |-> Absent,
                      clean |-> doomed \cap RefsOf[i] = {}]
    <2>7. copy' = [copy EXCEPT ![f.leader] = cp]
      BY <2>2 DEF BeginCopy
    <2>8. cp \in Copy /\ cp.slot = s /\ cp.tag = t
      BY <2>6 DEF Copy, Stages
    <2>9. cp # Absent
      BY <2>8, AbsentAssumption
    <2> HIDE DEF new, cp
    <2>10. /\ copy'[f.leader] = cp
           /\ \A c \in Copies \ {f.leader} : copy'[c] = copy[c]
      BY <1>0, <2>3, <2>7 DEF TypeOK
    <2>11. /\ copy'[new.leader] # Absent /\ copy'[new.leader].slot = s
           /\ copy'[new.leader].tag = ChosenBy[new.attempt]
           /\ \A c \in Copies \ {new.leader} : copy'[c] = copy[c]
      BY <2>4, <2>8, <2>9, <2>10
    <2>12. new.attempt \in {new.target, Norm[new.target]}
      BY <2>3, <2>4
    <2> HIDE DEF f, t
    <2>13. f = flight[s][k]
      BY DEF f
    <2> QED
      BY <2>1, <2>4, <2>5, <2>11, <2>12, <2>13, FlightGoesOn
  <1>6. ASSUME NEW s \in Slots, NEW k \in Targets, CopyGoesOn(s, k)
        PROVE  FlightsConsistent' /\ CopiesLed' /\ AttemptsKnown'
    <2> DEFINE f == flight[s][k]
    <2>1. f # Absent /\ f.stage = "copy" /\ UNCHANGED <<req, flight>>
      BY <1>6 DEF CopyGoesOn, InFlightAt, rvars
    <2>2. f \in Flight /\ f.leader \in Copies /\ f.attempt \in {f.target, Norm[f.target]}
          /\ copy[f.leader] # Absent /\ copy[f.leader].slot = s
          /\ copy[f.leader].tag = ChosenBy[f.attempt]
      BY <1>f, <2>1
    <2>3. /\ copy'[f.leader] # Absent
          /\ copy'[f.leader].slot = s /\ copy'[f.leader].tag = ChosenBy[f.attempt]
          /\ \A c \in Copies \ {f.leader} : copy'[c] = copy[c]
      BY <1>0, <1>6, <2>2, CopyGoingOn DEF CopyGoesOn
    <2>4. flight' = [flight EXCEPT ![s][k] = f]
      BY <1>0, <2>1 DEF RequestsTypeOK
    <2>5. PICK g : g = f
      OBVIOUS
    <2>6. /\ flight[s][k] # Absent /\ g # Absent /\ UNCHANGED req
          /\ flight' = [flight EXCEPT ![s][k] = g]
          /\ g.leader = flight[s][k].leader /\ g.target = flight[s][k].target
          /\ g.attempt \in {g.target, Norm[g.target]}
          /\ \A c \in Copies \ {g.leader} : copy'[c] = copy[c]
          /\ g.stage = "copy"
          /\ copy'[g.leader] # Absent
          /\ copy'[g.leader].slot = s /\ copy'[g.leader].tag = ChosenBy[g.attempt]
      BY <2>1, <2>2, <2>3, <2>4, <2>5
    <2> QED
      BY <2>6, FlightGoesOn
  <1>7. ASSUME NEW s \in Slots, NEW k \in Targets, CopyFails(s, k) \/ CopySucceeds(s, k)
        PROVE  FlightsConsistent' /\ CopiesLed' /\ AttemptsKnown'
    <2> DEFINE f == flight[s][k]
    <2>1. f # Absent /\ f.stage = "copy" /\ UNCHANGED req
      BY <1>7 DEF CopyFails, CopySucceeds, InFlightAt
    <2>2. f \in Flight /\ f.leader \in Copies /\ f.attempt \in {f.target, Norm[f.target]}
      BY <1>f, <2>1
    <2>3. PICK new \in {Failed(f), Prepared(f)} : flight' = [flight EXCEPT ![s][k] = new]
      BY <1>7 DEF CopyFails, CopySucceeds
    <2>4. /\ new # Absent /\ new.leader = f.leader /\ new.target = f.target
          /\ new.attempt \in {f.target, Norm[f.target]} /\ new.stage # "copy"
      BY <2>2, <2>3, EndedCopy
    <2>5. /\ copy'[f.leader] = Absent
          /\ \A c \in Copies \ {f.leader} : copy'[c] = copy[c]
      <3>1. CASE FailCopy(f.leader) \/ WriteTag(f.leader)
        BY <1>0, <2>2, <3>1 DEF TypeOK, FailCopy, WriteTag
      <3>2. CASE ReadForTag(f.leader) /\ copy'[f.leader] = Absent
        BY <1>0, <2>2, <3>2 DEF TypeOK, ReadForTag
      <3> QED
        BY <1>7, <3>1, <3>2 DEF CopyFails, CopySucceeds
    <2> QED
      BY <2>1, <2>3, <2>4, <2>5, FlightGoesOn
  <1>8. ASSUME NEW r \in Copies, EnterFlight(r)
        PROVE  FlightsConsistent' /\ CopiesLed' /\ AttemptsKnown'
    <2> DEFINE s == req[r].slot
               x == req[r].target
               k == Key[x]
               new == [leader |-> r, stage |-> "check", target |-> x, attempt |-> x,
                       returns |-> "nil", swept |-> FALSE]
               went == [req[r] EXCEPT !.pc = "wait"]
    <2>1. /\ req[r] # Absent /\ req[r].pc = "enter"
          /\ UNCHANGED copy
          /\ req' = [req EXCEPT ![r] = went]
          /\ flight' = IF flight[s][k] # Absent THEN flight
                        ELSE [flight EXCEPT ![s][k] = new]
      BY <1>8 DEF EnterFlight, At, Goto, svars
    <2>2. req[r] \in Request /\ s \in Slots /\ x \in Targets /\ k \in Targets
      BY <1>0, <2>1, TargetsAssumption DEF RequestsTypeOK, Request
    <2>3. /\ went \in Request /\ went.pc = "wait" /\ went.slot = s /\ went.target = x
      BY <2>2 DEF Request
    <2>4. went # Absent
      BY <2>3, AbsentRequestAssumption
    <2>5. /\ new \in Flight /\ new.leader = r /\ new.stage = "check"
          /\ new.target = x /\ new.attempt = x
      BY <2>2 DEF Flight, Returns
    <2>6. new # Absent
      BY <2>5, AbsentRequestAssumption
    <2>7. copy[r] = Absent
      BY <2>1 DEF FlightInv, CopiesLed, At
    <2> HIDE DEF new, went, s, x, k
    <2>8. /\ req'[r] = went
          /\ \A c \in Copies \ {r} : req'[c] = req[c]
      BY <1>0, <2>1 DEF RequestsTypeOK
    <2>9. ASSUME NEW z \in Slots, NEW j \in Targets
          PROVE  /\ z # s \/ j # k => flight'[z][j] = flight[z][j]
                 /\ flight[z][j] # Absent => flight'[z][j] = flight[z][j]
                 /\ z = s /\ j = k /\ flight[z][j] = Absent => flight'[z][j] = new
      BY <1>0, <2>1, <2>2 DEF RequestsTypeOK
    <2>10. ASSUME NEW z \in Slots, NEW j \in Targets, flight[z][j] # Absent
           PROVE  LET f == flight[z][j] IN
                  /\ f.leader \in Copies
                  /\ req'[f.leader] = req[f.leader]
                  /\ req[f.leader] # Absent /\ req[f.leader].pc = "wait"
                  /\ req[f.leader].slot = z /\ Key[req[f.leader].target] = j
                  /\ req[f.leader].target = f.target
                  /\ (f.stage = "copy") = (copy[f.leader] # Absent)
                  /\ f.stage = "copy" => copy[f.leader].slot = z
      <3>1. flight[z][j].leader \in Copies
        BY <1>f, <2>10
      <3>2. LET f == flight[z][j] IN
            /\ req[f.leader] # Absent /\ req[f.leader].pc = "wait"
            /\ req[f.leader].slot = z /\ Key[req[f.leader].target] = j
            /\ req[f.leader].target = f.target
            /\ (f.stage = "copy") = (copy[f.leader] # Absent)
            /\ f.stage = "copy" => copy[f.leader].slot = z
        BY <2>10 DEF FlightInv, FlightsConsistent, Waiting, At
      <3> QED
        BY <2>1, <2>8, <3>1, <3>2
    <2>11. FlightsConsistent'
      <3>1. ASSUME NEW c \in Copies, req'[c] # Absent, req'[c].pc = "wait"
            PROVE  flight'[req'[c].slot][Key[req'[c].target]] # Absent
        <4>1. CASE c = r
          BY <2>2, <2>3, <2>6, <2>8, <2>9, <4>1 DEF k
        <4>2. CASE c # r
          <5>1. /\ req'[c] = req[c]
                /\ req[c].slot \in Slots /\ Key[req[c].target] \in Targets
            BY <1>0, <2>8, <3>1, <4>2, TargetsAssumption DEF RequestsTypeOK, Request
          <5>2. flight[req[c].slot][Key[req[c].target]] # Absent
            BY <3>1, <5>1 DEF FlightInv, FlightsConsistent, At
          <5> QED
            BY <2>9, <5>1, <5>2
        <4> QED
          BY <4>1, <4>2
      <3>2. ASSUME NEW z \in Slots, NEW j \in Targets, flight'[z][j] # Absent
            PROVE  LET f == flight'[z][j] IN
                   /\ req'[f.leader] # Absent /\ req'[f.leader].pc = "wait"
                   /\ req'[f.leader].slot = z /\ Key[req'[f.leader].target] = j
                   /\ req'[f.leader].target = f.target
                   /\ (f.stage = "copy") = (copy'[f.leader] # Absent)
                   /\ f.stage = "copy" => copy'[f.leader].slot = z
        <4>1. CASE flight[z][j] # Absent
          BY <2>1, <2>9, <2>10, <4>1
        <4>2. CASE flight[z][j] = Absent
          <5>1. z = s /\ j = k /\ flight'[z][j] = new
            BY <2>9, <3>2, <4>2
          <5> QED
            BY <2>1, <2>3, <2>4, <2>5, <2>7, <2>8, <5>1 DEF k
        <4> QED
          BY <4>1, <4>2
      <3> QED
        BY ONLY <3>1, <3>2 DEF FlightsConsistent, Waiting, At
    <2>12. CopiesLed'
      <3> SUFFICES ASSUME NEW c \in Copies, copy[c] # Absent
                   PROVE  /\ req'[c] # Absent /\ req'[c].pc = "wait"
                          /\ LET h == flight'[req'[c].slot][Key[req'[c].target]] IN
                             /\ h # Absent
                             /\ h.leader = c
                             /\ h.stage = "copy"
                             /\ copy[c].slot = req'[c].slot
                             /\ copy[c].tag = ChosenBy[h.attempt]
        BY <2>1 DEF CopiesLed, At
      <3>1. c # r /\ req'[c] = req[c]
        BY <2>7, <2>8
      <3>2. /\ req[c] # Absent /\ req[c].pc = "wait"
            /\ LET h == flight[req[c].slot][Key[req[c].target]] IN
               /\ h # Absent
               /\ h.leader = c
               /\ h.stage = "copy"
               /\ copy[c].slot = req[c].slot
               /\ copy[c].tag = ChosenBy[h.attempt]
        BY DEF FlightInv, CopiesLed, At
      <3>3. req[c].slot \in Slots /\ Key[req[c].target] \in Targets
        BY <1>0, <3>2, TargetsAssumption DEF RequestsTypeOK, Request
      <3>4. flight'[req[c].slot][Key[req[c].target]] = flight[req[c].slot][Key[req[c].target]]
        BY <2>9, <3>2, <3>3
      <3> QED
        BY <3>1, <3>2, <3>4
    <2>13. AttemptsKnown'
      <3>1. ASSUME NEW z \in Slots, NEW j \in Targets, flight'[z][j] # Absent
            PROVE  flight'[z][j].attempt \in {flight'[z][j].target, Norm[flight'[z][j].target]}
        BY <2>5, <2>9, <3>1 DEF FlightInv, AttemptsKnown
      <3> QED
        BY <3>1 DEF AttemptsKnown
    <2> QED
      BY <2>11, <2>12, <2>13
  <1>9. ASSUME NEW s \in Slots, NEW k \in Targets, EndFlight(s, k)
        PROVE  FlightsConsistent' /\ CopiesLed' /\ AttemptsKnown'
    <2>1. /\ flight[s][k] # Absent /\ flight[s][k].stage = "done"
          /\ UNCHANGED copy
          /\ flight' = [flight EXCEPT ![s][k] = Absent]
      BY <1>9 DEF EndFlight, InFlightAt, svars
    <2>2. \A r \in Copies : ~Waiting(r, s, k) => req'[r] = req[r]
      BY <1>9 DEF EndFlight
    <2>3. ASSUME NEW r \in Copies, Waiting(r, s, k)
          PROVE  req'[r] = Absent \/ req'[r].pc # "wait"
      <3>1. req[r] \in Request
        BY <1>0, <2>3 DEF RequestsTypeOK, Waiting, At
      <3>2. req'[r] \in {Absent, [req[r] EXCEPT !.pc = "read", !.swept = flight[s][k].swept]}
        BY <1>9, <2>3 DEF EndFlight
      <3>3. [req[r] EXCEPT !.pc = "read", !.swept = flight[s][k].swept].pc = "read"
        BY <3>1 DEF Request
      <3> QED
        BY <3>2, <3>3
    <2>4. ASSUME NEW z \in Slots, NEW j \in Targets
          PROVE  /\ z # s \/ j # k => flight'[z][j] = flight[z][j]
                 /\ flight'[z][j] # Absent =>
                      (z # s \/ j # k) /\ flight'[z][j] = flight[z][j]
      BY <1>0, <2>1 DEF RequestsTypeOK
    <2>5. \A c \in Copies : req'[c] # Absent /\ req'[c].pc = "wait" =>
            req'[c] = req[c] /\ ~(req[c].slot = s /\ Key[req[c].target] = k)
      BY <2>2, <2>3 DEF Waiting, At
    <2>6. FlightsConsistent'
      <3>1. ASSUME NEW c \in Copies, req'[c] # Absent, req'[c].pc = "wait"
            PROVE  flight'[req'[c].slot][Key[req'[c].target]] # Absent
        <4>1. /\ req'[c] = req[c] /\ ~(req[c].slot = s /\ Key[req[c].target] = k)
              /\ req[c].slot \in Slots /\ Key[req[c].target] \in Targets
          BY <1>0, <2>5, <3>1, TargetsAssumption DEF RequestsTypeOK, Request
        <4>2. flight[req[c].slot][Key[req[c].target]] # Absent
          BY <3>1, <4>1 DEF FlightInv, FlightsConsistent, At
        <4> QED
          BY <2>4, <4>1, <4>2
      <3>2. ASSUME NEW z \in Slots, NEW j \in Targets, flight'[z][j] # Absent
            PROVE  LET f == flight'[z][j] IN
                   /\ req'[f.leader] # Absent /\ req'[f.leader].pc = "wait"
                   /\ req'[f.leader].slot = z /\ Key[req'[f.leader].target] = j
                   /\ req'[f.leader].target = f.target
                   /\ (f.stage = "copy") = (copy'[f.leader] # Absent)
                   /\ f.stage = "copy" => copy'[f.leader].slot = z
        <4>1. (z # s \/ j # k) /\ flight'[z][j] = flight[z][j]
          BY <2>4, <3>2
        <4>2. LET f == flight[z][j] IN
              /\ req[f.leader] # Absent /\ req[f.leader].pc = "wait"
              /\ req[f.leader].slot = z /\ Key[req[f.leader].target] = j
              /\ req[f.leader].target = f.target
              /\ (f.stage = "copy") = (copy[f.leader] # Absent)
              /\ f.stage = "copy" => copy[f.leader].slot = z
          BY <3>2, <4>1 DEF FlightInv, FlightsConsistent, Waiting, At
        <4>3. flight[z][j].leader \in Copies
          BY <1>f, <3>2, <4>1
        <4>4. req'[flight[z][j].leader] = req[flight[z][j].leader]
          BY <2>2, <4>1, <4>2, <4>3 DEF Waiting
        <4> QED
          BY <2>1, <4>1, <4>2, <4>4
      <3> QED
        BY ONLY <3>1, <3>2 DEF FlightsConsistent, Waiting, At
    <2>7. CopiesLed'
      <3> SUFFICES ASSUME NEW c \in Copies, copy[c] # Absent
                   PROVE  /\ req'[c] # Absent /\ req'[c].pc = "wait"
                          /\ LET h == flight'[req'[c].slot][Key[req'[c].target]] IN
                             /\ h # Absent
                             /\ h.leader = c
                             /\ h.stage = "copy"
                             /\ copy[c].slot = req'[c].slot
                             /\ copy[c].tag = ChosenBy[h.attempt]
        BY <2>1 DEF CopiesLed, At
      <3>1. /\ req[c] # Absent /\ req[c].pc = "wait"
            /\ LET h == flight[req[c].slot][Key[req[c].target]] IN
               /\ h # Absent
               /\ h.leader = c
               /\ h.stage = "copy"
               /\ copy[c].slot = req[c].slot
               /\ copy[c].tag = ChosenBy[h.attempt]
        BY DEF FlightInv, CopiesLed, At
      <3>2. req[c].slot \in Slots /\ Key[req[c].target] \in Targets
        BY <1>0, <3>1, TargetsAssumption DEF RequestsTypeOK, Request
      <3>3. ~(req[c].slot = s /\ Key[req[c].target] = k)
        BY <2>1, <3>1
      <3>4. req'[c] = req[c]
        BY <2>2, <3>3 DEF Waiting
      <3>5. flight'[req[c].slot][Key[req[c].target]] = flight[req[c].slot][Key[req[c].target]]
        BY <2>4, <3>2, <3>3
      <3> QED
        BY <3>1, <3>4, <3>5
    <2>8. AttemptsKnown'
      BY <2>4 DEF FlightInv, AttemptsKnown
    <2> QED
      BY <2>6, <2>7, <2>8
  <1>10. CASE Sweep /\ NoteSweep
    <2>1. \A r \in Copies :
            /\ (req'[r] = Absent) = (req[r] = Absent)
            /\ req[r] # Absent =>
                 req'[r].pc = req[r].pc /\ req'[r].slot = req[r].slot
                 /\ req'[r].target = req[r].target
      BY <1>0, <1>10, SweptRequest
    <2>2. \A s \in Slots, k \in Targets :
            /\ (flight'[s][k] = Absent) = (flight[s][k] = Absent)
            /\ flight[s][k] # Absent =>
                 flight'[s][k].leader = flight[s][k].leader
                 /\ flight'[s][k].stage = flight[s][k].stage
                 /\ flight'[s][k].target = flight[s][k].target
                 /\ flight'[s][k].attempt = flight[s][k].attempt
      BY <1>0, <1>10, SweptFlight
    <2>3. \A c \in Copies :
            /\ (copy'[c] = Absent) = (copy[c] = Absent)
            /\ copy[c] # Absent =>
                 copy'[c].slot = copy[c].slot /\ copy'[c].tag = copy[c].tag
      <3> TAKE c \in Copies
      <3> DEFINE clean == copy[c].clean /\ doomed' \cap RefsOf[copy[c].image] = {}
                 new == [copy[c] EXCEPT !.clean = clean]
      <3>1. copy'[c] = IF copy[c] = Absent THEN Absent ELSE new
        BY <1>10 DEF Sweep
      <3>2. CASE copy[c] # Absent
        <4>1. copy[c] \in Copy /\ clean \in BOOLEAN
          BY <1>0, <3>2 DEF TypeOK, Copy
        <4> HIDE DEF clean
        <4>2. new \in Copy /\ new.slot = copy[c].slot /\ new.tag = copy[c].tag
          BY <4>1 DEF Copy
        <4>3. new # Absent
          BY <4>2, AbsentAssumption
        <4> QED
          BY <3>1, <3>2, <4>2, <4>3
      <3> QED
        BY <3>1, <3>2
    <2> QED
      BY <2>1, <2>2, <2>3, HistoryGoesOn
  <1>11. CASE UNCHANGED <<req, flight, copy>>
    BY <1>11, HistoryGoesOn
  <1>12. CASE (\E b \in Blobs : DeleteBlob(b)) /\ UNCHANGED rvars
    BY <1>11, <1>12 DEF rvars, DeleteBlob
  <1>13. CASE UNCHANGED allvars \/ (Tick /\ UNCHANGED rvars)
    BY <1>11, <1>13 DEF allvars, svars, rvars, Tick
  <1> QED
    BY <1>1, <1>2, <1>3, <1>4, <1>5, <1>6, <1>7, <1>8, <1>9, <1>10, <1>12, <1>13
    DEF RequestsNext, RequestStep, FlightStep, Cleanup

\* Every waiter has a flight to wait for, every flight a leader that waits
\* for it, and a copy is in progress exactly where a flight is in its copying
\* stage (singleflight.Do around prepareChart, manifest.go prepareManifest).
THEOREM FlightsAreConsistent == RequestsSpec => []FlightsConsistent
  <1>1. RequestsSpec => []FlightInv
    BY FlightInit, FlightInvStep, PTL DEF RequestsSpec
  <1>2. FlightInv => FlightsConsistent
    BY DEF FlightInv
  <1> QED
    BY <1>1, <1>2, PTL
=============================================================================
