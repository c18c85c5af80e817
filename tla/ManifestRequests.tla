--------------------------- MODULE ManifestRequests ---------------------------
(***************************************************************************)
(* The requests that reach the store: Handle (GET and HEAD of a manifest)  *)
(* and HandleTags when there is no index, through getOrPrepareManifest,    *)
(* prepareManifest with its singleflight.Group, and prepareChart           *)
(* (internal/manifest/manifest.go and charts.go).                          *)
(*                                                                         *)
(* Composed with ManifestStore: the leader of a flight is the goroutine    *)
(* that copies, so Copies are the requests, and every store step of a copy *)
(* happens together with what it means for its flight.  ServiceSpec states *)
(* what they implement together.                                           *)
(*                                                                         *)
(* The index and the download are one choice here: preparing a reference   *)
(* fails, or begins to copy some image under the version index.Get chose.  *)
(* The fields `swept` and the variable `answer` are history.               *)
(***************************************************************************)
EXTENDS ManifestStore

CONSTANTS
    Targets,  \* last path element of a manifest URL, its leading "v" cut off
    Latest,   \* the empty target
    Key,      \* Key[x]: what a flight for x is keyed by, "latest" for Latest
    Norm,     \* Norm[x]: SemVerReplace of target x, "_" replaced by "+"
    ChosenBy  \* ChosenBy[x]: the version index.Get finds for x, or Absent

VARIABLES
    req,      \* req[r]: where request r stands
    flight,   \* flight[s][k]: the call of the singleflight group under this key
    answer    \* history: answer[r], how the last request of r ended

svars == <<manifests, blobs, copy, doomed, now, orphans>>
rvars == <<req, flight, answer>>
allvars == <<svars, rvars>>

Kinds == {"manifest", "tags"}
Answers == {"none", "served", "listed", "notfound", "failed", "panic"}

Request == [pc: {"enter", "wait", "read", "reread"}, kind: Kinds,
            slot: Slots, target: Targets, swept: BOOLEAN]

\* What the function given to singleflight returned.  A nil *RegError that is
\* returned as an error is an error that is not nil.
Returns == {"nil", "error", "typednil"}

Flight == [leader: Copies, stage: {"check", "prepare", "copy", "done"},
           target: Targets, attempt: Targets, returns: Returns, swept: BOOLEAN]

ASSUME TargetsAssumption ==
    /\ Latest \in Targets \ Names
    /\ Key \in [Targets -> Targets]
    /\ Norm \in [Targets -> Targets] /\ Norm[Latest] = Latest
    /\ ChosenBy \in [Targets -> Tags \cup {Absent}]
ASSUME AbsentRequestAssumption ==
    Absent \notin Request \cup Flight \cup Tags \cup Targets \cup [slot: Slots, target: Targets]

-----------------------------------------------------------------------------
(* Reading the store                                                       *)

\* Mutant: any manifest of the chart will do
Has_AnyVariant(s, x) == \E n \in Names : Stored(s, n)

\* ReadVariant finds the target
Has(s, x) == x \in Names /\ Stored(s, x)

HasVariant(s) == \E n \in Names : Stored(s, n)

\* Mutant: any manifest of the chart will do
Found_AnyVariant(s, x) == HasVariant(s)

\* Mutant: the leader does not look again
Found_NotRead(s, x) == FALSE

\* What the function given to singleflight finds before it prepares
Found(s, x) == IF x = Latest THEN HasVariant(s) ELSE Has(s, x)

-----------------------------------------------------------------------------
RequestsInit ==
    /\ req = [r \in Copies |-> Absent]
    /\ flight = [s \in Slots |-> [x \in Targets |-> Absent]]
    /\ answer = [r \in Copies |-> "none"]

At(r, pc) == req[r] # Absent /\ req[r].pc = pc

Answer(r, a) ==
    /\ req' = [req EXCEPT ![r] = Absent]
    /\ answer' = [answer EXCEPT ![r] = a]

Goto(r, pc) == req' = [req EXCEPT ![r].pc = pc] /\ UNCHANGED answer

\* Handle, up to the first ReadVariant of getOrPrepareManifest; HandleTags
\* with no index, up to prepareManifest.
Arrive(r, s, x, kind) ==
    /\ req[r] = Absent
    /\ kind = "tags" => x = Latest
    /\ \/ /\ kind = "manifest" /\ Has(s, x)
          /\ Answer(r, "served")
       \/ /\ kind = "tags" \/ ~Has(s, x)
          /\ req' = [req EXCEPT ![r] = [pc |-> "enter", kind |-> kind, slot |-> s,
                                        target |-> x, swept |-> FALSE]]
          /\ answer' = [answer EXCEPT ![r] = "none"]
    /\ UNCHANGED <<svars, flight>>

\* Mutant: a later caller under the key replaces the flight
EnterFlight_Replaces(r) ==
    /\ At(r, "enter")
    /\ flight' = [flight EXCEPT ![req[r].slot][Key[req[r].target]] =
                    [leader |-> r, stage |-> "check", target |-> req[r].target,
                     attempt |-> req[r].target, returns |-> "nil", swept |-> FALSE]]
    /\ Goto(r, "wait")
    /\ UNCHANGED svars

\* singleflight.Do: the first caller under a key leads, the others wait for it
\* (who asks for nothing and who asks for the word latest share a key)
EnterFlight(r) ==
    /\ At(r, "enter")
    /\ LET s == req[r].slot
           x == req[r].target
           k == Key[x]
       IN flight' = IF flight[s][k] # Absent THEN flight
                    ELSE [flight EXCEPT ![s][k] =
                            [leader |-> r, stage |-> "check", target |-> x,
                             attempt |-> x, returns |-> "nil", swept |-> FALSE]]
    /\ Goto(r, "wait")
    /\ UNCHANGED svars

-----------------------------------------------------------------------------
(* A flight                                                                *)

InFlightAt(s, k, stage) == flight[s][k] # Absent /\ flight[s][k].stage = stage

\* The flight goes on to prepare, or returns nil
CheckAgain(s, k) ==
    /\ InFlightAt(s, k, "check")
    /\ flight' = [flight EXCEPT
                    ![s][k].stage = IF Found(s, flight[s][k].target) THEN "done" ELSE "prepare",
                    ![s][k].swept = FALSE]
    /\ UNCHANGED <<svars, req, answer>>

\* Mutant: the normal form is tried until it succeeds
Failed_TriesAgain(f) == [f EXCEPT !.stage = "prepare", !.attempt = Norm[f.target]]

\* Mutant: the second attempt is for what the index has for the target, which
\* may be nothing
Failed_Unchecked(f) ==
    IF f.target # Latest /\ f.attempt = f.target /\ ChosenBy[f.target] # f.target
    THEN [f EXCEPT !.stage = "prepare", !.attempt = ChosenBy[f.target]]
    ELSE [f EXCEPT !.stage = "done", !.returns = "error"]

\* What becomes of a flight when prepareChart fails: a target with a "_" is
\* tried once more under its normal form.
Failed(f) ==
    IF f.target # Latest /\ f.attempt = f.target /\ Norm[f.target] # f.target
    THEN [f EXCEPT !.stage = "prepare", !.attempt = Norm[f.target]]
    ELSE [f EXCEPT !.stage = "done", !.returns = "error"]

\* What becomes of it when prepareChart returns nil: only the first attempt at
\* a target tests the *RegError before it becomes an error.
Prepared(f) ==
    [f EXCEPT !.stage = "done", !.swept = FALSE,
              !.returns = IF f.target # Latest /\ f.attempt = f.target
                          THEN "nil" ELSE "typednil"]

\* No index, no such version, no URL, or no archive; or the context ended
PrepareFails(s, k) ==
    /\ InFlightAt(s, k, "prepare")
    /\ flight' = [flight EXCEPT ![s][k] = Failed(@)]
    /\ UNCHANGED <<svars, req, answer>>

\* The archive is there and converted: oras.Copy begins
PrepareCopies(s, k) ==
    /\ InFlightAt(s, k, "prepare")
    /\ LET t == ChosenBy[flight[s][k].attempt] IN
         /\ t # Absent
         /\ \E i \in Images : BeginCopy(flight[s][k].leader, s, i, t)
    /\ flight' = [flight EXCEPT ![s][k].stage = "copy"]
    /\ UNCHANGED <<req, answer>>

CopyGoesOn(s, k) ==
    /\ InFlightAt(s, k, "copy")
    /\ LET c == flight[s][k].leader IN
         \/ \E b \in Blobs : PutBlob(c, b)
         \/ StampManifest(c)
         \/ WriteManifest(c)
         \/ ReadForTag(c) /\ copy'[c] # Absent
    /\ UNCHANGED rvars

CopyFails(s, k) ==
    /\ InFlightAt(s, k, "copy")
    /\ LET c == flight[s][k].leader IN
         \/ FailCopy(c)
         \/ ReadForTag(c) /\ copy'[c] = Absent
    /\ flight' = [flight EXCEPT ![s][k] = Failed(@)]
    /\ UNCHANGED <<req, answer>>

CopySucceeds(s, k) ==
    /\ InFlightAt(s, k, "copy")
    /\ WriteTag(flight[s][k].leader)
    /\ flight' = [flight EXCEPT ![s][k] = Prepared(@)]
    /\ UNCHANGED <<req, answer>>

Waiting(r, s, k) == At(r, "wait") /\ req[r].slot = s /\ Key[req[r].target] = k

\* The flight is over, all who waited under its key have what it returned: an
\* error is sent to the client (a nil one is dereferenced on the way), nil
\* lets getOrPrepareManifest read again.
EndFlight(s, k) ==
    /\ InFlightAt(s, k, "done")
    /\ flight' = [flight EXCEPT ![s][k] = Absent]
    /\ LET returns == flight[s][k].returns IN
         /\ req' = [r \in Copies |->
                      IF ~Waiting(r, s, k) THEN req[r]
                      ELSE IF returns = "nil"
                      THEN [req[r] EXCEPT !.pc = "read", !.swept = flight[s][k].swept]
                      ELSE Absent]
         /\ answer' = [r \in Copies |->
                         IF ~Waiting(r, s, k) \/ returns = "nil" THEN answer[r]
                         ELSE IF returns = "error" THEN "failed" ELSE "panic"]
    /\ UNCHANGED svars

-----------------------------------------------------------------------------
(* After the flight                                                        *)

\* The second ReadVariant, or HandleTags listing the variant
ReadAgain(r) ==
    /\ At(r, "read")
    /\ LET s == req[r].slot
           x == req[r].target
       IN \/ req[r].kind = "tags" /\ Answer(r, "listed")
          \/ req[r].kind = "manifest" /\ Has(s, x) /\ Answer(r, "served")
          \/ req[r].kind = "manifest" /\ ~Has(s, x) /\ Norm[x] # x /\ Goto(r, "reread")
          \/ req[r].kind = "manifest" /\ ~Has(s, x) /\ Norm[x] = x /\ Answer(r, "notfound")
    /\ UNCHANGED <<svars, flight>>

\* The third one, under the normal form of the target
ReadNormalized(r) ==
    /\ At(r, "reread")
    /\ Answer(r, IF Has(req[r].slot, Norm[req[r].target]) THEN "served" ELSE "notfound")
    /\ UNCHANGED <<svars, flight>>

-----------------------------------------------------------------------------
(* The cleanup, and time                                                   *)

\* `swept` records that a sweep took what the target is read back under: from
\* a flight since it returned, from a request since its flight ended.
Took(s, x) == \E n \in {x, Norm[x]} \cap Names : manifests'[s][n] # manifests[s][n]

NoteSweep ==
    /\ req' = [r \in Copies |->
                 IF req[r] = Absent THEN Absent
                 ELSE [req[r] EXCEPT !.swept = @ \/ Took(req[r].slot, req[r].target)]]
    /\ flight' = [s \in Slots |-> [k \in Targets |->
                    IF flight[s][k] = Absent THEN Absent
                    ELSE [flight[s][k] EXCEPT !.swept = @ \/ Took(s, flight[s][k].target)]]]

Cleanup ==
    \/ Sweep /\ NoteSweep /\ UNCHANGED answer
    \/ (\E b \in Blobs : DeleteBlob(b)) /\ UNCHANGED rvars

FlightStep(s, k) ==
    \/ CheckAgain(s, k)
    \/ PrepareFails(s, k)
    \/ PrepareCopies(s, k)
    \/ CopyGoesOn(s, k)
    \/ CopyFails(s, k)
    \/ CopySucceeds(s, k)
    \/ EndFlight(s, k)

RequestStep(r) ==
    \/ EnterFlight(r)
    \/ ReadAgain(r)
    \/ ReadNormalized(r)

RequestsNext ==
    \/ \E r \in Copies, s \in Slots, x \in Targets, kind \in Kinds : Arrive(r, s, x, kind)
    \/ \E r \in Copies : RequestStep(r)
    \/ \E s \in Slots, k \in Targets : FlightStep(s, k)
    \/ Cleanup
    \/ Tick /\ UNCHANGED rvars

RequestsSpec == Init /\ RequestsInit /\ [][RequestsNext]_allvars

\* Goroutines run; a download ends by DownloadTimeout at the latest.
RequestsFairSpec ==
    /\ RequestsSpec
    /\ \A r \in Copies : WF_allvars(RequestStep(r))
    /\ \A s \in Slots, k \in Targets : WF_allvars(FlightStep(s, k))

-----------------------------------------------------------------------------
(* Properties                                                              *)

RequestsTypeOK ==
    /\ req \in [Copies -> Request \cup {Absent}]
    /\ flight \in [Slots -> [Targets -> Flight \cup {Absent}]]
    /\ answer \in [Copies -> Answers]

\* The service the requests, the store and the cleanup implement together:
\* what it has to serve, and who waits for what.
Servable == {p \in Slots \X Names : Stored(p[1], p[2])}
Pending == [r \in Copies |->
              IF req[r] = Absent THEN Absent
              ELSE [slot |-> req[r].slot, target |-> req[r].target]]

Service == INSTANCE ManifestService WITH
    Clients <- Copies,
    Nobody <- Absent,
    available <- Servable,
    pending <- Pending

\* However flights, copies and cleanups interleave, a client is served only
\* what is stored under the name it asked for, is refused only what is not,
\* and nothing is stored that no client is waiting for.
ServiceSpec == Service!Spec

\* A waiting request has a flight to wait for, and a flight in its copying
\* stage is the one whose leader copies, into the flight's slot.
FlightsConsistent ==
    /\ \A r \in Copies :
         At(r, "wait") => flight[req[r].slot][Key[req[r].target]] # Absent
    /\ \A s \in Slots, k \in Targets : flight[s][k] # Absent =>
         LET f == flight[s][k] IN
         /\ Waiting(f.leader, s, k) /\ req[f.leader].target = f.target
         /\ (f.stage = "copy") = (copy[f.leader] # Absent)
         /\ f.stage = "copy" => copy[f.leader].slot = s

\* index.Get resolves target x to the very name it will be read back under.
Readable(x) == ChosenBy[x] \in {x, Norm[x]}

\* Targets that share a flight are the same, or are not read back at all:
\* no chart has a version "latest".
KeysDistinguish == \A x, y \in Targets : Key[x] = Key[y] /\ Readable(x) => x = y

\* A client that asks for something readable is told "not found" only if a
\* cleanup took it away meanwhile: the double read around the flight loses
\* nothing (manifest.go getOrPrepareManifest and prepareManifest).
NotFoundIsExplained ==
    [][\A r \in Copies : req[r] # Absent /\ answer'[r] = "notfound" /\ answer[r] # "notfound"
          => ~Readable(req[r].target) \/ req[r].swept]_allvars

\* Clients ask for versions under the names the index has them.
VersionsOnly == \A x \in Targets : Norm[x] = x /\ ChosenBy[x] \in {x, Absent}

\* A stored version is not built again, however many clients ask for it at
\* the same time (the second ReadVariant inside singleflight).  For VersionsOnly:
\* nothing else deduplicates the other ways to say one.
StoredIsNotRebuilt ==
    [][\A r \in Copies : copy[r] = Absent /\ copy'[r] # Absent
          => ~Stored(copy'[r].slot, copy'[r].tag)]_allvars

\* Every request is answered: no waiter is left behind by its flight.
RequestsAnswered == \A r \in Copies : req[r] # Absent ~> req[r] = Absent

\* README: the proxy converts the chart and returns it.  A preparation that
\* succeeded is not answered by a panic.
PreparedIsReturned == \A r \in Copies : answer[r] # "panic"
=============================================================================
