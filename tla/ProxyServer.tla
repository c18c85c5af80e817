------------------------------ MODULE ProxyServer ------------------------------
(***************************************************************************)
(* The process: goroutines of the HTTP server that pull or list the        *)
(* catalog, the flights they share, the cleanup goroutine, the one lock    *)
(* they meet at (Manifests.lock), the contexts and timeouts they run       *)
(* under, and main, which serves until a signal and then shuts down        *)
(* (cmd/serve.go, internal/manifest/manifest.go).                          *)
(*                                                                         *)
(* What is stored is a set of charts here; ManifestStore and               *)
(* ManifestRequests say what that means.  Time passes only in downloads    *)
(* and in a shutdown: everything else is local, or waits for a client.     *)
(* A client may read its answer late or never, or go away.                 *)
(***************************************************************************)
EXTENDS Integers

CONSTANTS
    Pullers,          \* clients that ask for a manifest
    Listers,          \* clients that ask for the catalog of this proxy
    Charts,           \* what a flight is keyed by
    Attempts,         \* Attempts[k]: 2 if the target has another normal form
    Cleaner,          \* the cleanup goroutine
    DownloadTimeout,  \* Config.DownloadTimeout, in ticks
    ShutdownTimeout,  \* the grace main gives to requests in progress
    Nobody            \* no flight, no writer

Clients == Pullers \cup Listers

INSTANCE RWMutex WITH Goroutines <- Clients \cup {Cleaner}

VARIABLES
    lock,    \* Manifests.lock
    stored,  \* the charts in Manifests.manifests
    pc,      \* pc[c]: where the handler of client c stands
    asked,   \* asked[p]: the chart puller p asks for
    gone,    \* pullers that went away: the context of their request is over
    flight,  \* flight[k]: the singleflight call for chart k
    main,    \* where main stands
    signal,  \* an interrupt came: the context of main is over
    errCh,   \* what the listener goroutine sent
    grace    \* ticks since Shutdown was called

handlervars == <<lock, stored, pc, asked, gone, flight>>
mainvars == <<main, signal, errCh, grace>>
vars == <<handlervars, mainvars>>

PullerStages == {"idle", "first", "join", "wait", "second", "reply"}
ListerStages == {"idle", "list", "writing"}

\* `lost` says that the manifest an attempt pushed was swept before it is
\* tagged; `refused` and `spent` are history, the attempts upstream turned down
\* or a sweep undid, and the ticks the attempts have taken together.
Flight == [leader: Pullers, stage: {"check", "download", "push", "tag", "store", "done"},
           attempt: {1, 2}, left: 0..DownloadTimeout, ok: BOOLEAN,
           refused: 0..2, lost: BOOLEAN, spent: Nat]

ASSUME ClientsAssumption ==
    /\ Pullers \cap Listers = {}
    /\ Cleaner \notin Clients
    /\ Nobody \notin Clients \cup {Cleaner}
ASSUME TimeAssumption ==
    /\ DownloadTimeout \in Nat \ {0}
    /\ ShutdownTimeout \in Nat
ASSUME FlightAssumption == Nobody \notin Flight /\ Attempts \in [Charts -> {1, 2}]

Running == main \in {"serving", "stopping", "drained"}

Init ==
    /\ lock = Unlocked
    /\ stored = {}
    /\ pc = [c \in Clients |-> "idle"]
    /\ asked \in [Pullers -> Charts]
    /\ gone = {}
    /\ flight = [k \in Charts |-> Nobody]
    /\ main = "serving"
    /\ signal = FALSE
    /\ errCh = "empty"
    /\ grace = 0

-----------------------------------------------------------------------------
(* The lock                                                                *)

Leads(p) == flight[asked[p]] # Nobody /\ flight[asked[p]].leader = p
InStage(k, stage) == flight[k] # Nobody /\ flight[k].stage = stage

\* Client c is where its handler reads the map under the read lock
WantsRead(c) ==
    \/ pc[c] \in {"first", "second", "list"}
    \/ /\ c \in Pullers
       /\ pc[c] = "wait"
       /\ Leads(c)
       /\ flight[asked[c]].stage \in {"check", "tag"}

WantsWrite(p) == pc[p] = "wait" /\ Leads(p) /\ flight[asked[p]].stage \in {"push", "store"}

RLock(c) ==
    /\ WantsRead(c)
    /\ ~Reads(lock, c)
    /\ ~Waits(lock, c)
    /\ lock' = RLocked(lock, c)
    /\ UNCHANGED <<stored, pc, asked, gone, flight>>

Lock(p) ==
    /\ WantsWrite(p)
    /\ lock.writer = Nobody
    /\ lock' = Announced(lock, p)
    /\ UNCHANGED <<stored, pc, asked, gone, flight>>

\* Client c reads and unlocks
Reading(c) == Reads(lock, c) /\ lock' = RUnlocked(lock, c)

\* g writes and unlocks
Writing(g) == MayWrite(lock, g) /\ lock' = WUnlocked(lock)

-----------------------------------------------------------------------------
(* A request for a manifest                                                *)

Goto(c, stage) == pc' = [pc EXCEPT ![c] = stage]

\* A request comes in.  While Shutdown waits it may still be the first one of a
\* connection that was accepted before.
Accepts == main \in {"serving", "stopping"}

Pull(p, k) ==
    /\ Accepts
    /\ pc[p] = "idle"
    /\ asked' = [asked EXCEPT ![p] = k]
    /\ Goto(p, "first")
    /\ UNCHANGED <<lock, stored, gone, flight>>

\* The first ReadVariant of getOrPrepareManifest
ReadFirst(p) ==
    /\ pc[p] = "first"
    /\ Reading(p)
    /\ Goto(p, IF asked[p] \in stored THEN "reply" ELSE "join")
    /\ UNCHANGED <<stored, asked, gone, flight>>

\* singleflight.Do: the first caller leads and prepares under its own context
Join(p) ==
    /\ pc[p] = "join"
    /\ flight' = IF flight[asked[p]] # Nobody THEN flight
                 ELSE [flight EXCEPT ![asked[p]] =
                         [leader |-> p, stage |-> "check", attempt |-> 1, ok |-> FALSE,
                          left |-> DownloadTimeout, refused |-> 0, lost |-> FALSE, spent |-> 0]]
    /\ Goto(p, "wait")
    /\ UNCHANGED <<lock, stored, asked, gone>>

\* The reads after the flight
ReadSecond(p) ==
    /\ pc[p] = "second"
    /\ Reading(p)
    /\ Goto(p, "reply")
    /\ UNCHANGED <<stored, asked, gone, flight>>

\* The handler returns: its client has read the answer or has gone away
Finish(p) ==
    /\ pc[p] = "reply"
    /\ Goto(p, "idle")
    /\ UNCHANGED <<lock, stored, asked, gone, flight>>

\* The client closes its connection and the context of its request is canceled.
\* Nothing but a flight looks at it.
Leave(p) ==
    /\ pc[p] \in {"join", "wait"}
    /\ p \notin gone
    /\ gone' = gone \cup {p}
    /\ UNCHANGED <<lock, stored, pc, asked, flight>>

-----------------------------------------------------------------------------
(* A flight                                                                *)

\* One more attempt was turned down, or undone by a sweep
Refuse(f) == [f EXCEPT !.refused = @ + 1, !.lost = FALSE]

\* The context of the flight: the leader's, with DownloadTimeout
ContextOver(k) == flight[k].left = 0 \/ flight[k].leader \in gone

CheckAgain(k) ==
    /\ InStage(k, "check")
    /\ Reading(flight[k].leader)
    /\ flight' = [flight EXCEPT ![k].stage = IF k \in stored THEN "done" ELSE "download",
                                ![k].ok = k \in stored]
    /\ UNCHANGED <<stored, pc, asked, gone>>

\* Mutant: the second attempt goes on where the first stood
Failed_Again(k, f) ==
    IF f.attempt < 2 THEN [f EXCEPT !.attempt = @ + Attempts[k]] ELSE [f EXCEPT !.stage = "done"]

\* Mutant: the normal form is not tried
Failed_Once(k, f) == [f EXCEPT !.stage = "done"]

\* Mutant: each attempt has a timeout of its own
Failed_NewTimeout(k, f) ==
    IF f.attempt < Attempts[k]
    THEN [f EXCEPT !.stage = "download", !.attempt = 2, !.left = DownloadTimeout]
    ELSE [f EXCEPT !.stage = "done"]

\* An attempt failed: the normal form of the target is tried under the same
\* context, if there is one.
Failed(k, f) ==
    IF f.attempt < Attempts[k] THEN [f EXCEPT !.stage = "download", !.attempt = 2]
    ELSE [f EXCEPT !.stage = "done"]

DownloadSucceeds(k) ==
    /\ InStage(k, "download")
    /\ ~ContextOver(k)
    /\ flight' = [flight EXCEPT ![k].stage = "push"]
    /\ UNCHANGED <<lock, stored, pc, asked, gone>>

\* Upstream answers with an error
DownloadRefused(k) ==
    /\ InStage(k, "download")
    /\ ~ContextOver(k)
    /\ flight' = [flight EXCEPT ![k] = Failed(k, Refuse(@))]
    /\ UNCHANGED <<lock, stored, pc, asked, gone>>

\* The context ends the download, or stops the copy before its manifest
Canceled(k) ==
    /\ InStage(k, "download") \/ (InStage(k, "push") /\ lock.writer # flight[k].leader)
    /\ ContextOver(k)
    /\ flight' = [flight EXCEPT ![k] = Failed(k, @)]
    /\ UNCHANGED <<lock, stored, pc, asked, gone>>

\* Push writes the manifest under its digest
PushManifest(k) ==
    /\ InStage(k, "push")
    /\ Writing(flight[k].leader)
    /\ flight' = [flight EXCEPT ![k].stage = "tag"]
    /\ UNCHANGED <<stored, pc, asked, gone>>

\* Tag reads it back; a miss fails the attempt
ReadForTag(k) ==
    /\ InStage(k, "tag")
    /\ Reading(flight[k].leader)
    /\ \/ ~flight[k].lost /\ flight' = [flight EXCEPT ![k].stage = "store"]
       \/ flight[k].lost /\ flight' = [flight EXCEPT ![k] = Failed(k, Refuse(@))]
    /\ UNCHANGED <<stored, pc, asked, gone>>

\* and writes it under the version
WriteTag(k) ==
    /\ InStage(k, "store")
    /\ Writing(flight[k].leader)
    /\ stored' = stored \cup {k}
    /\ flight' = [flight EXCEPT ![k].stage = "done", ![k].ok = TRUE]
    /\ UNCHANGED <<pc, asked, gone>>

\* Everyone who shares the flight has its result
EndFlight(k) ==
    /\ InStage(k, "done")
    /\ flight' = [flight EXCEPT ![k] = Nobody]
    /\ pc' = [c \in Clients |->
                IF c \in Pullers /\ pc[c] = "wait" /\ asked[c] = k
                THEN IF flight[k].ok THEN "second" ELSE "reply"
                ELSE pc[c]]
    /\ gone' = {p \in gone : pc'[p] = pc[p]}
    /\ UNCHANGED <<lock, stored, asked>>

-----------------------------------------------------------------------------
(* A request for the catalog                                               *)

ListCatalog(c) ==
    /\ Accepts
    /\ pc[c] = "idle"
    /\ Goto(c, "list")
    /\ UNCHANGED <<lock, stored, asked, gone, flight>>

\* Mutant: the handler reads a manifest with the lock in its hands
ReadCatalog_Nested(c) ==
    /\ pc[c] = "list"
    /\ Reads(lock, c)
    /\ lock.writer = Nobody
    /\ Goto(c, "writing")
    /\ UNCHANGED <<lock, stored, asked, gone, flight>>

\* The names are collected; the lock is released when the handler returns
ReadCatalog(c) ==
    /\ pc[c] = "list"
    /\ Reads(lock, c)
    /\ Goto(c, "writing")
    /\ UNCHANGED <<lock, stored, asked, gone, flight>>

\* The client has read the catalog or has gone away: RUnlock
FinishCatalog(c) ==
    /\ pc[c] = "writing"
    /\ Reading(c)
    /\ Goto(c, "idle")
    /\ UNCHANGED <<stored, asked, gone, flight>>

-----------------------------------------------------------------------------
(* The cleanup goroutine, until main's context is over                     *)

CleanupLock ==
    /\ ~signal
    /\ lock.writer = Nobody
    /\ lock' = Announced(lock, Cleaner)
    /\ UNCHANGED <<stored, pc, asked, gone, flight>>

\* What expired goes: charts, and manifests that are not tagged yet
Sweep ==
    /\ Writing(Cleaner)
    /\ stored' \in SUBSET stored
    /\ \E K \in SUBSET {k \in Charts : InStage(k, "tag")} :
         flight' = [k \in Charts |-> IF k \in K THEN [flight[k] EXCEPT !.lost = TRUE] ELSE flight[k]]
    /\ UNCHANGED <<pc, asked, gone>>

-----------------------------------------------------------------------------
(* main                                                                    *)

\* os.Interrupt, the one signal main is told of; another ends the process at once
Signal ==
    /\ main = "serving"
    /\ ~signal
    /\ signal' = TRUE
    /\ UNCHANGED <<handlervars, main, errCh, grace>>

\* Accept fails for good: Serve returns
ServeFails ==
    /\ main = "serving"
    /\ errCh = "empty"
    /\ errCh' = "failed"
    /\ UNCHANGED <<handlervars, main, signal, grace>>

\* The select, when there is an error
ServeFailed ==
    /\ main = "serving"
    /\ errCh = "failed"
    /\ main' = "error"
    /\ UNCHANGED <<handlervars, signal, errCh, grace>>

\* The select, when the context is over: Shutdown closes the listener, and
\* Serve returns ErrServerClosed unless it has returned already.
BeginShutdown ==
    /\ main = "serving"
    /\ signal
    /\ main' = "stopping"
    /\ errCh' = IF errCh = "empty" THEN "closed" ELSE errCh
    /\ UNCHANGED <<handlervars, signal, grace>>

Quiet == \A c \in Clients : pc[c] = "idle"

\* Mutant: the server is closed instead of shut down
Drained_Close ==
    /\ main = "stopping"
    /\ main' = "drained"
    /\ UNCHANGED <<handlervars, signal, errCh, grace>>

\* Shutdown returns nil
Drained ==
    /\ main = "stopping"
    /\ Quiet
    /\ main' = "drained"
    /\ UNCHANGED <<handlervars, signal, errCh, grace>>

\* Mutant: Shutdown is given no deadline
ShutdownTimesOut_Never == FALSE /\ UNCHANGED vars

\* Shutdown returns the error of its context
ShutdownTimesOut ==
    /\ main = "stopping"
    /\ grace = ShutdownTimeout
    /\ main' = "error"
    /\ UNCHANGED <<handlervars, signal, errCh, grace>>

\* main receives what the listener goroutine sent, and returns
Exit ==
    /\ main = "drained"
    /\ main' = IF errCh = "closed" THEN "ok" ELSE "error"
    /\ UNCHANGED <<handlervars, signal, errCh, grace>>

-----------------------------------------------------------------------------
Downloading == {k \in Charts : InStage(k, "download")}

Tick ==
    /\ Running
    /\ Downloading # {} \/ main = "stopping"
    /\ \A k \in Downloading : flight[k].left > 0
    /\ main = "stopping" => grace < ShutdownTimeout
    /\ flight' = [k \in Charts |->
                    IF k \in Downloading
                    THEN [flight[k] EXCEPT !.left = @ - 1, !.spent = @ + 1] ELSE flight[k]]
    /\ grace' = IF main = "stopping" THEN grace + 1 ELSE grace
    /\ UNCHANGED <<lock, stored, pc, asked, gone, main, signal, errCh>>

\* What a goroutine does by itself, wherever it stands
PullerStep(p) == RLock(p) \/ ReadFirst(p) \/ Join(p) \/ ReadSecond(p)
ListerStep(c) == RLock(c) \/ ReadCatalog(c)
FlightStep(k) ==
    CheckAgain(k) \/ Canceled(k) \/ PushManifest(k) \/ ReadForTag(k) \/ WriteTag(k) \/ EndFlight(k)

\* What depends on clients and upstream
Outside ==
    \/ \E p \in Pullers, k \in Charts : Pull(p, k)
    \/ \E p \in Pullers : Finish(p) \/ Leave(p)
    \/ \E c \in Listers : ListCatalog(c) \/ FinishCatalog(c)
    \/ \E k \in Charts : DownloadSucceeds(k) \/ DownloadRefused(k)

Handlers ==
    /\ Running
    /\ \/ \E p \in Pullers : PullerStep(p) \/ Lock(p)
       \/ \E c \in Listers : ListerStep(c)
       \/ \E k \in Charts : FlightStep(k)
       \/ CleanupLock
       \/ Sweep
       \/ Outside
    /\ UNCHANGED mainvars

Returns == ServeFailed \/ BeginShutdown \/ Drained \/ ShutdownTimesOut \/ Exit

\* The process is over
Ended == ~Running /\ UNCHANGED vars

Next == Handlers \/ Signal \/ ServeFails \/ Returns \/ Tick \/ Ended

Spec == Init /\ [][Next]_vars

Runs(A) == Running /\ A /\ UNCHANGED mainvars

\* Goroutines run, time passes, and a writer is not passed over for ever (the
\* mutex among writers has a starvation mode).  Nothing is assumed of clients,
\* of upstream, or of signals.
Fairness ==
    /\ WF_vars(Returns)
    /\ WF_vars(Tick)
    /\ WF_vars(Runs(Sweep))
    /\ \A p \in Pullers : WF_vars(Runs(PullerStep(p))) /\ SF_vars(Runs(Lock(p)))
    /\ \A c \in Listers : WF_vars(Runs(ListerStep(c)))
    /\ \A k \in Charts : WF_vars(Runs(FlightStep(k)))

FairSpec == Spec /\ Fairness

-----------------------------------------------------------------------------
(* Properties                                                              *)

TypeOK ==
    /\ lock \in Mutex
    /\ stored \in SUBSET Charts
    /\ pc \in [Clients -> PullerStages \cup ListerStages]
    /\ asked \in [Pullers -> Charts]
    /\ gone \in SUBSET Pullers
    /\ flight \in [Charts -> Flight \cup {Nobody}]
    /\ main \in {"serving", "stopping", "drained", "ok", "error"}
    /\ signal \in BOOLEAN
    /\ errCh \in {"empty", "failed", "closed"}
    /\ grace \in 0..ShutdownTimeout

\* DOWNLOAD_TIMEOUT bounds what a client waits for upstream, however often the
\* target is tried (manifest.go prepareManifest: one context for both).
DownloadsBounded == \A k \in Charts : flight[k] # Nobody => flight[k].spent <= DownloadTimeout

\* A flight fails only because every form of the target failed, upstream having
\* turned it down or its manifest having expired before it was tagged, or
\* because the time was over or the client that leads it went away; that
\* another client went away is no reason (manifest.go prepareManifest).
FailureIsExplained ==
    \A k \in Charts : InStage(k, "done") /\ ~flight[k].ok =>
        flight[k].refused = Attempts[k] \/ ContextOver(k)

\* The process exits with success only when every request was finished, after
\* a signal, and not when the listener had failed (serve.go).
CleanExit == main = "ok" => Quiet /\ signal /\ errCh = "closed"

\* After a signal the process ends, whatever clients and upstream do.
SignalEndsProcess == signal ~> ~Running

\* A request for a manifest comes to its answer unless a client of the catalog
\* stops reading for ever: no other client that stops, and no timeout, writer
\* or cleanup, can hold it up (manifest.go HandleCatalog writes to its client
\* under the read lock, and is the only one to).
Answered(p) == pc[p] \in {"idle", "reply"}
PullsComeToAnAnswer ==
    (\A c \in Listers : []<>(pc[c] # "writing")) =>
        \A p \in Pullers : ~Answered(p) ~> Answered(p) \/ ~Running
=============================================================================
