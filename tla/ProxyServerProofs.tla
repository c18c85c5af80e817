--------------------------- MODULE ProxyServerProofs ---------------------------
(***************************************************************************)
(* For any number of clients, charts and ticks: downloads are bounded, a   *)
(* flight that fails has its reason, and the process exits cleanly.        *)
(*                                                                         *)
(* The first two rest on FlightInv: the leader of a flight waits for it,   *)
(* so nothing that changes another handler touches its context, and every  *)
(* attempt before the present one was refused or had no time.              *)
(***************************************************************************)
EXTENDS ProxyServer, TLAPS

\* The leader waits for its own flight
Led(k) ==
    /\ flight[k].leader \in Pullers
    /\ pc[flight[k].leader] = "wait"
    /\ asked[flight[k].leader] = k

\* The time an attempt takes is taken from the flight, and attempts end in turn
Counted(k, f) ==
    /\ f.left + f.spent = DownloadTimeout
    /\ f.attempt <= Attempts[k]
    /\ f.stage = "check" => f.attempt = 1
    /\ f.stage # "done" => f.refused < f.attempt

\* What failed so far was refused, or `over` is true
Explained(k, f, over) ==
    /\ f.stage # "done" => f.refused = f.attempt - 1 \/ over
    /\ f.stage = "done" /\ ~f.ok => f.refused = Attempts[k] \/ over

FlightInv ==
    \A k \in Charts : flight[k] # Nobody =>
        Led(k) /\ Counted(k, flight[k]) /\ Explained(k, flight[k], ContextOver(k))

ServerInv == TypeOK /\ FlightInv

-----------------------------------------------------------------------------
(* The lock and the attempts                                               *)

LEMMA LockTypes ==
    ASSUME NEW m \in Mutex, NEW g \in Clients \cup {Cleaner}
    PROVE  /\ RLocked(m, g) \in Mutex
           /\ RUnlocked(m, g) \in Mutex
           /\ Announced(m, g) \in Mutex
           /\ WUnlocked(m) \in Mutex
  BY DEF Mutex, RLocked, RUnlocked, Announced, WUnlocked

LEMMA FailedFlight ==
    ASSUME NEW k \in Charts, NEW f \in Flight, NEW over \in BOOLEAN,
           f.left + f.spent = DownloadTimeout,
           f.attempt <= Attempts[k],
           f.refused <= f.attempt,
           f.refused = f.attempt \/ over,
           f.stage # "done"
    PROVE  /\ Failed(k, f) \in Flight
           /\ Failed(k, f).leader = f.leader
           /\ Failed(k, f).left = f.left
           /\ Counted(k, Failed(k, f))
           /\ Explained(k, Failed(k, f), over)
  <1>1. f.attempt \in {1, 2} /\ Attempts[k] \in {1, 2} /\ f.refused \in 0..2
    BY FlightAssumption DEF Flight
  <1>2. CASE f.attempt < Attempts[k]
    <2>1. Failed(k, f) = [f EXCEPT !.stage = "download", !.attempt = 2]
      BY <1>2 DEF Failed
    <2>2. f.attempt = 1 /\ Attempts[k] = 2
      BY <1>1, <1>2
    <2>3. Failed(k, f) \in Flight
      BY <2>1 DEF Flight
    <2>4. /\ Failed(k, f).stage = "download"
          /\ Failed(k, f).attempt = 2
          /\ Failed(k, f).refused = f.refused
          /\ Failed(k, f).leader = f.leader
          /\ Failed(k, f).left = f.left
          /\ Failed(k, f).spent = f.spent
      BY <2>1 DEF Flight
    <2>5. Counted(k, Failed(k, f))
      BY <1>1, <2>2, <2>4 DEF Counted
    <2>6. Explained(k, Failed(k, f), over)
      BY <1>1, <2>2, <2>4 DEF Explained
    <2> QED
      BY <2>3, <2>4, <2>5, <2>6
  <1>3. CASE ~(f.attempt < Attempts[k])
    <2>1. Failed(k, f) = [f EXCEPT !.stage = "done"]
      BY <1>3 DEF Failed
    <2>2. f.attempt = Attempts[k]
      BY <1>1, <1>3
    <2> QED
      BY <1>1, <2>1, <2>2 DEF Flight, Counted, Explained
  <1> QED
    BY <1>2, <1>3

\* A step of one flight
LEMMA FlightChanges ==
    ASSUME ServerInv, NEW k \in Charts, NEW g \in Flight,
           flight[k] # Nobody,
           flight' = [flight EXCEPT ![k] = g],
           g.leader = flight[k].leader,
           Counted(k, g),
           Explained(k, g, g.left = 0 \/ g.leader \in gone),
           UNCHANGED <<pc, asked, gone>>
    PROVE  flight' \in [Charts -> Flight \cup {Nobody}] /\ FlightInv'
  <1>1. flight' \in [Charts -> Flight \cup {Nobody}]
    BY DEF ServerInv, TypeOK
  <1>2. ASSUME NEW j \in Charts, flight'[j] # Nobody
        PROVE  Led(j)' /\ Counted(j, flight'[j]) /\ Explained(j, flight'[j], ContextOver(j)')
    <2>1. CASE j = k
      BY <2>1 DEF ServerInv, TypeOK, FlightInv, Led, ContextOver
    <2>2. CASE j # k
      <3>1. flight'[j] = flight[j]
        BY <2>2 DEF ServerInv, TypeOK
      <3>2. ContextOver(j)' = ContextOver(j)
        BY <3>1 DEF ContextOver
      <3> QED
        BY <1>2, <3>1, <3>2 DEF ServerInv, FlightInv, Led
    <2> QED
      BY <2>1, <2>2
  <1> QED
    BY <1>1, <1>2 DEF FlightInv, Led, Counted, Explained, ContextOver

\* A step that changes no flight, and no handler that waits for one
LEMMA FlightsKept ==
    ASSUME ServerInv, flight' = flight, gone \subseteq gone',
           \A p \in Pullers : pc[p] = "wait" => pc'[p] = "wait" /\ asked'[p] = asked[p]
    PROVE  FlightInv'
  <1> SUFFICES ASSUME NEW k \in Charts, flight'[k] # Nobody
               PROVE  Led(k)' /\ Counted(k, flight[k]) /\ Explained(k, flight[k], ContextOver(k)')
    BY DEF FlightInv, Led, Counted, Explained, ContextOver
  <1>1. Led(k) /\ Counted(k, flight[k]) /\ Explained(k, flight[k], ContextOver(k))
    BY DEF ServerInv, FlightInv
  <1>2. ContextOver(k) => ContextOver(k)'
    BY DEF ContextOver
  <1> QED
    BY <1>1, <1>2 DEF Led, Explained

-----------------------------------------------------------------------------
(* Steps of a handler                                                      *)

LEMMA HandlerSteps ==
    ASSUME ServerInv, UNCHANGED mainvars, NEW p \in Pullers,
           \/ PullerStep(p)
           \/ Lock(p)
           \/ \E k \in Charts : Pull(p, k)
           \/ Finish(p)
           \/ Leave(p)
    PROVE  ServerInv'
  <1> USE DEF ServerInv, TypeOK, mainvars, Clients, PullerStages
  <1>1. CASE RLock(p)
    <2>1. lock' \in Mutex
      BY <1>1, LockTypes DEF RLock
    <2> QED
      BY <1>1, <2>1, FlightsKept DEF RLock
  <1>2. CASE ReadFirst(p)
    <2>1. lock' \in Mutex
      BY <1>2, LockTypes DEF ReadFirst, Reading
    <2>2. FlightInv'
      BY <1>2, FlightsKept DEF ReadFirst, Goto
    <2> QED
      BY <1>2, <2>1, <2>2 DEF ReadFirst, Goto
  <1>3. CASE ReadSecond(p)
    <2>1. lock' \in Mutex
      BY <1>3, LockTypes DEF ReadSecond, Reading
    <2>2. FlightInv'
      BY <1>3, FlightsKept DEF ReadSecond, Goto
    <2> QED
      BY <1>3, <2>1, <2>2 DEF ReadSecond, Goto
  <1>4. CASE Lock(p)
    <2>1. lock' \in Mutex
      BY <1>4, LockTypes DEF Lock
    <2> QED
      BY <1>4, <2>1, FlightsKept DEF Lock
  <1>5. ASSUME NEW k \in Charts, Pull(p, k)
        PROVE  ServerInv'
    <2>1. FlightInv'
      BY <1>5, FlightsKept DEF Pull, Goto
    <2> QED
      BY <1>5, <2>1 DEF Pull, Goto
  <1>6. CASE Finish(p)
    <2>1. FlightInv'
      BY <1>6, FlightsKept DEF Finish, Goto
    <2> QED
      BY <1>6, <2>1 DEF Finish, Goto
  <1>7. CASE Leave(p)
    <2>1. FlightInv'
      BY <1>7, FlightsKept DEF Leave
    <2> QED
      BY <1>7, <2>1 DEF Leave
  <1>8. CASE Join(p) /\ flight[asked[p]] # Nobody
    <2>1. FlightInv'
      BY <1>8, FlightsKept DEF Join, Goto
    <2> QED
      BY <1>8, <2>1 DEF Join, Goto
  <1>9. CASE Join(p) /\ flight[asked[p]] = Nobody
    <2> DEFINE g == [leader |-> p, stage |-> "check", attempt |-> 1, ok |-> FALSE,
                     left |-> DownloadTimeout, refused |-> 0, lost |-> FALSE, spent |-> 0]
    <2>1. g \in Flight /\ flight' = [flight EXCEPT ![asked[p]] = g]
      BY <1>9, TimeAssumption DEF Join, Flight
    <2>2. flight' \in [Charts -> Flight \cup {Nobody}] /\ pc' = [pc EXCEPT ![p] = "wait"]
      BY <1>9, <2>1 DEF Join, Goto
    <2>3. ASSUME NEW k \in Charts, flight'[k] # Nobody
          PROVE  Led(k)' /\ Counted(k, flight'[k]) /\ Explained(k, flight'[k], ContextOver(k)')
      <3>1. CASE k = asked[p]
        <4>1. flight'[k] = g
          BY <2>1, <3>1
        <4>2. Counted(k, g) /\ Explained(k, g, ContextOver(k)')
          BY TimeAssumption, FlightAssumption DEF Counted, Explained
        <4> QED
          BY <1>9, <2>2, <3>1, <4>1, <4>2 DEF Led, Join
      <3>2. CASE k # asked[p]
        <4>1. flight'[k] = flight[k] /\ asked' = asked /\ gone' = gone
          BY <1>9, <2>1, <3>2 DEF Join
        <4>2. ContextOver(k)' = ContextOver(k)
          BY <4>1 DEF ContextOver
        <4> QED
          BY <2>2, <2>3, <4>1, <4>2 DEF FlightInv, Led
      <3> QED
        BY <3>1, <3>2
    <2>4. FlightInv'
      BY <2>3 DEF FlightInv, Led, Counted, Explained, ContextOver
    <2> QED
      BY <1>9, <2>2, <2>4 DEF Join
  <1> QED
    BY <1>1, <1>2, <1>3, <1>4, <1>5, <1>6, <1>7, <1>8, <1>9 DEF PullerStep

LEMMA ListerSteps ==
    ASSUME ServerInv, UNCHANGED mainvars, NEW c \in Listers,
           ListerStep(c) \/ ListCatalog(c) \/ FinishCatalog(c)
    PROVE  ServerInv'
  <1> USE ClientsAssumption DEF ServerInv, TypeOK, mainvars, Clients, ListerStages
  <1>1. CASE RLock(c)
    <2>1. lock' \in Mutex
      BY <1>1, LockTypes DEF RLock
    <2> QED
      BY <1>1, <2>1, FlightsKept DEF RLock
  <1>2. CASE ReadCatalog(c) \/ ListCatalog(c)
    <2>1. FlightInv'
      BY <1>2, FlightsKept DEF ReadCatalog, ListCatalog, Goto
    <2> QED
      BY <1>2, <2>1 DEF ReadCatalog, ListCatalog, Goto
  <1>3. CASE FinishCatalog(c)
    <2>1. lock' \in Mutex
      BY <1>3, LockTypes DEF FinishCatalog, Reading
    <2>2. FlightInv'
      BY <1>3, FlightsKept DEF FinishCatalog, Goto
    <2> QED
      BY <1>3, <2>1, <2>2 DEF FinishCatalog, Goto
  <1> QED
    BY <1>1, <1>2, <1>3 DEF ListerStep

-----------------------------------------------------------------------------
(* Steps of a flight                                                       *)

LEMMA FlightSteps ==
    ASSUME ServerInv, UNCHANGED mainvars, NEW k \in Charts,
           FlightStep(k) \/ DownloadSucceeds(k) \/ DownloadRefused(k)
    PROVE  ServerInv'
  <1> DEFINE f == flight[k]
             over == ContextOver(k)
  <1> USE DEF ServerInv, TypeOK
  <1>1. /\ f # Nobody
        /\ f \in Flight
        /\ f.leader \in Clients \cup {Cleaner}
        /\ over \in BOOLEAN
        /\ Led(k)
        /\ Counted(k, f)
        /\ Explained(k, f, over)
    BY DEF FlightStep, CheckAgain, Canceled, PushManifest, ReadForTag, WriteTag, EndFlight,
           DownloadSucceeds, DownloadRefused, InStage, FlightInv, Flight, ContextOver, Clients
  <1>2. f.attempt \in {1, 2} /\ f.refused \in 0..2 /\ Attempts[k] \in {1, 2}
    BY <1>1, FlightAssumption DEF Flight
  \* It is enough to say what becomes of the flight, of the lock and of the store
  <1>3. ASSUME NEW g \in Flight,
               flight' = [flight EXCEPT ![k] = g],
               g.leader = f.leader,
               g.left = f.left,
               Counted(k, g),
               Explained(k, g, over),
               lock' \in Mutex,
               stored' \in SUBSET Charts,
               UNCHANGED <<pc, asked, gone>>
        PROVE  ServerInv'
    <2>1. Explained(k, g, g.left = 0 \/ g.leader \in gone)
      BY <1>3 DEF ContextOver
    <2>2. flight' \in [Charts -> Flight \cup {Nobody}] /\ FlightInv'
      BY <1>1, <1>3, <2>1, FlightChanges
    <2> QED
      BY <1>3, <2>2 DEF mainvars
  <1>4. CASE CheckAgain(k)
    <2>1. lock' \in Mutex
      BY <1>1, <1>4, LockTypes DEF CheckAgain, Reading
    <2>2. f.stage = "check"
      BY <1>1, <1>4 DEF CheckAgain, InStage
    <2>3. CASE k \in stored
      <3> DEFINE g == [f EXCEPT !.stage = "done", !.ok = TRUE]
      <3>1. flight' = [flight EXCEPT ![k] = g]
        BY <1>1, <1>4, <2>3 DEF CheckAgain, Flight
      <3>2. /\ g \in Flight
            /\ g.leader = f.leader
            /\ g.left = f.left
            /\ g.spent = f.spent
            /\ g.attempt = f.attempt
            /\ g.stage = "done"
            /\ g.ok
        BY <1>1 DEF Flight
      <3>3. Counted(k, g) /\ Explained(k, g, over)
        BY <1>1, <3>2 DEF Counted, Explained
      <3> stored' \in SUBSET Charts
        BY <1>4 DEF CheckAgain
      <3> HIDE DEF g
      <3> QED
        BY <1>3, <1>4, <2>1, <3>1, <3>2, <3>3 DEF CheckAgain
    <2>4. CASE k \notin stored
      <3> DEFINE g == [f EXCEPT !.stage = "download", !.ok = FALSE]
      <3>1. flight' = [flight EXCEPT ![k] = g]
        <4>1. (k \in stored) = FALSE /\ (IF k \in stored THEN "done" ELSE "download") = "download"
          BY <2>4
        <4>2. flight' = [flight EXCEPT ![k].stage = "download", ![k].ok = FALSE]
          BY <1>4, <4>1, Zenon DEF CheckAgain
        <4> QED
          BY <1>1, <4>2 DEF Flight
      <3>2. /\ g \in Flight
            /\ g.leader = f.leader
            /\ g.left = f.left
            /\ g.spent = f.spent
            /\ g.attempt = f.attempt
            /\ g.refused = f.refused
            /\ g.stage = "download"
        BY <1>1 DEF Flight
      <3>3. Counted(k, g) /\ Explained(k, g, over)
        BY <1>1, <1>2, <2>2, <3>2 DEF Counted, Explained
      <3> stored' \in SUBSET Charts
        BY <1>4 DEF CheckAgain
      <3> HIDE DEF g
      <3> QED
        BY <1>3, <1>4, <2>1, <3>1, <3>2, <3>3 DEF CheckAgain
    <2> QED
      BY <2>3, <2>4
  <1>5. CASE DownloadSucceeds(k) \/ PushManifest(k) \/ (ReadForTag(k) /\ ~f.lost)
    <2> DEFINE g == [f EXCEPT !.stage = CASE f.stage = "download" -> "push"
                                          [] f.stage = "push" -> "tag"
                                          [] f.stage = "tag" -> "store"]
    <2>1. lock' \in Mutex
      BY <1>1, <1>5, LockTypes DEF DownloadSucceeds, PushManifest, ReadForTag, Reading, Writing
    <2>2. flight' = [flight EXCEPT ![k] = g] /\ f.stage \in {"download", "push", "tag"}
      BY <1>1, <1>5 DEF DownloadSucceeds, PushManifest, ReadForTag, InStage, Flight
    <2>3. /\ g \in Flight
          /\ g.leader = f.leader
          /\ g.left = f.left
          /\ g.spent = f.spent
          /\ g.attempt = f.attempt
          /\ g.refused = f.refused
          /\ g.stage \in {"push", "tag", "store"}
      BY <1>1, <2>2 DEF Flight
    <2>4. Counted(k, g) /\ Explained(k, g, over)
      BY <1>1, <1>2, <2>2, <2>3 DEF Counted, Explained
    <2> QED
      BY <1>3, <1>5, <2>1, <2>2, <2>3, <2>4 DEF DownloadSucceeds, PushManifest, ReadForTag
  \* The attempt was refused, or undone by a sweep
  <1>6. CASE DownloadRefused(k) \/ (ReadForTag(k) /\ f.lost)
    <2>1. lock' \in Mutex
      BY <1>1, <1>6, LockTypes DEF DownloadRefused, ReadForTag, Reading
    <2>2. flight' = [flight EXCEPT ![k] = Failed(k, Refuse(f))] /\ f.stage \in {"download", "tag"}
      BY <1>1, <1>6 DEF DownloadRefused, ReadForTag, InStage
    <2>3. /\ f.refused + 1 \in 0..2
          /\ f.refused + 1 <= f.attempt
          /\ f.refused + 1 = f.attempt \/ over
      BY <1>1, <1>2, <2>2 DEF Counted, Explained
    <2>4. /\ Refuse(f) \in Flight
          /\ Refuse(f).leader = f.leader
          /\ Refuse(f).left = f.left
          /\ Refuse(f).spent = f.spent
          /\ Refuse(f).attempt = f.attempt
          /\ Refuse(f).refused = f.refused + 1
          /\ Refuse(f).stage = f.stage
      BY <1>1, <2>3 DEF Flight, Refuse
    <2> DEFINE g == Failed(k, Refuse(f))
    <2>5. g \in Flight /\ g.leader = f.leader /\ g.left = f.left
          /\ Counted(k, g) /\ Explained(k, g, over)
      <3> HIDE DEF over
      <3> QED
        BY <1>1, <2>2, <2>3, <2>4, FailedFlight DEF Counted
    <2> QED
      BY <1>3, <1>6, <2>1, <2>2, <2>5 DEF DownloadRefused, ReadForTag
  <1>7. CASE Canceled(k)
    <2>1. flight' = [flight EXCEPT ![k] = Failed(k, f)] /\ over /\ f.stage \in {"download", "push"}
      BY <1>1, <1>7 DEF Canceled, InStage
    <2>2. f.refused <= f.attempt
      BY <1>1, <1>2, <2>1 DEF Counted
    <2>3. /\ Failed(k, f) \in Flight
          /\ Failed(k, f).leader = f.leader
          /\ Failed(k, f).left = f.left
          /\ Counted(k, Failed(k, f))
          /\ Explained(k, Failed(k, f), over)
      BY <1>1, <2>1, <2>2, FailedFlight DEF Counted
    <2> QED
      BY <1>3, <1>7, <2>1, <2>3 DEF Canceled
  <1>8. CASE WriteTag(k)
    <2> DEFINE g == [f EXCEPT !.stage = "done", !.ok = TRUE]
    <2>1. lock' \in Mutex
      BY <1>1, <1>8, LockTypes DEF WriteTag, Writing
    <2>2. flight' = [flight EXCEPT ![k] = g]
      BY <1>1, <1>8 DEF WriteTag, Flight
    <2>3. /\ g \in Flight
          /\ g.leader = f.leader
          /\ g.left = f.left
          /\ g.spent = f.spent
          /\ g.attempt = f.attempt
          /\ g.stage = "done"
          /\ g.ok
      BY <1>1 DEF Flight
    <2> stored' \in SUBSET Charts
      BY <1>8 DEF WriteTag
    <2> HIDE DEF g
    <2>4. Counted(k, g) /\ Explained(k, g, over)
      BY <1>1, <2>3 DEF Counted, Explained
    <2> QED
      BY <1>3, <1>8, <2>1, <2>2, <2>3, <2>4 DEF WriteTag
  <1>9. CASE EndFlight(k)
    <2>1. flight' = [flight EXCEPT ![k] = Nobody]
      BY <1>9 DEF EndFlight
    <2>2. pc' \in [Clients -> PullerStages \cup ListerStages] /\ gone' \in SUBSET Pullers
      BY <1>9 DEF EndFlight, PullerStages
    <2>3. ASSUME NEW j \in Charts, flight'[j] # Nobody
          PROVE  Led(j)' /\ Counted(j, flight'[j]) /\ Explained(j, flight'[j], ContextOver(j)')
      <3>1. j # k /\ flight'[j] = flight[j] /\ flight[j] # Nobody
        BY <2>1, <2>3
      <3>2. Led(j) /\ Counted(j, flight[j]) /\ Explained(j, flight[j], ContextOver(j))
        BY <3>1 DEF FlightInv
      <3>3. pc'[flight[j].leader] = pc[flight[j].leader] /\ asked' = asked
        BY <1>9, <3>1, <3>2 DEF EndFlight, Led, Clients
      <3>4. ContextOver(j) => ContextOver(j)'
        BY <1>9, <3>1, <3>3 DEF EndFlight, ContextOver
      <3> QED
        BY <3>1, <3>2, <3>3, <3>4 DEF Led, Explained
    <2>4. FlightInv'
      BY <2>3 DEF FlightInv, Led, Counted, Explained, ContextOver
    <2> QED
      BY <1>9, <2>1, <2>2, <2>4 DEF EndFlight, mainvars
  <1> QED
    BY <1>1, <1>4, <1>5, <1>6, <1>7, <1>8, <1>9 DEF FlightStep, ReadForTag

-----------------------------------------------------------------------------
(* The cleanup, time, and main                                             *)

LEMMA CleanupSteps ==
    ASSUME ServerInv, UNCHANGED mainvars, CleanupLock \/ Sweep
    PROVE  ServerInv'
  <1> USE DEF ServerInv, TypeOK
  <1>1. CASE CleanupLock
    <2>1. lock' \in Mutex
      BY <1>1, LockTypes DEF CleanupLock
    <2> QED
      BY <1>1, <2>1, FlightsKept DEF CleanupLock, mainvars
  <1>2. CASE Sweep
    <2>1. lock' \in Mutex /\ UNCHANGED <<pc, asked, gone>> /\ stored' \in SUBSET Charts
      BY <1>2, LockTypes DEF Sweep, Writing
    <2>2. PICK K \in SUBSET {k \in Charts : InStage(k, "tag")} :
            flight' = [k \in Charts |-> IF k \in K THEN [flight[k] EXCEPT !.lost = TRUE] ELSE flight[k]]
      BY <1>2 DEF Sweep
    <2>3. ASSUME NEW k \in Charts, flight'[k] # Nobody
          PROVE  /\ flight'[k] \in Flight
                 /\ Led(k)' /\ Counted(k, flight'[k]) /\ Explained(k, flight'[k], ContextOver(k)')
      <3>1. flight[k] # Nobody /\ flight[k] \in Flight
        BY <2>2, <2>3 DEF InStage
      <3>2. Led(k) /\ Counted(k, flight[k]) /\ Explained(k, flight[k], ContextOver(k))
        BY <3>1 DEF FlightInv
      <3>3. /\ flight'[k] \in Flight
            /\ flight'[k].leader = flight[k].leader
            /\ flight'[k].stage = flight[k].stage
            /\ flight'[k].attempt = flight[k].attempt
            /\ flight'[k].left = flight[k].left
            /\ flight'[k].ok = flight[k].ok
            /\ flight'[k].refused = flight[k].refused
            /\ flight'[k].spent = flight[k].spent
        BY <2>2, <3>1 DEF Flight
      <3>4. ContextOver(k)' = ContextOver(k)
        BY <2>1, <3>3 DEF ContextOver
      <3> QED
        BY <2>1, <3>2, <3>3, <3>4 DEF Led, Counted, Explained
    <2>4. flight' \in [Charts -> Flight \cup {Nobody}]
      BY <2>2, <2>3
    <2>5. FlightInv'
      BY <2>3 DEF FlightInv, Led, Counted, Explained, ContextOver
    <2> QED
      BY <2>1, <2>4, <2>5 DEF mainvars
  <1> QED
    BY <1>1, <1>2

LEMMA TimePasses == ServerInv /\ Tick => ServerInv'
  <1> SUFFICES ASSUME ServerInv, Tick PROVE ServerInv'
    OBVIOUS
  <1> USE TimeAssumption DEF ServerInv, TypeOK
  <1>1. UNCHANGED <<lock, stored, pc, asked, gone, main, signal, errCh>>
    BY DEF Tick
  <1>2. grace' \in 0..ShutdownTimeout
    <2>1. grace' = (IF main = "stopping" THEN grace + 1 ELSE grace)
          /\ (main = "stopping" => grace < ShutdownTimeout)
      BY DEF Tick
    <2>2. grace \in Nat /\ grace <= ShutdownTimeout /\ ShutdownTimeout \in Nat
      OBVIOUS
    <2> QED
      BY <2>1, <2>2
  <1>3. ASSUME NEW k \in Charts, flight'[k] # Nobody
        PROVE  /\ flight'[k] \in Flight
               /\ Led(k)' /\ Counted(k, flight'[k]) /\ Explained(k, flight'[k], ContextOver(k)')
    <2>1. flight'[k] = IF k \in Downloading
                       THEN [flight[k] EXCEPT !.left = @ - 1, !.spent = @ + 1] ELSE flight[k]
      BY DEF Tick
    <2>2. flight[k] # Nobody /\ flight[k] \in Flight
      BY <1>3, <2>1 DEF Downloading, InStage
    <2>3. Led(k) /\ Counted(k, flight[k]) /\ Explained(k, flight[k], ContextOver(k))
      BY <2>2 DEF FlightInv
    <2>4. CASE k \in Downloading
      <3>1. flight[k].left \in 1..DownloadTimeout /\ flight[k].spent \in Nat
        <4>1. flight[k].left > 0
          BY <2>4 DEF Tick
        <4>2. flight[k].left \in 0..DownloadTimeout /\ flight[k].spent \in Nat
          BY <2>2 DEF Flight
        <4> QED
          BY <4>1, <4>2
      <3>2. /\ flight'[k] \in Flight
            /\ flight'[k].leader = flight[k].leader
            /\ flight'[k].stage = flight[k].stage
            /\ flight'[k].attempt = flight[k].attempt
            /\ flight'[k].ok = flight[k].ok
            /\ flight'[k].refused = flight[k].refused
            /\ flight'[k].left = flight[k].left - 1
            /\ flight'[k].spent = flight[k].spent + 1
        <4>1. flight'[k] = [flight[k] EXCEPT !.left = flight[k].left - 1,
                                             !.spent = flight[k].spent + 1]
          BY <2>1, <2>2, <2>4
        <4>2. flight[k].left - 1 \in 0..DownloadTimeout /\ flight[k].spent + 1 \in Nat
          BY <3>1
        <4> QED
          BY <2>2, <4>1, <4>2 DEF Flight
      <3>3. ContextOver(k) => ContextOver(k)'
        BY <1>1, <3>1, <3>2 DEF ContextOver
      <3>4. flight'[k].left + flight'[k].spent = DownloadTimeout
        BY <2>3, <3>1, <3>2 DEF Counted
      <3> QED
        BY <1>1, <2>3, <3>2, <3>3, <3>4 DEF Led, Counted, Explained
    <2>5. CASE k \notin Downloading
      BY <1>1, <2>1, <2>2, <2>3, <2>5 DEF Led, ContextOver
    <2> QED
      BY <2>4, <2>5
  <1>4. flight' \in [Charts -> Flight \cup {Nobody}]
    BY <1>3 DEF Tick
  <1>5. FlightInv'
    BY <1>3 DEF FlightInv, Led, Counted, Explained, ContextOver
  <1> QED
    BY <1>1, <1>2, <1>4, <1>5

LEMMA MainSteps == ServerInv /\ (Signal \/ ServeFails \/ Returns \/ Ended) => ServerInv'
  <1> SUFFICES ASSUME ServerInv, Signal \/ ServeFails \/ Returns \/ Ended PROVE ServerInv'
    OBVIOUS
  <1>1. UNCHANGED <<lock, stored, pc, asked, gone, flight, grace>>
    BY DEF Signal, ServeFails, Returns, Ended, ServeFailed, BeginShutdown, Drained,
           ShutdownTimesOut, Exit, handlervars, vars, mainvars
  <1>2. FlightInv'
    BY <1>1, FlightsKept
  <1>3. /\ main' \in {"serving", "stopping", "drained", "ok", "error"}
        /\ signal' \in BOOLEAN
        /\ errCh' \in {"empty", "failed", "closed"}
    BY DEF Signal, ServeFails, Returns, Ended, ServeFailed, BeginShutdown, Drained,
           ShutdownTimesOut, Exit, vars, mainvars, ServerInv, TypeOK
  <1> QED
    BY <1>1, <1>2, <1>3 DEF ServerInv, TypeOK

-----------------------------------------------------------------------------
(* The theorems about downloads and flights                                *)

LEMMA ServerInit == Init => ServerInv
  <1> SUFFICES ASSUME Init PROVE ServerInv
    OBVIOUS
  <1>1. Unlocked \in Mutex
    BY DEF Unlocked, Mutex
  <1>2. 0 \in 0..ShutdownTimeout
    BY TimeAssumption
  <1> QED
    BY <1>1, <1>2 DEF Init, ServerInv, TypeOK, FlightInv, PullerStages

LEMMA ServerStep == ServerInv /\ [Next]_vars => ServerInv'
  <1> SUFFICES ASSUME ServerInv, [Next]_vars PROVE ServerInv'
    OBVIOUS
  <1>1. CASE Handlers
    BY <1>1, HandlerSteps, ListerSteps, FlightSteps, CleanupSteps DEF Handlers, Outside
  <1>2. CASE Signal \/ ServeFails \/ Returns \/ Ended
    BY <1>2, MainSteps
  <1>3. CASE Tick
    BY <1>3, TimePasses
  <1>4. CASE UNCHANGED vars
    <2>1. FlightInv'
      BY <1>4, FlightsKept DEF vars, handlervars
    <2> QED
      BY <1>4, <2>1 DEF ServerInv, TypeOK, vars, handlervars, mainvars
  <1> QED
    BY <1>1, <1>2, <1>3, <1>4 DEF Next

THEOREM ServerInvHolds == Spec => []ServerInv
  BY ServerInit, ServerStep, PTL DEF Spec

\* The state of the process stays what its declarations say (manifest.go,
\* serve.go).
THEOREM ServerTypeCorrect == Spec => []TypeOK
  <1>1. ServerInv => TypeOK
    BY DEF ServerInv
  <1> QED
    BY <1>1, ServerInvHolds, PTL

\* However many clients, charts and forms of a version there are, no client
\* waits for upstream longer than DOWNLOAD_TIMEOUT (prepareManifest).
THEOREM DownloadsAreBounded == Spec => []DownloadsBounded
  <1>1. ServerInv => DownloadsBounded
    BY TimeAssumption DEF ServerInv, TypeOK, FlightInv, Counted, DownloadsBounded, Flight
  <1> QED
    BY <1>1, ServerInvHolds, PTL

\* A flight that failed was refused in every form, or its own context is over
\* (prepareManifest).
THEOREM FailuresAreExplained == Spec => []FailureIsExplained
  <1>1. ServerInv => FailureIsExplained
    BY DEF ServerInv, FlightInv, Explained, FailureIsExplained, InStage
  <1> QED
    BY <1>1, ServerInvHolds, PTL

-----------------------------------------------------------------------------
(* The exit                                                                *)

\* What main has seen, and that no handler starts once it has seen none
ExitInv ==
    /\ main \in {"stopping", "drained", "ok"} => signal
    /\ main \in {"drained", "ok"} => Quiet
    /\ main = "ok" => errCh = "closed"

LEMMA QuietStays ==
    ASSUME TypeOK, ~Accepts, Quiet, Handlers
    PROVE  Quiet'
  <1>1. ASSUME NEW p \in Pullers, PullerStep(p) \/ Lock(p) \/ Finish(p) \/ Leave(p)
        PROVE  UNCHANGED pc
    BY <1>1 DEF PullerStep, RLock, ReadFirst, Join, ReadSecond, Lock, Finish, Leave, Quiet, Clients
  <1>2. ASSUME NEW c \in Listers, ListerStep(c) \/ FinishCatalog(c)
        PROVE  UNCHANGED pc
    BY <1>2 DEF ListerStep, RLock, ReadCatalog, FinishCatalog, Quiet, Clients
  <1>3. ASSUME NEW k \in Charts, FlightStep(k) \/ DownloadSucceeds(k) \/ DownloadRefused(k)
        PROVE  \A c \in Clients : pc'[c] = pc[c]
    BY <1>3 DEF FlightStep, CheckAgain, Canceled, PushManifest, ReadForTag, WriteTag, EndFlight,
                DownloadSucceeds, DownloadRefused, Quiet
  <1>4. ASSUME CleanupLock \/ Sweep
        PROVE  UNCHANGED pc
    BY <1>4 DEF CleanupLock, Sweep
  <1> QED
    BY <1>1, <1>2, <1>3, <1>4 DEF Handlers, Outside, Pull, ListCatalog, Quiet, Accepts

LEMMA ExitStep == TypeOK /\ ExitInv /\ [Next]_vars => ExitInv'
  <1> SUFFICES ASSUME TypeOK, ExitInv, [Next]_vars PROVE ExitInv'
    OBVIOUS
  <1>1. CASE Handlers
    <2>1. UNCHANGED <<main, signal, errCh>>
      BY <1>1 DEF Handlers, mainvars
    <2> QED
      BY <1>1, <2>1, QuietStays DEF ExitInv, Accepts
  <1>2. CASE Signal \/ ServeFails \/ Tick \/ Ended \/ UNCHANGED vars
    BY <1>2 DEF Signal, ServeFails, Tick, Ended, ExitInv, Quiet, vars, handlervars, mainvars
  <1>3. CASE Returns
    BY <1>3 DEF Returns, ServeFailed, BeginShutdown, Drained, ShutdownTimesOut, Exit,
                ExitInv, Quiet, handlervars
  <1> QED
    BY <1>1, <1>2, <1>3 DEF Next

\* Whatever the number of clients, the process exits with success only when
\* every request was finished, and after a signal (serve.go newCmdServe).
THEOREM ExitsCleanly == Spec => []CleanExit
  <1>1. Init => ExitInv
    BY DEF Init, ExitInv
  <1>2. ExitInv => CleanExit
    BY DEF ExitInv, CleanExit
  <1> QED
    BY <1>1, <1>2, ExitStep, ServerTypeCorrect, PTL DEF Spec
=============================================================================
