------------------------------- MODULE RWMutex -------------------------------
(***************************************************************************)
(* Go's sync.RWMutex, as Manifests.lock and mem.Handler.lock use it.  A    *)
(* writer that has announced itself lets in no new reader and goes on when *)
(* the readers before it have left; when it unlocks, all readers that came *)
(* meanwhile go before the next writer.  A goroutine that reads and asks   *)
(* to read again is therefore stuck if a writer announces itself between.  *)
(***************************************************************************)
CONSTANTS
    Goroutines,
    Nobody      \* no writer

Mutex == [readers: SUBSET Goroutines, blocked: SUBSET Goroutines,
          writer: Goroutines \cup {Nobody}]

Unlocked == [readers |-> {}, blocked |-> {}, writer |-> Nobody]

Waits(m, g) == g \in m.blocked
Reads(m, g) == g \in m.readers
MayWrite(m, g) == m.writer = g /\ m.readers = {}

\* RLock, at once or after the writer; to have it is Reads
RLocked(m, g) ==
    IF m.writer = Nobody THEN [m EXCEPT !.readers = @ \cup {g}]
    ELSE [m EXCEPT !.blocked = @ \cup {g}]

RUnlocked(m, g) == [m EXCEPT !.readers = @ \ {g}]

\* Lock, when no other writer has it; to have it is MayWrite
Announced(m, g) == [m EXCEPT !.writer = g]

WUnlocked(m) == [readers |-> m.readers \cup m.blocked, blocked |-> {}, writer |-> Nobody]
=============================================================================
