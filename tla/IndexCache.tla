------------------------------ MODULE IndexCache ------------------------------
(***************************************************************************)
(* GetIndex of internal/manifest/charts.go for one upstream repository:    *)
(* two entries of one cache in front of index.yaml, the parsed index under *)
(* the repository path (GetIndex) and the raw bytes under its URL          *)
(* (getIndexBytes).  Nothing serialises the requests: each that misses     *)
(* downloads for itself and stores what it got, late or not.               *)
(*                                                                         *)
(* Time is relative: an entry carries the ticks it has left, and a result  *)
(* the ticks since upstream produced it (`age`, history).  A call takes at *)
(* most CallTime ticks: the HTTP client ends a download after              *)
(* DownloadTimeout and the other steps are local.                          *)
(*                                                                         *)
(* The cache (ristretto) is external: a Set is visible at once or dropped, *)
(* an entry may be evicted at any time, and expires after its TTL.         *)
(***************************************************************************)
EXTENDS Integers

CONSTANTS
    Requests,  \* goroutines inside GetIndex
    Contents,  \* what upstream may publish as index.yaml
    Parses,    \* Parses[c]: what parseIndexFile makes of content c
    IndexTTL,  \* Config.IndexCacheTTL, in ticks
    ErrorTTL,  \* Config.IndexErrorCacheTTl, in ticks
    CallTime,  \* Config.DownloadTimeout, in ticks
    None       \* no entry, no content, no request

VARIABLES
    upstream,  \* the published content, or None while it cannot be fetched
    bytes,     \* the entry of getIndexBytes
    parsed,    \* the entry of GetIndex
    call       \* call[r]: the progress of request r

vars == <<upstream, bytes, parsed, call>>

\* parseIndexFile returns the index, an index and an error (empty file, no
\* apiVersion), or an error alone.
Outcomes == {"index", "partial", "bad"}

Errors == {"none", "download", "parse", "canceled"}

Result == [content: Contents \cup {None}, err: Errors, age: Nat]
CacheResp == [res: Result, left: Nat \ {0}]
Call == [stage: {"bytes", "download", "store", "parse"},
         res: Result \cup {None}, spent: Nat]

ASSUME ParsesAssumption == Parses \in [Contents -> Outcomes]
ASSUME TTLAssumption ==
    /\ IndexTTL \in Nat \ {0} /\ ErrorTTL \in Nat \ {0} /\ CallTime \in Nat
ASSUME NoneAssumption == None \notin Contents \cup Result \cup CacheResp \cup Call

-----------------------------------------------------------------------------
Init ==
    /\ upstream \in Contents \cup {None}
    /\ bytes = None
    /\ parsed = None
    /\ call = [r \in Requests |-> None]

At(r, stage) == call[r] # None /\ call[r].stage = stage

Goto(r, stage, res) ==
    call' = [call EXCEPT ![r].stage = stage, ![r].res = res]

Return(r) == call' = [call EXCEPT ![r] = None]

\* Mutant: whatever a download returned is cached
Cacheable_Always(res) == TRUE

\* An error of the caller's own context is returned and not cached
Cacheable(res) == res.err # "canceled"

\* Mutant: an error is kept as long as an index
TTL_Same(res) == IndexTTL

\* Mutant: an error is stored without a time of its own
TTL_Unset(res) == IF res.err = "none" THEN IndexTTL ELSE 0

\* An error is kept for a time of its own
TTL(res) == IF res.err = "none" THEN IndexTTL ELSE ErrorTTL

\* SetWithTTL: the new entry, or the old one when the Set is dropped
Set(entry, res) == {entry, [res |-> res, left |-> TTL(res)]}

\* parseIndexFile of the bytes, or the error that came instead of them
Parsed(res) ==
    IF res.err # "none" \/ Parses[res.content] = "index" THEN res
    ELSE [content |-> IF Parses[res.content] = "bad" THEN None ELSE res.content,
          err |-> "parse", age |-> res.age]

-----------------------------------------------------------------------------
(* GetIndex                                                                *)

\* A call that finds a parsed entry returns it and changes nothing; one that
\* does not goes on to getIndexBytes.
GetIndexMiss(r) ==
    /\ call[r] = None
    /\ parsed = None
    /\ call' = [call EXCEPT ![r] = [stage |-> "bytes", res |-> None, spent |-> 0]]
    /\ UNCHANGED <<upstream, bytes, parsed>>

BytesHit(r) ==
    /\ At(r, "bytes")
    /\ bytes # None
    /\ Goto(r, "parse", bytes.res)
    /\ UNCHANGED <<upstream, bytes, parsed>>

BytesMiss(r) ==
    /\ At(r, "bytes")
    /\ bytes = None
    /\ Goto(r, "download", None)
    /\ UNCHANGED <<upstream, bytes, parsed>>

\* Mutant: a body that just fits the limit is refused
Downloaded_AtLimit(r) ==
    /\ At(r, "download")
    /\ \E err \in {"none", "download", "canceled"} :
         /\ upstream = None => err # "none"
         /\ Goto(r, "store", [content |-> IF err = "none" THEN upstream ELSE None,
                              err |-> err, age |-> 0])
    /\ UNCHANGED <<upstream, bytes, parsed>>

\* download returns: the body, an error of upstream (unreachable, a status
\* other than 200, too large), or the end of the context or of the timeout.
Downloaded(r) ==
    /\ At(r, "download")
    /\ \E err \in {"none", "download", "canceled"} :
         /\ upstream = None => err # "none"
         /\ upstream # None => err # "download"
         /\ Goto(r, "store", [content |-> IF err = "none" THEN upstream ELSE None,
                              err |-> err, age |-> 0])
    /\ UNCHANGED <<upstream, bytes, parsed>>

\* The rest of getIndexBytes
StoreBytes(r) ==
    /\ At(r, "store")
    /\ \/ Cacheable(call[r].res) /\ bytes' \in Set(bytes, call[r].res)
       \/ ~Cacheable(call[r].res) /\ UNCHANGED bytes
    /\ Goto(r, "parse", call[r].res)
    /\ UNCHANGED <<upstream, parsed>>

\* The rest of downloadIndex and GetIndex: parse, cache, return
StoreParsed(r) ==
    /\ At(r, "parse")
    /\ LET res == Parsed(call[r].res) IN
       \/ Cacheable(res) /\ parsed' \in Set(parsed, res)
       \/ ~Cacheable(res) /\ UNCHANGED parsed
    /\ Return(r)
    /\ UNCHANGED <<upstream, bytes>>

-----------------------------------------------------------------------------
(* The environment                                                         *)

\* Upstream publishes another index, goes away or comes back
Publish ==
    /\ upstream' \in (Contents \cup {None}) \ {upstream}
    /\ UNCHANGED <<bytes, parsed, call>>

\* ristretto makes room
Evict ==
    /\ \/ bytes # None /\ bytes' = None /\ UNCHANGED parsed
       \/ parsed # None /\ parsed' = None /\ UNCHANGED bytes
    /\ UNCHANGED <<upstream, call>>

Older(res) == IF res = None THEN None ELSE [res EXCEPT !.age = @ + 1]

Aged(entry) ==
    IF entry = None \/ entry.left = 1 THEN None
    ELSE [res |-> Older(entry.res), left |-> entry.left - 1]

\* A tick passes, unless a call has taken all the time it may
Tick ==
    /\ \A r \in Requests : call[r] # None => call[r].spent < CallTime
    /\ bytes' = Aged(bytes)
    /\ parsed' = Aged(parsed)
    /\ call' = [r \in Requests |->
                  IF call[r] = None THEN None
                  ELSE [call[r] EXCEPT !.spent = @ + 1, !.res = Older(@)]]
    /\ UNCHANGED upstream

-----------------------------------------------------------------------------
CallStep(r) ==
    \/ GetIndexMiss(r)
    \/ BytesHit(r)
    \/ BytesMiss(r)
    \/ Downloaded(r)
    \/ StoreBytes(r)
    \/ StoreParsed(r)

Next ==
    \/ \E r \in Requests : CallStep(r)
    \/ Publish
    \/ Evict
    \/ Tick

Spec == Init /\ [][Next]_vars

\* Time passes, and a call that began goes on.  Nobody has to call.
Fairness ==
    /\ WF_vars(Tick)
    /\ \A r \in Requests : WF_vars(call[r] # None /\ CallStep(r))

FairSpec == Spec /\ Fairness

-----------------------------------------------------------------------------
(* Properties                                                              *)

TypeOK ==
    /\ upstream \in Contents \cup {None}
    /\ bytes \in CacheResp \cup {None}
    /\ parsed \in CacheResp \cup {None}
    /\ call \in [Requests -> Call \cup {None}]

\* How old an entry may get, by what it holds.  Bytes are stored up to one
\* call after upstream sent them.  The parsed entry may be made from bytes
\* that are about to expire, so their times add up, and an index that does not
\* parse is kept as bytes for as long as one that does.
BytesLife(res) ==
    CallTime + (IF res.err = "none" THEN IndexTTL ELSE ErrorTTL)
ParsedLife(res) ==
    2 * CallTime + (IF res.err = "none" THEN 2 * IndexTTL
                    ELSE IF res.err = "parse" THEN IndexTTL + ErrorTTL
                    ELSE 2 * ErrorTTL)

\* No entry outlives its time, whatever the order in which overlapping calls
\* look up, download and store (charts.go GetIndex and getIndexBytes).
StalenessBounded ==
    /\ bytes # None => bytes.res.age <= BytesLife(bytes.res)
    /\ parsed # None => parsed.res.age <= ParsedLife(parsed.res)

\* The end of one caller's context is never answered to another: neither
\* entry holds it, at either level.
CancelIsPrivate ==
    \A entry \in {bytes, parsed} : entry # None => entry.res.err # "canceled"

\* The README's "retry delay after index fetch failure": a failure is not
\* answered for longer than the error TTL, counted once per level.  Does not
\* hold for an index that was fetched and does not parse.
FailureIsRetried ==
    parsed # None /\ parsed.res.err # "none" =>
        parsed.res.age <= 2 * CallTime + 2 * ErrorTTL

\* Once upstream stays up and well-formed, errors disappear from both levels
\* and from the calls in progress, if no caller gives up any more.
Healthy == upstream # None /\ Parses[upstream] = "index"
Failing(r) == call[r] # None /\ call[r].res # None /\ Parsed(call[r].res).err # "none"
ErrorsHeld ==
    \/ \E entry \in {bytes, parsed} : entry # None /\ Parsed(entry.res).err # "none"
    \/ \E r \in Requests : Failing(r) /\ call[r].res.err # "canceled"
RecoversAfterOutage == <>[]Healthy => <>[]~ErrorsHeld
=============================================================================
