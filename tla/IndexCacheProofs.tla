--------------------------- MODULE IndexCacheProofs ---------------------------
(***************************************************************************)
(* Theorems about IndexCache, for any number of calls, any contents, TTLs  *)
(* and timeout.  An entry's age alone is not inductive; its age and what   *)
(* it has left together never exceed its life, and the age of a result in  *)
(* a call is bounded by where it came from plus the time the call has run. *)
(***************************************************************************)
EXTENDS IndexCache, TLAPS

\* Where a call stands, what it holds is as old as this at most.
CallAge(c) ==
    c.spent + (IF c.stage = "store" THEN 0 ELSE BytesLife(c.res))

\* A result that came from download, or from the bytes entry.
Raw(res) ==
    /\ res.err \in {"none", "download", "canceled"}
    /\ res.err = "none" => res.content \in Contents

CallInv ==
    \A r \in Requests : call[r] # None =>
        /\ call[r].spent <= CallTime
        /\ call[r].stage \in {"store", "parse"} =>
             /\ call[r].res # None
             /\ Raw(call[r].res)
             /\ call[r].res.age <= CallAge(call[r])

BytesInv ==
    bytes # None =>
        /\ Raw(bytes.res)
        /\ bytes.res.err # "canceled"
        /\ bytes.res.age + bytes.left <= BytesLife(bytes.res)

ParsedInv ==
    parsed # None =>
        /\ parsed.res.err # "canceled"
        /\ parsed.res.age + parsed.left <= ParsedLife(parsed.res)

Inv == TypeOK /\ CallInv /\ BytesInv /\ ParsedInv

-----------------------------------------------------------------------------
(* The operators                                                           *)

LEMMA SetEntry ==
    ASSUME NEW res \in Result
    PROVE  /\ [res |-> res, left |-> TTL(res)] \in CacheResp
           /\ [res |-> res, left |-> TTL(res)] # None
  <1>1. TTL(res) \in Nat \ {0}
    BY TTLAssumption DEF TTL
  <1> QED
    BY <1>1, NoneAssumption DEF CacheResp

LEMMA OlderResult ==
    ASSUME NEW res \in Result
    PROVE  /\ Older(res) \in Result
           /\ Older(res).content = res.content
           /\ Older(res).err = res.err
           /\ Older(res).age = res.age + 1
  BY NoneAssumption DEF Older, Result

LEMMA AgedEntry ==
    ASSUME NEW entry \in CacheResp \cup {None}, Aged(entry) # None
    PROVE  /\ entry # None
           /\ Aged(entry) \in CacheResp
           /\ Aged(entry).res = Older(entry.res)
           /\ Aged(entry).left = entry.left - 1
  <1>1. entry # None /\ entry.left # 1 /\ entry \in CacheResp
    BY DEF Aged
  <1>2. Aged(entry) = [res |-> Older(entry.res), left |-> entry.left - 1]
    BY <1>1 DEF Aged
  <1>3. entry.res \in Result /\ entry.left \in Nat \ {0}
    BY <1>1 DEF CacheResp
  <1>4. Older(entry.res) \in Result
    BY <1>3, OlderResult
  <1>5. entry.left - 1 \in Nat \ {0}
    BY <1>1, <1>3
  <1> QED
    BY <1>1, <1>2, <1>4, <1>5 DEF CacheResp

LEMMA ParsedResult ==
    ASSUME NEW res \in Result, Raw(res)
    PROVE  /\ Parsed(res) \in Result
           /\ Parsed(res).age = res.age
           /\ res.err # "none" => Parsed(res).err = res.err
           /\ res.err = "none" => Parsed(res).err \in {"none", "parse"}
  BY ParsesAssumption DEF Parsed, Result, Raw, Errors, Outcomes

-----------------------------------------------------------------------------
(* The inductive step                                                      *)

LEMMA InvInit == Init => Inv
  BY DEF Init, Inv, TypeOK, CallInv, BytesInv, ParsedInv

LEMMA InvStep == Inv /\ [Next]_vars => Inv'
  <1> SUFFICES ASSUME Inv, [Next]_vars PROVE Inv'
    OBVIOUS
  <1>0. TypeOK /\ CallInv /\ BytesInv /\ ParsedInv
    BY DEF Inv
  <1>c. ASSUME NEW r \in Requests, NEW new \in Call,
               call' = [call EXCEPT ![r] = new],
               new.spent <= CallTime,
               new.stage \in {"store", "parse"} =>
                 /\ new.res # None
                 /\ Raw(new.res)
                 /\ new.res.age <= CallAge(new)
        PROVE  call' \in [Requests -> Call \cup {None}] /\ CallInv'
    BY <1>0, <1>c DEF TypeOK, CallInv, Raw, CallAge, BytesLife
  <1>1. ASSUME NEW r \in Requests, GetIndexMiss(r) PROVE Inv'
    <2> DEFINE new == [stage |-> "bytes", res |-> None, spent |-> 0]
    <2>1. new \in Call /\ new.spent <= CallTime /\ new.stage = "bytes"
      BY TTLAssumption DEF Call
    <2>2. call' = [call EXCEPT ![r] = new] /\ UNCHANGED <<upstream, bytes, parsed>>
      BY <1>1 DEF GetIndexMiss
    <2> HIDE DEF new
    <2>3. call' \in [Requests -> Call \cup {None}] /\ CallInv'
      BY <1>c, <2>1, <2>2
    <2> QED
      BY <1>0, <2>2, <2>3 DEF Inv, TypeOK, BytesInv, ParsedInv, Raw, BytesLife, ParsedLife
  <1>g. ASSUME NEW r \in Requests, NEW stage \in {"download", "store", "parse"},
               NEW res \in Result \cup {None}, call[r] # None, Goto(r, stage, res)
        PROVE  \E new \in Call :
                  /\ call' = [call EXCEPT ![r] = new]
                  /\ new.stage = stage
                  /\ new.res = res
                  /\ new.spent = call[r].spent
                  /\ new.spent <= CallTime
    <2> DEFINE new == [call[r] EXCEPT !.stage = stage, !.res = res]
    <2>1. call[r] \in Call
      BY <1>0, <1>g DEF TypeOK
    <2>2. /\ new \in Call
          /\ new.stage = stage
          /\ new.res = res
          /\ new.spent = call[r].spent
      BY <2>1 DEF Call
    <2>3. call' = [call EXCEPT ![r] = new]
      BY <1>0, <1>g DEF Goto, TypeOK
    <2> HIDE DEF new
    <2> QED
      BY <1>0, <1>g, <2>2, <2>3 DEF CallInv
  <1>2. ASSUME NEW r \in Requests, BytesHit(r) PROVE Inv'
    <2>1. /\ call[r] # None
          /\ bytes \in CacheResp
          /\ bytes.res \in Result
          /\ bytes.left \in Nat
          /\ UNCHANGED <<upstream, bytes, parsed>>
      BY <1>0, <1>2 DEF BytesHit, At, TypeOK, CacheResp
    <2>2. PICK new \in Call :
             /\ call' = [call EXCEPT ![r] = new]
             /\ new.stage = "parse"
             /\ new.res = bytes.res
             /\ new.spent = call[r].spent
             /\ new.spent <= CallTime
      BY <1>2, <1>g, <2>1 DEF BytesHit
    <2>3. bytes.res.age <= BytesLife(bytes.res) /\ Raw(bytes.res)
      <3>1. bytes.res.age \in Nat /\ BytesLife(bytes.res) \in Nat
        BY <2>1, TTLAssumption DEF Result, BytesLife
      <3> QED
        BY <1>0, <1>2, <2>1, <3>1 DEF BytesInv, BytesHit
    <2>4. new.res.age <= CallAge(new)
      <3>1. new.spent \in Nat /\ bytes.res.age \in Nat /\ BytesLife(bytes.res) \in Nat
        BY <2>1, TTLAssumption DEF Call, Result, BytesLife
      <3> QED
        BY <2>2, <2>3, <3>1 DEF CallAge
    <2>5. call' \in [Requests -> Call \cup {None}] /\ CallInv'
      BY <1>c, <2>1, <2>2, <2>3, <2>4, NoneAssumption
    <2> QED
      BY <1>0, <2>1, <2>5 DEF Inv, TypeOK, BytesInv, ParsedInv, Raw, BytesLife, ParsedLife
  <1>3. ASSUME NEW r \in Requests, BytesMiss(r) PROVE Inv'
    <2>1. call[r] # None /\ UNCHANGED <<upstream, bytes, parsed>>
      BY <1>3 DEF BytesMiss, At
    <2>2. PICK new \in Call :
             /\ call' = [call EXCEPT ![r] = new]
             /\ new.stage = "download"
             /\ new.spent <= CallTime
      BY <1>3, <1>g, <2>1 DEF BytesMiss
    <2>3. call' \in [Requests -> Call \cup {None}] /\ CallInv'
      BY <1>c, <2>2
    <2> QED
      BY <1>0, <2>1, <2>3 DEF Inv, TypeOK, BytesInv, ParsedInv, Raw, BytesLife, ParsedLife
  <1>4. ASSUME NEW r \in Requests, Downloaded(r) PROVE Inv'
    <2>1. call[r] # None /\ UNCHANGED <<upstream, bytes, parsed>>
      BY <1>4 DEF Downloaded, At
    <2>2. PICK err \in {"none", "download", "canceled"} :
             /\ upstream = None => err # "none"
             /\ Goto(r, "store", [content |-> IF err = "none" THEN upstream ELSE None,
                                  err |-> err, age |-> 0])
      BY <1>4 DEF Downloaded
    <2> DEFINE res == [content |-> IF err = "none" THEN upstream ELSE None,
                       err |-> err, age |-> 0]
    <2>3. res \in Result /\ res.age = 0 /\ Raw(res)
      BY <1>0, <2>2 DEF TypeOK, Result, Raw, Errors
    <2>4. Goto(r, "store", res)
      BY <2>2
    <2> HIDE DEF res
    <2>5. PICK new \in Call :
             /\ call' = [call EXCEPT ![r] = new]
             /\ new.stage = "store"
             /\ new.res = res
             /\ new.spent <= CallTime
      BY <1>g, <2>1, <2>3, <2>4
    <2>6. new.res.age <= CallAge(new)
      BY <2>3, <2>5 DEF CallAge, Call
    <2>7. call' \in [Requests -> Call \cup {None}] /\ CallInv'
      BY <1>c, <2>3, <2>5, <2>6, NoneAssumption
    <2> QED
      BY <1>0, <2>1, <2>7 DEF Inv, TypeOK, BytesInv, ParsedInv, Raw, BytesLife, ParsedLife
  <1>5. ASSUME NEW r \in Requests, StoreBytes(r) PROVE Inv'
    <2> DEFINE res == call[r].res
               new == [res |-> res, left |-> TTL(res)]
    <2>1. /\ call[r] # None
          /\ call[r] \in Call
          /\ res \in Result
          /\ Raw(res)
          /\ call[r].spent \in Nat
          /\ res.age \in Nat
          /\ call[r].spent <= CallTime
          /\ res.age <= call[r].spent
          /\ Goto(r, "parse", res)
          /\ UNCHANGED <<upstream, parsed>>
      BY <1>0, <1>5 DEF StoreBytes, At, TypeOK, CallInv, CallAge, Call, Result
    <2>2. bytes' = bytes \/ (Cacheable(res) /\ bytes' = new)
      BY <1>5 DEF StoreBytes, Set
    <2>3. bytes' \in CacheResp \cup {None} /\ BytesInv'
      <3>1. CASE bytes' = bytes
        BY <1>0, <3>1 DEF TypeOK, BytesInv, Raw, BytesLife
      <3>2. CASE Cacheable(res) /\ bytes' = new
        <4>1. new \in CacheResp /\ new.res = res /\ new.left = TTL(res)
          BY <2>1, SetEntry
        <4>2. res.err # "canceled"
          BY <3>2 DEF Cacheable
        <4>3. res.age + TTL(res) <= BytesLife(res)
          BY <2>1, TTLAssumption DEF TTL, BytesLife
        <4> HIDE DEF new
        <4> QED
          BY <2>1, <3>2, <4>1, <4>2, <4>3 DEF BytesInv, Raw, BytesLife
      <3> QED
        BY <2>2, <3>1, <3>2
    <2>4. PICK next \in Call :
             /\ call' = [call EXCEPT ![r] = next]
             /\ next.stage = "parse"
             /\ next.res = res
             /\ next.spent = call[r].spent
             /\ next.spent <= CallTime
      BY <1>g, <2>1
    <2>5. next.res.age <= CallAge(next)
      <3>1. BytesLife(res) \in Nat
        BY TTLAssumption DEF BytesLife
      <3> QED
        BY <2>1, <2>4, <3>1 DEF CallAge
    <2>6. call' \in [Requests -> Call \cup {None}] /\ CallInv'
      BY <1>c, <2>1, <2>4, <2>5, NoneAssumption
    <2> QED
      BY <1>0, <2>1, <2>3, <2>6 DEF Inv, TypeOK, ParsedInv, ParsedLife
  <1>6. ASSUME NEW r \in Requests, StoreParsed(r) PROVE Inv'
    <2> DEFINE raw == call[r].res
               res == Parsed(raw)
               new == [res |-> res, left |-> TTL(res)]
    <2>1. /\ call[r] # None
          /\ raw \in Result
          /\ Raw(raw)
          /\ call[r].spent \in Nat
          /\ raw.age \in Nat
          /\ call[r].spent <= CallTime
          /\ raw.age <= call[r].spent + BytesLife(raw)
          /\ call' = [call EXCEPT ![r] = None]
          /\ UNCHANGED <<upstream, bytes>>
      BY <1>0, <1>6
      DEF StoreParsed, Return, At, TypeOK, CallInv, CallAge, Call, Result
    <2>2. /\ res \in Result
          /\ res.age = raw.age
          /\ raw.err # "none" => res.err = raw.err
          /\ raw.err = "none" => res.err \in {"none", "parse"}
      BY <2>1, ParsedResult
    <2>3. parsed' = parsed \/ (Cacheable(res) /\ parsed' = new)
      BY <1>6 DEF StoreParsed, Set
    <2>4. parsed' \in CacheResp \cup {None} /\ ParsedInv'
      <3>1. CASE parsed' = parsed
        BY <1>0, <3>1 DEF TypeOK, ParsedInv, ParsedLife
      <3>2. CASE Cacheable(res) /\ parsed' = new
        <4>1. new \in CacheResp /\ new.res = res /\ new.left = TTL(res)
          BY <2>2, SetEntry
        <4>2. res.err # "canceled"
          BY <3>2 DEF Cacheable
        <4> HIDE DEF res
        <4>3. res.age + TTL(res) <= ParsedLife(res)
          BY <2>1, <2>2, <4>2, TTLAssumption DEF TTL, ParsedLife, BytesLife, Raw
        <4> HIDE DEF new
        <4> QED
          BY <3>2, <4>1, <4>2, <4>3 DEF ParsedInv, ParsedLife
      <3> QED
        BY <2>3, <3>1, <3>2
    <2>5. call' \in [Requests -> Call \cup {None}] /\ CallInv'
      BY <1>0, <2>1 DEF TypeOK, CallInv, Raw, CallAge, BytesLife
    <2> QED
      BY <1>0, <2>1, <2>4, <2>5 DEF Inv, TypeOK, BytesInv, Raw, BytesLife
  <1>7. CASE Publish
    BY <1>0, <1>7
    DEF Publish, Inv, TypeOK, CallInv, BytesInv, ParsedInv, Raw, CallAge, BytesLife, ParsedLife
  <1>8. CASE Evict
    BY <1>0, <1>8
    DEF Evict, Inv, TypeOK, CallInv, BytesInv, ParsedInv, Raw, CallAge, BytesLife, ParsedLife
  <1>9. CASE Tick
    <2>1. bytes' \in CacheResp \cup {None} /\ BytesInv'
      <3>1. CASE bytes' = None
        BY <3>1 DEF BytesInv
      <3>2. CASE bytes' # None
        <4>1. /\ bytes # None
              /\ bytes' \in CacheResp
              /\ bytes'.res = Older(bytes.res)
              /\ bytes'.left = bytes.left - 1
          BY <1>0, <1>9, <3>2, AgedEntry DEF Tick, TypeOK
        <4>2. bytes.res \in Result /\ bytes.left \in Nat
          BY <1>0, <4>1 DEF TypeOK, CacheResp
        <4>3. /\ bytes'.res.content = bytes.res.content
              /\ bytes'.res.err = bytes.res.err
              /\ bytes'.res.age = bytes.res.age + 1
          BY <4>1, <4>2, OlderResult
        <4>4. bytes.res.age \in Nat
          BY <4>2 DEF Result
        <4> QED
          BY <1>0, <4>1, <4>2, <4>3, <4>4, TTLAssumption DEF BytesInv, Raw, BytesLife
      <3> QED
        BY <3>1, <3>2
    <2>2. parsed' \in CacheResp \cup {None} /\ ParsedInv'
      <3>1. CASE parsed' = None
        BY <3>1 DEF ParsedInv
      <3>2. CASE parsed' # None
        <4>1. /\ parsed # None
              /\ parsed' \in CacheResp
              /\ parsed'.res = Older(parsed.res)
              /\ parsed'.left = parsed.left - 1
          BY <1>0, <1>9, <3>2, AgedEntry DEF Tick, TypeOK
        <4>2. parsed.res \in Result /\ parsed.left \in Nat
          BY <1>0, <4>1 DEF TypeOK, CacheResp
        <4>3. parsed'.res.err = parsed.res.err /\ parsed'.res.age = parsed.res.age + 1
          BY <4>1, <4>2, OlderResult
        <4>4. parsed.res.age \in Nat
          BY <4>2 DEF Result
        <4> QED
          BY <1>0, <4>1, <4>2, <4>3, <4>4, TTLAssumption DEF ParsedInv, ParsedLife
      <3> QED
        BY <3>1, <3>2
    <2>3. ASSUME NEW r \in Requests, call'[r] # None
          PROVE  /\ call'[r] \in Call
                 /\ call'[r].spent <= CallTime
                 /\ call'[r].stage \in {"store", "parse"} =>
                      /\ call'[r].res # None
                      /\ Raw(call'[r].res)
                      /\ call'[r].res.age <= CallAge(call'[r])
      <3> DEFINE c == call[r]
                 new == [c EXCEPT !.spent = @ + 1, !.res = Older(@)]
      <3>1. c # None /\ c \in Call /\ call'[r] = new /\ c.spent < CallTime
        BY <1>0, <1>9, <2>3 DEF Tick, TypeOK
      <3>2. Older(c.res) \in Result \cup {None}
        BY <3>1, OlderResult DEF Call, Older
      <3>3. c.spent \in Nat /\ c.spent + 1 \in Nat /\ c.spent + 1 <= CallTime
        BY <3>1, TTLAssumption DEF Call
      <3>4. /\ new \in Call
            /\ new.stage = c.stage
            /\ new.spent = c.spent + 1
            /\ new.res = Older(c.res)
        <4> DEFINE older == Older(c.res)
        <4>1. new = [c EXCEPT !.spent = c.spent + 1, !.res = older]
          OBVIOUS
        <4> HIDE DEF older, new, c
        <4>2. older \in Result \cup {None}
          BY <3>2 DEF older
        <4>3. /\ new \in Call
              /\ new.stage = c.stage
              /\ new.spent = c.spent + 1
              /\ new.res = older
          BY <3>1, <3>3, <4>1, <4>2 DEF Call
        <4> QED
          BY <4>3 DEF older
      <3>5. ASSUME c.stage \in {"store", "parse"}
            PROVE  /\ new.res # None
                   /\ Raw(new.res)
                   /\ new.res.age <= CallAge(new)
        <4>1. c.res \in Result /\ Raw(c.res) /\ c.res.age <= CallAge(c)
          BY <1>0, <3>1, <3>5 DEF CallInv, Call
        <4>2. /\ Older(c.res) \in Result
              /\ Older(c.res).content = c.res.content
              /\ Older(c.res).err = c.res.err
              /\ Older(c.res).age = c.res.age + 1
          BY <4>1, OlderResult
        <4>3. c.res.age \in Nat
          BY <4>1 DEF Result
        <4> HIDE DEF new
        <4>4. BytesLife(c.res) \in Nat /\ BytesLife(new.res) = BytesLife(c.res)
          BY <3>4, <4>2, TTLAssumption DEF BytesLife
        <4> HIDE DEF c
        <4>5. new.res.age <= CallAge(new)
          BY <3>3, <3>4, <4>1, <4>2, <4>3, <4>4 DEF CallAge
        <4> QED
          BY <3>4, <4>1, <4>2, <4>5, NoneAssumption DEF Raw
      <3> HIDE DEF new
      <3> QED
        BY <3>1, <3>3, <3>4, <3>5
    <2>4. call' \in [Requests -> Call \cup {None}]
      BY <1>9, <2>3 DEF Tick
    <2>5. CallInv'
      BY <2>3 DEF CallInv, Raw, CallAge, BytesLife
    <2> QED
      BY <1>0, <1>9, <2>1, <2>2, <2>4, <2>5 DEF Inv, TypeOK, Tick
  <1>10. CASE UNCHANGED vars
    BY <1>0, <1>10
    DEF vars, Inv, TypeOK, CallInv, BytesInv, ParsedInv, Raw, CallAge, BytesLife, ParsedLife
  <1> QED
    BY <1>1, <1>2, <1>3, <1>4, <1>5, <1>6, <1>7, <1>8, <1>9, <1>10 DEF Next, CallStep

LEMMA InvHolds == Spec => []Inv
  BY InvInit, InvStep, PTL DEF Spec

\* Entries and calls keep their shape; no entry with nothing left is readable.
THEOREM TypeCorrect == Spec => []TypeOK
  <1>1. Inv => TypeOK
    BY DEF Inv
  <1> QED
    BY <1>1, InvHolds, PTL

\* No entry outlives its time (GetIndex and getIndexBytes of charts.go).
THEOREM EntriesAreFresh == Spec => []StalenessBounded
  <1>1. Inv => StalenessBounded
    <2> SUFFICES ASSUME Inv PROVE StalenessBounded
      OBVIOUS
    <2>1. ASSUME bytes # None PROVE bytes.res.age <= BytesLife(bytes.res)
      BY <2>1, TTLAssumption DEF Inv, TypeOK, BytesInv, CacheResp, Result, BytesLife
    <2>2. ASSUME parsed # None PROVE parsed.res.age <= ParsedLife(parsed.res)
      BY <2>2, TTLAssumption DEF Inv, TypeOK, ParsedInv, CacheResp, Result, ParsedLife
    <2> QED
      BY <2>1, <2>2 DEF StalenessBounded
  <1> QED
    BY <1>1, InvHolds, PTL

\* A canceled caller leaves nothing behind (GetIndex and getIndexBytes).
THEOREM CancellationsAreNotCached == Spec => []CancelIsPrivate
  <1>1. Inv => CancelIsPrivate
    BY DEF Inv, BytesInv, ParsedInv, CancelIsPrivate
  <1> QED
    BY <1>1, InvHolds, PTL
=============================================================================
