-------------------------- MODULE ChartPipelineProofs --------------------------
(***************************************************************************)
(* The stages of ChartPipeline, for any repositories, archives, limits and *)
(* sizes.  PipelineInv is about the two readers: a reader gives no more    *)
(* than its limit, and reports the end only there or at the end of its     *)
(* source.  StagesInv adds what the other stages pass on: a routed request *)
(* is what its client's path says, a layer is that of its variant, and     *)
(* every image of it is the same.  Between the two are the lemmas about    *)
(* paths: what RepoBetween and Route find in what ClientPath puts together.*)
(***************************************************************************)
EXTENDS ChartPipeline, FiniteSetTheorems, SequenceTheorems, WellFoundedInduction, TLAPS

\* After calls to a source of `size` bytes
ReaderInv(r, size) ==
    /\ r \in Readers
    /\ r.left + r.given = size
    /\ r.limit # Unlimited => r.given <= r.limit

\* It was told that this is the end
AtEnd(r) == r.left = 0 \/ (r.limit # Unlimited /\ r.given = r.limit)

LEMMA ReaderBegins ==
    ASSUME NEW size \in Nat, NEW limit \in Nat \cup {Unlimited}
    PROVE  ReaderInv(Reader(size, limit), size)
  BY DEF ReaderInv, Reader, Readers, Unlimited

\* One call of Read, which may give bytes with the end or without
LEMMA ReaderGoesOn ==
    ASSUME NEW r, NEW size \in Nat, ReaderInv(r, size), NEW a \in Answers(r)
    PROVE  /\ a.n \in Nat
           /\ ReaderInv(After(r, a), size)
           /\ After(r, a).given = r.given + a.n
           /\ After(r, a).limit = r.limit
           /\ a.eof => AtEnd(After(r, a))
  <1>1. r \in Readers /\ r.left \in Nat /\ r.given \in Nat /\ r.limit \in Nat \cup {Unlimited}
    BY DEF ReaderInv, Readers
  <1>2. /\ Room(r) \in Nat
        /\ Room(r) <= r.left
        /\ r.limit # Unlimited => r.given + Room(r) <= r.limit
        /\ Room(r) = 0 => AtEnd(r)
    BY <1>1 DEF Room, Unlimited, ReaderInv, AtEnd
  <1>3. a.n \in 0..Room(r) /\ (a.eof => a.n = r.left \/ (a.n = 0 /\ Room(r) = 0))
    BY <1>2 DEF Answers
  <1>4. After(r, a) = [r EXCEPT !.left = r.left - a.n, !.given = r.given + a.n]
    BY DEF After
  <1>5. /\ r.left - a.n \in Nat
        /\ r.given + a.n \in Nat
        /\ (r.left - a.n) + (r.given + a.n) = size
    BY <1>1, <1>2, <1>3 DEF ReaderInv
  <1>6. /\ After(r, a) \in Readers
        /\ After(r, a).left = r.left - a.n
        /\ After(r, a).given = r.given + a.n
        /\ After(r, a).limit = r.limit
    BY <1>1, <1>4, <1>5 DEF Readers
  <1>7. r.limit # Unlimited => r.given + a.n <= r.limit
    BY <1>1, <1>2, <1>3 DEF Unlimited
  <1>8. ReaderInv(After(r, a), size)
    BY <1>5, <1>6, <1>7 DEF ReaderInv
  <1>9. a.eof => AtEnd(After(r, a))
    BY <1>1, <1>2, <1>3, <1>6 DEF AtEnd
  <1> QED
    BY <1>3, <1>6, <1>8, <1>9

-----------------------------------------------------------------------------
(* The stages that read                                                    *)

\* What the fields of a record are, by its stage
Preparing == [stage: {"preparing"}, variant: {Proxy, "default"}]

Download == [stage: {"downloading", "downloaded", "too long"}, variant: {Proxy, "default"},
             size: Nat, body: Readers]

Pushed == [stage: {"pushing", "stored", "rejected"}, want: Nat,
           declared: Nat \cup {Unlimited}, size: Nat, same: Nat, source: Readers, gotSize: Nat]

\* A body that was read to its end is whole, or longer than it may be
DownloadInv ==
    job.stage \in {"downloading", "downloaded", "too long"} =>
        /\ job \in Download
        /\ ReaderInv(job.body, job.size)
        /\ job.body.limit = BodyLimit(config.max)
        /\ job.stage # "downloading" =>
             AtEnd(job.body) /\ (job.stage = "downloaded" <=> Fits(job.body.given))

\* The count of the verification is what its source gave
PushedInv ==
    job.stage \in {"pushing", "stored", "rejected"} =>
        /\ job \in Pushed
        /\ ReaderInv(job.source, job.size)
        /\ job.source.limit = job.declared
        /\ job.gotSize = job.source.given
        /\ job.same <= job.size /\ job.same <= job.want
        /\ job.stage # "pushing" =>
             AtEnd(job.source) /\ (job.stage = "stored" <=> SizeMatches(job) /\ HashMatches(job))

PipelineInv ==
    /\ config \in Configs
    /\ "stage" \in DOMAIN job
    /\ job.stage = "preparing" => job \in Preparing
    /\ DownloadInv
    /\ PushedInv

\* A step of a download
LEMMA DownloadSteps ==
    ASSUME PipelineInv, config' = config,
           NEW j \in Download, job' = j,
           ReaderInv(j.body, j.size),
           j.body.limit = BodyLimit(config.max),
           j.stage # "downloading" => AtEnd(j.body) /\ (j.stage = "downloaded" <=> Fits(j.body.given))
    PROVE  PipelineInv'
  <1>1. j.stage \in {"downloading", "downloaded", "too long"} /\ "stage" \in DOMAIN j
    BY DEF Download
  <1>2. DownloadInv'
    BY DEF DownloadInv, ReaderInv, AtEnd, Fits, BodyLimit, Download
  <1>3. PushedInv'
    BY <1>1 DEF PushedInv
  <1> QED
    BY <1>1, <1>2, <1>3 DEF PipelineInv, Configs

LEMMA ReadBodyKeeps == PipelineInv /\ ReadBody => PipelineInv'
  <1> SUFFICES ASSUME PipelineInv, ReadBody PROVE PipelineInv'
    OBVIOUS
  <1>1. /\ job.stage = "downloading"
        /\ job \in Download
        /\ ReaderInv(job.body, job.size)
        /\ job.body.limit = BodyLimit(config.max)
        /\ config' = config
    BY DEF PipelineInv, DownloadInv, ReadBody
  <1>2. PICK a \in Answers(job.body) :
          job' = IF ~a.eof THEN [job EXCEPT !.body = After(job.body, a)]
                 ELSE [job EXCEPT !.body = After(job.body, a),
                                  !.stage = IF Fits(After(job.body, a).given)
                                            THEN "downloaded" ELSE "too long"]
    BY DEF ReadBody
  <1> DEFINE b == After(job.body, a)
  <1>3. /\ ReaderInv(b, job.size)
        /\ b.limit = BodyLimit(config.max)
        /\ a.eof => AtEnd(b)
        /\ b \in Readers
    <2>1. job.size \in Nat
      BY <1>1 DEF Download
    <2> QED
      BY <1>1, <2>1, ReaderGoesOn DEF ReaderInv
  <1> HIDE DEF b
  <1>4. CASE ~a.eof
    <2>1. job' = [job EXCEPT !.body = b]
      BY <1>2, <1>4 DEF b
    <2>2. job' \in Download /\ job'.stage = "downloading" /\ job'.body = b /\ job'.size = job.size
      BY <1>1, <1>3, <2>1 DEF Download
    <2> QED
      BY <1>1, <1>3, <2>2, DownloadSteps
  <1>5. CASE a.eof
    <2> DEFINE end == IF Fits(b.given) THEN "downloaded" ELSE "too long"
    <2>1. job' = [job EXCEPT !.body = b, !.stage = end]
      BY <1>2, <1>5 DEF b
    <2>2. end \in {"downloaded", "too long"} /\ (end = "downloaded" <=> Fits(b.given))
      OBVIOUS
    <2> HIDE DEF end
    <2>3. job' \in Download /\ job'.stage = end /\ job'.body = b /\ job'.size = job.size
      BY <1>1, <1>3, <2>1, <2>2 DEF Download
    <2> QED
      BY <1>1, <1>3, <1>5, <2>2, <2>3, DownloadSteps
  <1> QED
    BY <1>4, <1>5

\* A step of a copy into the store
LEMMA PushedSteps ==
    ASSUME PipelineInv, config' = config,
           NEW j \in Pushed, job' = j,
           ReaderInv(j.source, j.size),
           j.source.limit = j.declared,
           j.gotSize = j.source.given,
           j.same <= j.size /\ j.same <= j.want,
           j.stage # "pushing" =>
             AtEnd(j.source) /\ (j.stage = "stored" <=> SizeMatches(j) /\ HashMatches(j))
    PROVE  PipelineInv'
  <1>1. j.stage \in {"pushing", "stored", "rejected"} /\ "stage" \in DOMAIN j
    BY DEF Pushed
  <1>2. PushedInv'
    BY DEF PushedInv
  <1>3. DownloadInv'
    BY <1>1 DEF DownloadInv
  <1> QED
    BY <1>1, <1>2, <1>3 DEF PipelineInv, Configs

LEMMA ReadVerifiedKeeps == PipelineInv /\ ReadVerified => PipelineInv'
  <1> SUFFICES ASSUME PipelineInv, ReadVerified PROVE PipelineInv'
    OBVIOUS
  <1>1. /\ job.stage = "pushing"
        /\ job \in Pushed
        /\ ReaderInv(job.source, job.size)
        /\ job.source.limit = job.declared
        /\ job.gotSize = job.source.given
        /\ job.same <= job.size /\ job.same <= job.want
        /\ config' = config
    BY DEF PipelineInv, PushedInv, ReadVerified
  <1> DEFINE read(a) == [job EXCEPT !.source = After(job.source, a),
                                    !.gotSize = Counted(job.gotSize, a.n)]
  <1>2. PICK a \in Answers(job.source) :
          job' = IF ~a.eof THEN read(a)
                 ELSE [read(a) EXCEPT !.stage = IF SizeMatches(read(a)) /\ HashMatches(read(a))
                                                THEN "stored" ELSE "rejected"]
    BY DEF ReadVerified
  <1>3. /\ ReaderInv(After(job.source, a), job.size)
        /\ After(job.source, a).limit = job.declared
        /\ After(job.source, a).given = job.gotSize + a.n
        /\ a.eof => AtEnd(After(job.source, a))
        /\ After(job.source, a) \in Readers
    <2>1. job.size \in Nat
      BY <1>1 DEF Pushed
    <2> QED
      BY <1>1, <2>1, ReaderGoesOn DEF ReaderInv
  <1> DEFINE j == read(a)
  <1>4. /\ j \in Pushed
        /\ j.stage = "pushing"
        /\ j.source = After(job.source, a)
        /\ j.gotSize = j.source.given
        /\ j.want = job.want /\ j.declared = job.declared
        /\ j.size = job.size /\ j.same = job.same
    BY <1>1, <1>3 DEF Pushed, Counted, Readers
  <1> HIDE DEF j
  <1>5. CASE ~a.eof
    <2>1. job' = j
      BY <1>2, <1>5 DEF j
    <2> QED
      BY <1>1, <1>3, <1>4, <2>1, PushedSteps
  <1>6. CASE a.eof
    <2> DEFINE end == IF SizeMatches(j) /\ HashMatches(j) THEN "stored" ELSE "rejected"
               k == [j EXCEPT !.stage = end]
    <2>1. job' = k
      BY <1>2, <1>6 DEF j
    <2>2. end \in {"stored", "rejected"} /\ (end = "stored" <=> SizeMatches(j) /\ HashMatches(j))
      OBVIOUS
    <2> HIDE DEF end
    <2>3. /\ k \in Pushed
          /\ k.stage = end
          /\ k.source = j.source /\ k.gotSize = j.gotSize
          /\ k.want = j.want /\ k.declared = j.declared
          /\ k.size = j.size /\ k.same = j.same
      BY <1>4, <2>2 DEF Pushed
    <2>4. (SizeMatches(k) <=> SizeMatches(j)) /\ (HashMatches(k) <=> HashMatches(j))
      BY <2>3 DEF SizeMatches, HashMatches
    <2> HIDE DEF k
    <2> QED
      BY <1>1, <1>3, <1>4, <1>6, <2>1, <2>2, <2>3, <2>4, PushedSteps
  <1> QED
    BY <1>5, <1>6

-----------------------------------------------------------------------------
(* The other stages                                                        *)

LEMMA RespondKeeps == ASSUME PipelineInv, NEW size \in Sizes, Respond(size) PROVE PipelineInv'
  <1> DEFINE j == [stage |-> "downloading", variant |-> job.variant, size |-> size,
                   body |-> Reader(size, BodyLimit(config.max))]
  <1>1. size \in Nat /\ BodyLimit(config.max) \in Nat \cup {Unlimited}
    <2>1. config.max \in Nat
      BY SizesAssumption DEF PipelineInv, Configs
    <2>2. size \in Nat
      BY SizesAssumption DEF Sizes
    <2> QED
      BY <2>1, <2>2 DEF BodyLimit
  <1>2. ReaderInv(j.body, size) /\ j.body.limit = BodyLimit(config.max)
    BY <1>1, ReaderBegins DEF Reader
  <1>3. job.variant \in {Proxy, "default"}
    BY DEF Respond, PipelineInv, Preparing
  <1>4. j \in Download
    BY <1>1, <1>2, <1>3 DEF Download, ReaderInv
  <1> QED
    BY <1>2, <1>4, DownloadSteps DEF Respond

LEMMA PushKeeps ==
    ASSUME PipelineInv, NEW want \in Sizes, NEW declared \in Sizes \cup {Unlimited},
           NEW size \in Sizes, NEW same \in Sizes, Push(want, declared, size, same)
    PROVE  PipelineInv'
  <1> DEFINE j == [stage |-> "pushing", want |-> want, declared |-> declared, size |-> size,
                   same |-> same, source |-> Reader(size, declared), gotSize |-> 0]
  <1>1. want \in Nat /\ size \in Nat /\ same \in Nat /\ declared \in Nat \cup {Unlimited}
    BY SizesAssumption DEF Sizes
  <1>2. ReaderInv(j.source, size) /\ j.source.limit = declared /\ j.source.given = 0
    BY <1>1, ReaderBegins DEF Reader
  <1>3. j \in Pushed
    BY <1>1, <1>2 DEF Pushed, ReaderInv
  <1> QED
    BY <1>1, <1>2, <1>3, PushedSteps DEF Push

\* Stages the two readers have no part in
LEMMA OtherSteps ==
    ASSUME PipelineInv, config' = config, "stage" \in DOMAIN job',
           job'.stage \in {"idle", "routed", "rewritten", "copying"}
    PROVE  PipelineInv'
  BY DEF PipelineInv, DownloadInv, PushedInv, Configs

LEMMA IdleIsOther == "stage" \in DOMAIN Idle /\ Idle.stage = "idle"
  BY DEF Idle

LEMMA PrepareKeeps ==
    ASSUME PipelineInv, NEW query \in {"", "true", "false"}, Prepare(query) PROVE PipelineInv'
  <1> config' = config
    BY DEF Prepare
  <1>1. CASE job' = Idle
    BY <1>1, IdleIsOther, OtherSteps
  <1>2. CASE job' = [stage |-> "preparing", variant |-> Variant(query)]
    <2>1. job' \in Preparing
      BY <1>2 DEF Preparing, Variant
    <2>2. "stage" \in DOMAIN job' /\ job'.stage = "preparing"
      BY <1>2
    <2> QED
      BY <2>1, <2>2 DEF PipelineInv, DownloadInv, PushedInv, Configs
  <1> QED
    BY <1>1, <1>2 DEF Prepare

LEMMA PackKeeps == PipelineInv /\ Pack => PipelineInv'
  <1> SUFFICES ASSUME PipelineInv, Pack PROVE PipelineInv'
    OBVIOUS
  <1>1. "stage" \in DOMAIN job' /\ job'.stage = "rewritten"
    BY DEF Pack, PipelineInv
  <1> QED
    BY <1>1, OtherSteps DEF Pack

LEMMA PipelineStep == PipelineInv /\ [Next]_vars => PipelineInv'
  <1> SUFFICES ASSUME PipelineInv, [Next]_vars PROVE PipelineInv'
    OBVIOUS
  <1>1. CASE BreakBody \/ Copy \/ Return
    <2>1. config' = config
      BY <1>1 DEF BreakBody, Copy, Return
    <2>2. job' = Idle \/ job' = [stage |-> "copying"]
      BY <1>1 DEF BreakBody, Copy, Return
    <2>3. "stage" \in DOMAIN job' /\ job'.stage \in {"idle", "copying"}
      BY <2>2, IdleIsOther
    <2> QED
      BY <2>1, <2>3, OtherSteps
  <1>2. ASSUME NEW kind \in Kinds, NEW index \in Indexes, NEW chart \in Elements,
               Receive(kind, index, chart)
        PROVE  PipelineInv'
    BY <1>2, OtherSteps DEF Receive
  <1>3. ASSUME NEW archive \in Archives, NEW custom \in {{}, {"title", "created"}},
               NEW dated \in BOOLEAN, Rewrite(archive, custom, dated)
        PROVE  PipelineInv'
    BY <1>3, OtherSteps DEF Rewrite
  <1>4. CASE UNCHANGED vars
    BY <1>4 DEF vars, PipelineInv, DownloadInv, PushedInv, Configs, Fits, BodyLimit
  <1> QED
    BY <1>1, <1>2, <1>3, <1>4, PrepareKeeps, RespondKeeps, ReadBodyKeeps, PackKeeps, PushKeeps,
       ReadVerifiedKeeps DEF Next

THEOREM PipelineInvHolds == Spec => []PipelineInv
  <1>1. Init => PipelineInv
    BY DEF Init, Idle, PipelineInv, DownloadInv, PushedInv
  <1> QED
    BY <1>1, PipelineStep, PTL DEF Spec

-----------------------------------------------------------------------------
(* The theorems                                                            *)

\* A body that was read to its end, or to one byte above the limit
LEMMA EndOfBody ==
    ASSUME NEW left \in Nat, NEW given \in Nat, NEW size \in Nat, NEW max \in Nat,
           left + given = size,
           left = 0 \/ (max > 0 /\ given = max + 1)
    PROVE  /\ max = 0 \/ given <= max => given = size
           /\ ~(max = 0 \/ given <= max) => ~(max = 0 \/ size <= max)
  OBVIOUS

\* Whatever the limit, the size of a body and the pieces it comes in, what is
\* passed on is whole and within the limit, and only a longer one is refused
\* for its length (charts.go download).
THEOREM DownloadsAreAlwaysWhole == Spec => []DownloadsAreWhole
  <1> SUFFICES ASSUME PipelineInv PROVE DownloadsAreWhole
    BY PipelineInvHolds, PTL
  <1> SUFFICES ASSUME job.stage \in {"downloaded", "too long"} PROVE DownloadsAreWhole
    BY DEF DownloadsAreWhole
  <1> DEFINE r == job.body
  <1>1. /\ job \in Download
        /\ ReaderInv(r, job.size)
        /\ r.limit = BodyLimit(config.max)
        /\ AtEnd(r)
        /\ job.stage = "downloaded" <=> Fits(r.given)
    BY DEF PipelineInv, DownloadInv
  <1>2. /\ r.left \in Nat /\ r.given \in Nat /\ job.size \in Nat /\ config.max \in Nat
        /\ r.left + r.given = job.size
    BY <1>1, SizesAssumption DEF ReaderInv, Readers, Download, PipelineInv, Configs
  <1>3. r.left = 0 \/ (config.max > 0 /\ r.given = config.max + 1)
    BY <1>1, <1>2 DEF AtEnd, BodyLimit, Unlimited
  <1>4. (Fits(r.given) => r.given = job.size) /\ (~Fits(r.given) => ~Fits(job.size))
    <2>1. PICK left \in Nat, given \in Nat, size \in Nat, max \in Nat :
            left = r.left /\ given = r.given /\ size = job.size /\ max = config.max
      BY <1>2
    <2>2. left + given = size /\ (left = 0 \/ (max > 0 /\ given = max + 1))
      BY <1>2, <1>3, <2>1
    <2>3. /\ max = 0 \/ given <= max => given = size
          /\ ~(max = 0 \/ given <= max) => ~(max = 0 \/ size <= max)
      BY <2>2, EndOfBody, Zenon
    <2> QED
      BY <2>1, <2>3 DEF Fits
  <1> QED
    BY <1>1, <1>4 DEF DownloadsAreWhole

\* Whatever the size of the content, what was promised and what was announced,
\* content is stored only if it is the promised one, and refused only if it is
\* not (verify.go verifyReader).
THEOREM VerifiedIsAlwaysPromised == Spec => []VerifiedIsPromised
  <1> SUFFICES ASSUME PipelineInv PROVE VerifiedIsPromised
    BY PipelineInvHolds, PTL
  <1> SUFFICES ASSUME job.stage \in {"stored", "rejected"} PROVE VerifiedIsPromised
    BY DEF VerifiedIsPromised
  <1> DEFINE r == job.source
  <1>1. /\ job \in Pushed
        /\ ReaderInv(r, job.size)
        /\ r.limit = job.declared
        /\ job.gotSize = r.given
        /\ job.same <= job.size /\ job.same <= job.want
        /\ AtEnd(r)
        /\ job.stage = "stored" <=> SizeMatches(job) /\ HashMatches(job)
    BY DEF PipelineInv, PushedInv
  <1>2. /\ r.left \in Nat /\ r.given \in Nat
        /\ job.size \in Nat /\ job.want \in Nat /\ job.same \in Nat
        /\ job.declared \in Nat \cup {Unlimited}
        /\ r.left + r.given = job.size
        /\ r.limit # Unlimited => r.given <= r.limit
    BY <1>1 DEF ReaderInv, Readers, Pushed
  <1> QED
    BY <1>1, <1>2 DEF VerifiedIsPromised, SizeMatches, HashMatches, AtEnd, Unlimited

-----------------------------------------------------------------------------
(* Routing: what a client's path is made of, and what is found in it       *)

LEMMA IndexesAreSequences == Indexes \subseteq Seq(Elements) \ {<<>>}
  <1>1. Indexes = (UNION {[1..n -> Elements] : n \in 0..2}) \ {<<>>}
    BY DEF Indexes, BoundedSeq, SeqOf
  <1>2. \A n \in 0..2 : [1..n -> Elements] \subseteq Seq(Elements)
    OBVIOUS
  <1> QED
    BY <1>1, <1>2

\* The path of a chart: manifests, blobs and tags
LEMMA ChartPath ==
    ASSUME NEW S, NEW index \in Seq(S), NEW v, NEW chart, NEW a, NEW b
    PROVE  LET path == <<v>> \o index \o <<chart, a, b>>
           IN  /\ Len(index) \in Nat
               /\ Len(path) = Len(index) + 4
               /\ Len(path) >= 3 /\ Len(path) >= 4
               /\ path[1] = v
               /\ \A i \in 1..Len(index) : path[i + 1] = index[i]
               /\ path[Len(index) + 2] = chart
               /\ FromEnd(path, 2) = a /\ Last(path) = b
               /\ path # <<>>
  <1> DEFINE front == <<v>> \o index
             path == front \o <<chart, a, b>>
  <1>1. /\ front \in Seq(S \cup {v})
        /\ Len(front) = Len(index) + 1
        /\ front[1] = v
        /\ \A i \in 1..Len(index) : front[i + 1] = index[i]
    OBVIOUS
  <1>2. Len(index) \in Nat
    OBVIOUS
  <1>3. /\ Len(path) = Len(front) + 3
        /\ \A i \in 1..Len(front) : path[i] = front[i]
        /\ path[Len(front) + 1] = chart
        /\ path[Len(front) + 2] = a
        /\ path[Len(front) + 3] = b
    <2> HIDE DEF front
    <2> QED
      BY <1>1
  <1> HIDE DEF path
  <1>4. /\ Len(path) = Len(index) + 4
        /\ Len(path) >= 3 /\ Len(path) >= 4
        /\ path[1] = v
        /\ path[Len(index) + 2] = chart
        /\ path[Len(path) - 2 + 1] = a
        /\ path[Len(path)] = b
        /\ path # <<>>
    <2> HIDE DEF front
    <2> QED
      BY <1>1, <1>2, <1>3
  <1>5. \A i \in 1..Len(index) : path[i + 1] = index[i]
    <2> HIDE DEF front
    <2> QED
      BY <1>1, <1>2, <1>3
  <1> QED
    BY <1>2, <1>4, <1>5 DEF path, FromEnd, Last

\* The path of a catalog
LEMMA CatalogPath ==
    ASSUME NEW S, NEW index \in Seq(S), NEW path, path = index \o <<"v2", "_catalog">>
    PROVE  /\ Len(path) = Len(index) + 2
           /\ FromEnd(path, 2) = "v2" /\ Last(path) = "_catalog"
           /\ path # <<>>
           /\ SubSeq(path, 1, Len(path) - 2) = index
  <1>1. /\ Len(index) \in Nat
        /\ Len(path) = Len(index) + 2
        /\ \A i \in 1..Len(index) : path[i] = index[i]
        /\ path[Len(index) + 1] = "v2"
        /\ path[Len(index) + 2] = "_catalog"
    OBVIOUS
  <1>2. SubSeq(path, 1, Len(index)) = index
    <2>1. \A i \in 1..Len(index) : path[i] \in S
      BY <1>1
    <2>2. /\ SubSeq(path, 1, Len(index)) \in Seq(S)
          /\ Len(SubSeq(path, 1, Len(index))) = Len(index)
          /\ \A i \in 1..Len(index) : SubSeq(path, 1, Len(index))[i] = path[i]
      <3>1. /\ SubSeq(path, 1, Len(index)) \in Seq(S)
            /\ Len(SubSeq(path, 1, Len(index)))
                 = IF 1 <= Len(index) THEN Len(index) - 1 + 1 ELSE 0
            /\ \A i \in 1..(Len(index) - 1 + 1) :
                 SubSeq(path, 1, Len(index))[i] = path[1 + i - 1]
        BY <1>1, <2>1, SubSeqProperties
      <3> QED
        BY <1>1, <3>1
    <2> QED
      BY <1>1, <2>2, SeqEqual
  <1> QED
    BY <1>1, <1>2 DEF FromEnd, Last

LEMMA FrontOfTwo ==
    ASSUME NEW S, NEW a \in S, NEW b \in S
    PROVE  SubSeq(<<a, b>>, 1, 2 - 1) = <<a>>
  <1> DEFINE s == SubSeq(<<a, b>>, 1, 1)
             t == <<a>>
  <1>1. t \in Seq(S) /\ Len(t) = 1 /\ t[1] = a /\ <<a, b>>[1] = a
    OBVIOUS
  <1>2. \A i \in 1..1 : <<a, b>>[i] \in S
    OBVIOUS
  <1>3. /\ s \in Seq(S)
        /\ Len(s) = IF 1 <= 1 THEN 1 - 1 + 1 ELSE 0
        /\ \A i \in 1..(1 - 1 + 1) : s[i] = <<a, b>>[1 + i - 1]
    BY <1>2, SubSeqProperties
  <1> HIDE DEF s, t
  <1>4. Len(s) = 1 /\ s[1] = a
    BY <1>1, <1>3
  <1>5. s = t
    BY <1>1, <1>3, <1>4, SeqEqual
  <1> QED
    BY <1>5 DEF s, t

\* A path of these three kinds is told by its last element but one.
LEMMA ChartRoute ==
    ASSUME NEW path, NEW kind \in {"manifests", "blobs", "tags"},
           Len(path) >= 3, Len(path) >= 4, path # <<>>,
           FromEnd(path, 2) = kind, Last(path) # ""
    PROVE  Route(path) = kind
  <1>1. WithoutSlash(path) = path
    BY DEF WithoutSlash
  <1>2. IsBlob(path) <=> kind = "blobs"
    BY <1>1 DEF IsBlob
  <1>3. IsManifest(path) <=> kind = "manifests"
    BY DEF IsManifest
  <1>4. IsTags(path) <=> kind = "tags"
    BY DEF IsTags
  <1> QED
    BY <1>2, <1>3, <1>4 DEF Route

\* Whatever the repository and the chart are called, the path goes to the
\* handler that was meant.
LEMMA RoutesAsMeant ==
    ASSUME NEW S, NEW kind \in Kinds, NEW index \in Seq(S), NEW chart
    PROVE  Route(ClientPath(kind, index, chart)) = kind
  <1>1. CASE kind = "manifests"
    <2> DEFINE path == <<"v2">> \o index \o <<chart, "manifests", "1.0.0">>
    <2>1. /\ Len(path) >= 3 /\ Len(path) >= 4
          /\ FromEnd(path, 2) = "manifests" /\ Last(path) = "1.0.0" /\ path # <<>>
      BY ChartPath
    <2>2. ClientPath(kind, index, chart) = path
      BY <1>1 DEF ClientPath
    <2> HIDE DEF path
    <2>3. Route(path) = "manifests"
      BY <2>1, ChartRoute
    <2> QED
      BY <1>1, <2>2, <2>3
  <1>2. CASE kind = "blobs"
    <2> DEFINE path == <<"v2">> \o index \o <<chart, "blobs", "sha256:0">>
    <2>1. /\ Len(path) >= 3 /\ Len(path) >= 4
          /\ FromEnd(path, 2) = "blobs" /\ Last(path) = "sha256:0" /\ path # <<>>
      BY ChartPath
    <2>2. ClientPath(kind, index, chart) = path
      BY <1>2 DEF ClientPath
    <2> HIDE DEF path
    <2>3. Route(path) = "blobs"
      BY <2>1, ChartRoute
    <2> QED
      BY <1>2, <2>2, <2>3
  <1>3. CASE kind = "tags"
    <2> DEFINE path == <<"v2">> \o index \o <<chart, "tags", "list">>
    <2>1. /\ Len(path) >= 3 /\ Len(path) >= 4
          /\ FromEnd(path, 2) = "tags" /\ Last(path) = "list" /\ path # <<>>
      BY ChartPath
    <2>2. ClientPath(kind, index, chart) = path
      BY <1>3 DEF ClientPath
    <2> HIDE DEF path
    <2>3. Route(path) = "tags"
      BY <2>1, ChartRoute
    <2> QED
      BY <1>3, <2>2, <2>3
  <1>4. CASE kind = "catalog"
    <2>1. PICK path : path = index \o <<"v2", "_catalog">>
      OBVIOUS
    <2>2. /\ Len(path) = Len(index) + 2 /\ path # <<>>
          /\ FromEnd(path, 2) = "v2" /\ Last(path) = "_catalog"
      BY <2>1, CatalogPath
    <2>3. Len(index) \in Nat
      OBVIOUS
    <2>4. Len(path) >= 2
      BY <2>2, <2>3
    <2>5. WithoutSlash(path) = path
      BY <2>2 DEF WithoutSlash
    <2>6. ~IsBlob(path) /\ ~IsManifest(path) /\ ~IsTags(path) /\ IsCatalog(path)
      BY <2>2, <2>4, <2>5 DEF IsBlob, IsManifest, IsTags, IsCatalog
    <2>7. Route(path) = "catalog"
      BY <2>6 DEF Route
    <2> QED
      BY <1>4, <2>1, <2>7 DEF ClientPath
  <1>5. CASE kind = "ping"
    <2>1. PICK path : path = <<"v2", "">>
      OBVIOUS
    <2>2. PICK v2 : v2 = <<"v2">>
      OBVIOUS
    <2>3. Len(path) = 2 /\ path[1] = "v2" /\ path[2] = "" /\ path # <<>>
      BY <2>1
    <2>4. Len(v2) = 1 /\ v2[1] = "v2" /\ v2 # <<>>
      BY <2>2
    <2>5. Last(path) = "" /\ Last(v2) = "v2"
      BY <2>3, <2>4 DEF Last
    <2>6. Front(path) = v2
      <3>1. Front(path) = SubSeq(path, 1, 2 - 1)
        BY <2>3 DEF Front
      <3>2. SubSeq(path, 1, 2 - 1) = <<"v2">>
        <4>1. "v2" \in {"v2", ""} /\ "" \in {"v2", ""}
          OBVIOUS
        <4> QED
          BY <2>1, <4>1, FrontOfTwo, Zenon
      <3> QED
        BY <2>2, <3>1, <3>2
    <2>7. WithoutSlash(path) = v2
      BY <2>3, <2>5, <2>6 DEF WithoutSlash
    <2>8. ~IsBlob(path) /\ ~IsManifest(path) /\ ~IsTags(path) /\ ~IsCatalog(path)
      <3>1. ~(Len(v2) >= 3) /\ ~(Len(path) >= 4)
        <4>1. ~(1 >= 3) /\ ~(2 >= 4)
          OBVIOUS
        <4> QED
          BY <2>3, <2>4, <4>1, Zenon
      <3> QED
        BY <2>5, <2>7, <3>1 DEF IsBlob, IsManifest, IsTags, IsCatalog
    <2>9. IsV2(path)
      BY <2>4, <2>5, <2>7 DEF IsV2
    <2>10. Route(path) = "ping"
      BY <2>8, <2>9 DEF Route
    <2> QED
      BY <1>5, <2>1, <2>10 DEF ClientPath
  <1> QED
    BY <1>1, <1>2, <1>3, <1>4, <1>5 DEF Kinds

\* The last element is the chart, what is before it the index.
LEMMA SplitRepository ==
    ASSUME NEW T, NEW index \in Seq(T), NEW repo \in Seq(T),
           Len(repo) = Len(index) + 1,
           \A i \in 1..Len(index) : repo[i] = index[i]
    PROVE  Split(repo) = Asked(index, repo[Len(index) + 1])
  <1> DEFINE front == SubSeq(repo, 1, Len(index))
  <1>1. Len(index) \in Nat
    OBVIOUS
  <1>2. \A i \in 1..Len(index) : repo[i] \in T
    BY <1>1
  <1>3. /\ front \in Seq(T)
        /\ Len(front) = IF 1 <= Len(index) THEN Len(index) - 1 + 1 ELSE 0
        /\ \A i \in 1..(Len(index) - 1 + 1) : front[i] = repo[1 + i - 1]
    BY <1>1, <1>2, SubSeqProperties
  <1> HIDE DEF front
  <1>4. Len(front) = Len(index) /\ \A i \in 1..Len(front) : front[i] = index[i]
    BY <1>1, <1>3
  <1>5. front = index
    BY <1>1, <1>3, <1>4, SeqEqual
  <1>6. Len(repo) - 1 = Len(index)
    BY <1>1
  <1>7. Front(repo) = index
    BY <1>5, <1>6 DEF front, Front
  <1>8. repo # <<>> /\ Last(repo) = repo[Len(index) + 1]
    BY <1>1 DEF Last
  <1> QED
    BY <1>7, <1>8 DEF Split

\* In the path of a chart in a repository, none of them called "v2", the
\* handlers find both, whether they begin with the first element or the second.
LEMMA RepositoryIsFound ==
    ASSUME NEW S, NEW index \in Seq(S), NEW chart, NEW a, NEW b, NEW first \in {1, 2},
           "v2" \notin ToSet(index) \cup {chart}
    PROVE  Split(RepoBetween(<<"v2">> \o index \o <<chart, a, b>>, first)) = Asked(index, chart)
  <1> DEFINE path == <<"v2">> \o index \o <<chart, a, b>>
             n == Len(index)
             marks == {i \in first..(Len(path) - 2) : path[i] = "v2"}
             repo == RepoBetween(path, first)
             T == S \cup {chart}
  <1>1. /\ n \in Nat
        /\ Len(path) = n + 4
        /\ path[1] = "v2"
        /\ \A i \in 1..n : path[i + 1] = index[i]
        /\ path[n + 2] = chart
    BY ChartPath
  <1> HIDE DEF path
  <1>2. Len(path) - 2 = n + 2
    BY <1>1
  <1>3. \A i \in 2..(n + 2) : path[i] # "v2" /\ path[i] \in T
    <2> SUFFICES ASSUME NEW i \in 2..(n + 2) PROVE path[i] # "v2" /\ path[i] \in T
      OBVIOUS
    <2>1. CASE i = n + 2
      BY <1>1, <2>1
    <2>2. CASE i # n + 2
      <3>1. i - 1 \in 1..n /\ i - 1 + 1 = i
        BY <1>1, <2>2
      <3>2. path[i] = index[i - 1] /\ index[i - 1] \in S
        BY <1>1, <3>1
      <3>3. index[i - 1] \in ToSet(index)
        BY <1>1, <3>1 DEF ToSet
      <3> QED
        BY <3>1, <3>2, <3>3
    <2> QED
      BY <2>1, <2>2
  <1>4. marks \cup {first - 1} = IF first = 1 THEN {1, 0} ELSE {1}
    BY <1>1, <1>2, <1>3
  <1>5. Max(marks \cup {first - 1}) = 1
    <2>1. CASE first = 1
      <3>1. marks \cup {first - 1} = {1, 0}
        BY <1>4, <2>1
      <3>2. Max({1, 0}) = 1
        BY DEF Max
      <3> QED
        BY <3>1, <3>2
    <2>2. CASE first = 2
      <3>1. marks \cup {first - 1} = {1}
        BY <1>4, <2>2
      <3>2. Max({1}) = 1
        BY DEF Max
      <3> QED
        BY <3>1, <3>2
    <2> QED
      BY <2>1, <2>2
  <1>6. repo = SubSeq(path, 2, n + 2)
    <2>1. repo = SubSeq(path, Max(marks \cup {first - 1}) + 1, Len(path) - 2)
      BY DEF RepoBetween
    <2>2. 1 + 1 = 2
      OBVIOUS
    <2> HIDE DEF marks, repo
    <2> QED
      BY <1>2, <1>5, <2>1, <2>2, Zenon
  <1>7. /\ repo \in Seq(T)
        /\ Len(repo) = IF 2 <= n + 2 THEN n + 2 - 2 + 1 ELSE 0
        /\ \A i \in 1..(n + 2 - 2 + 1) : repo[i] = path[2 + i - 1]
    <2> HIDE DEF repo
    <2>1. \A i \in 2..(n + 2) : path[i] \in T
      BY <1>3
    <2> QED
      BY <1>1, <1>6, <2>1, SubSeqProperties
  <1> HIDE DEF repo, n
  <1>8. Len(repo) = n + 1
    BY <1>1, <1>7
  <1>9. repo[n + 1] = chart
    <2>1. n + 1 \in 1..(n + 2 - 2 + 1) /\ 2 + (n + 1) - 1 = n + 2
      BY <1>1
    <2> QED
      BY <1>1, <1>7, <2>1
  <1>10. ASSUME NEW i \in 1..n PROVE repo[i] = index[i]
    <2>1. i \in 1..(n + 2 - 2 + 1) /\ 2 + i - 1 = i + 1
      BY <1>1
    <2> QED
      BY <1>1, <1>7, <2>1
  <1>11. index \in Seq(T)
    OBVIOUS
  <1>12. Split(repo) = Asked(index, repo[n + 1])
    <2> HIDE DEF T
    <2> QED
      BY <1>7, <1>8, <1>10, <1>11, SplitRepository DEF n
  <1> QED
    BY <1>9, <1>12 DEF repo, path

LEMMA GreatestNumber ==
    ASSUME NEW n \in Nat, NEW M \in SUBSET (0..n), NEW k \in M
    PROVE  Max(M) \in M /\ \A y \in M : y <= Max(M)
  <1> DEFINE less == {p \in Nat \X Nat : p[1] < p[2]}
             below == {n - x : x \in M}
  <1>1. below \subseteq Nat /\ below # {}
    OBVIOUS
  <1>2. PICK t \in below : \A u \in below : <<u, t>> \notin less
    <2>1. IsWellFoundedOn(less, Nat)
      BY NatLessThanWellFounded DEF OpToRel
    <2> QED
      BY <1>1, <2>1, WFMin
  <1>3. PICK x \in M : t = n - x
    BY <1>2
  <1>4. ASSUME NEW y \in M PROVE y <= x
    <2> DEFINE u == n - y
    <2>1. u \in Nat /\ t \in Nat /\ u \in below
      BY <1>1, <1>2
    <2>2. ~(u < t)
      <3>1. <<u, t>> \in Nat \X Nat /\ <<u, t>>[1] = u /\ <<u, t>>[2] = t
        BY <2>1
      <3> HIDE DEF u, below
      <3> QED
        BY <1>2, <2>1, <3>1
    <2> QED
      BY <1>3, <2>2
  <1>5. \A y \in M : x >= y
    BY <1>4
  <1> QED
    BY <1>5 DEF Max

\* If one of them is called "v2", what is found is shorter than what was meant.
LEMMA RepositoryIsCut ==
    ASSUME NEW S, NEW index \in Seq(S), index # <<>>, NEW chart, NEW a, NEW b,
           NEW first \in {1, 2}, "v2" \in ToSet(index) \cup {chart}
    PROVE  Split(RepoBetween(<<"v2">> \o index \o <<chart, a, b>>, first)) # Asked(index, chart)
  <1> DEFINE path == <<"v2">> \o index \o <<chart, a, b>>
             n == Len(index)
             marks == {i \in first..(Len(path) - 2) : path[i] = "v2"}
             m == Max(marks \cup {first - 1})
             repo == RepoBetween(path, first)
             T == S \cup {chart}
  <1>1. /\ n \in Nat
        /\ Len(path) = n + 4
        /\ \A i \in 1..n : path[i + 1] = index[i]
        /\ path[n + 2] = chart
    BY ChartPath
  <1> HIDE DEF path
  <1>2. PICK k \in 2..(n + 2) : path[k] = "v2"
    <2>1. CASE chart = "v2"
      <3>1. n + 2 \in 2..(n + 2) /\ path[n + 2] = "v2"
        BY <1>1, <2>1
      <3> QED
        BY <3>1
    <2>2. CASE "v2" \in ToSet(index)
      <3>1. PICK j \in 1..n : index[j] = "v2"
        BY <2>2 DEF ToSet
      <3>2. j + 1 \in 2..(n + 2) /\ path[j + 1] = "v2"
        BY <1>1, <3>1
      <3> QED
        BY <3>2
    <2> QED
      BY <2>1, <2>2
  <1>3. m \in 2..(n + 2)
    <2> DEFINE M == marks \cup {first - 1}
    <2>1. Len(path) - 2 = n + 2 /\ n + 2 \in Nat
      BY <1>1
    <2>2. k \in M /\ M \in SUBSET (0..(n + 2))
      BY <1>1, <1>2, <2>1
    <2> HIDE DEF M
    <2>3. Max(M) \in M /\ \A y \in M : y <= Max(M)
      BY <2>1, <2>2, GreatestNumber
    <2>4. m = Max(M)
      BY DEF M
    <2>5. PICK g \in 0..(n + 2) : g = Max(M)
      BY <2>2, <2>3
    <2>6. k <= g
      BY <2>2, <2>3, <2>5
    <2>7. g \in 2..(n + 2)
      BY <1>1, <1>2, <2>5, <2>6
    <2> HIDE DEF m
    <2> QED
      BY <2>4, <2>5, <2>7
  <1>4. repo = SubSeq(path, m + 1, n + 2)
    <2>1. Len(path) - 2 = n + 2
      BY <1>1
    <2> QED
      BY <2>1 DEF RepoBetween
  <1> HIDE DEF m, repo
  <1>5. \A i \in (m + 1)..(n + 2) : path[i] \in T
    <2> SUFFICES ASSUME NEW i \in (m + 1)..(n + 2) PROVE path[i] \in T
      OBVIOUS
    <2>1. CASE i = n + 2
      BY <1>1, <2>1
    <2>2. CASE i # n + 2
      <3>1. i - 1 \in 1..n /\ i - 1 + 1 = i
        BY <1>1, <1>3, <2>2
      <3>2. path[i] = index[i - 1] /\ index[i - 1] \in S
        BY <1>1, <3>1
      <3> QED
        BY <3>2
    <2> QED
      BY <2>1, <2>2
  <1> HIDE DEF T
  <1>6. repo \in Seq(T) /\ Len(repo) = IF m + 1 <= n + 2 THEN n + 2 - (m + 1) + 1 ELSE 0
    <2>1. m + 1 \in Nat \ {0} /\ n + 2 \in Nat
      BY <1>1, <1>3
    <2> QED
      BY <1>1, <1>3, <1>4, <1>5, <2>1, SubSeqProperties
  <1>7. Len(repo) \in Nat /\ Len(repo) <= n
    BY <1>1, <1>3, <1>6
  <1>8. CASE repo = <<>>
    BY <1>8 DEF Split, Asked, repo, path
  <1>9. CASE repo # <<>>
    <2> DEFINE front == SubSeq(repo, 1, Len(repo) - 1)
    <2>1. Len(repo) >= 1
      BY <1>6, <1>7, <1>9
    <2>2. \A i \in 1..(Len(repo) - 1) : repo[i] \in T
      BY <1>6, <1>7
    <2>3. Len(front) = IF 1 <= Len(repo) - 1 THEN Len(repo) - 1 - 1 + 1 ELSE 0
      BY <1>7, <2>1, <2>2, SubSeqProperties
    <2>4. Len(front) # n
      <3> HIDE DEF front
      <3> QED
        BY <1>1, <1>7, <2>1, <2>3
    <2>5. Split(repo).index = front
      BY <1>9 DEF Split, Asked, Front
    <2>6. Split(repo).index # index
      BY <2>4, <2>5
    <2>7. Asked(index, chart).index = index
      BY DEF Asked
    <2> QED
      BY <2>6, <2>7 DEF repo, path
  <1> QED
    BY <1>8, <1>9

\* The handler that is meant finds what is meant, and only then.
LEMMA ParsedOnlyAsMeant ==
    ASSUME NEW S, NEW kind \in {"manifests", "tags"}, NEW index \in Seq(S), index # <<>>,
           NEW chart, "v2" \in ToSet(index) \cup {chart}
    PROVE  Parsed(ClientPath(kind, index, chart)) # Asked(index, chart)
  <1>1. Route(ClientPath(kind, index, chart)) = kind
    BY RoutesAsMeant DEF Kinds
  <1>2. CASE kind = "manifests"
    <2>1. Parsed(ClientPath(kind, index, chart))
            = Split(RepoBetween(<<"v2">> \o index \o <<chart, "manifests", "1.0.0">>, 2))
      BY <1>1, <1>2 DEF Parsed, RepoOf, ClientPath
    <2> QED
      BY <2>1, RepositoryIsCut
  <1>3. CASE kind = "tags"
    <2>1. Parsed(ClientPath(kind, index, chart))
            = Split(RepoBetween(<<"v2">> \o index \o <<chart, "tags", "list">>, 1))
      BY <1>1, <1>3 DEF Parsed, TagsRepoOf, ClientPath
    <2> QED
      BY <2>1, RepositoryIsCut
  <1> QED
    BY <1>2, <1>3

\* The handler that is meant finds what is meant.
LEMMA ParsedAsMeant ==
    ASSUME NEW S, NEW kind \in Kinds, NEW index \in Seq(S), NEW chart
    PROVE  /\ kind = "catalog" => Parsed(ClientPath(kind, index, chart)).index = index
           /\ kind \in {"manifests", "tags"} /\ "v2" \notin ToSet(index) \cup {chart}
                => Parsed(ClientPath(kind, index, chart)) = Asked(index, chart)
  <1> DEFINE path == ClientPath(kind, index, chart)
  <1>1. Route(path) = kind
    BY RoutesAsMeant
  <1>2. ASSUME kind = "catalog" PROVE Parsed(path).index = index
    <2>1. SubSeq(path, 1, Len(path) - 2) = index
      BY <1>2, CatalogPath DEF ClientPath
    <2> HIDE DEF path
    <2> QED
      BY <1>1, <1>2, <2>1 DEF Parsed, Asked
  <1>3. ASSUME kind = "manifests", "v2" \notin ToSet(index) \cup {chart}
        PROVE  Parsed(path) = Asked(index, chart)
    <2>1. path = <<"v2">> \o index \o <<chart, "manifests", "1.0.0">>
      BY <1>3 DEF ClientPath
    <2>2. Parsed(path) = Split(RepoBetween(path, 2))
      <3> HIDE DEF path
      <3> QED
        BY <1>1, <1>3 DEF Parsed, RepoOf
    <2>3. Split(RepoBetween(path, 2)) = Asked(index, chart)
      <3>1. Split(RepoBetween(<<"v2">> \o index \o <<chart, "manifests", "1.0.0">>, 2))
              = Asked(index, chart)
        BY <1>3, RepositoryIsFound
      <3> QED
        BY <2>1, <3>1
    <2> QED
      BY <2>2, <2>3
  <1>4. ASSUME kind = "tags", "v2" \notin ToSet(index) \cup {chart}
        PROVE  Parsed(path) = Asked(index, chart)
    <2>1. path = <<"v2">> \o index \o <<chart, "tags", "list">>
      BY <1>4 DEF ClientPath
    <2>2. Parsed(path) = Split(RepoBetween(path, 1))
      <3> HIDE DEF path
      <3> QED
        BY <1>1, <1>4 DEF Parsed, TagsRepoOf
    <2>3. Split(RepoBetween(path, 1)) = Asked(index, chart)
      <3>1. Split(RepoBetween(<<"v2">> \o index \o <<chart, "tags", "list">>, 1))
              = Asked(index, chart)
        BY <1>4, RepositoryIsFound
      <3> QED
        BY <2>1, <3>1
    <2> QED
      BY <2>2, <2>3
  <1> QED
    BY <1>2, <1>3, <1>4

-----------------------------------------------------------------------------
(* What the stages pass on                                                 *)

\* The routed request is what the path of its client says.
RoutedInv ==
    job.stage = "routed" =>
        \E kind \in Kinds, index \in Indexes, chart \in Elements :
            job = [stage |-> "routed", kind |-> kind, index |-> index, chart |-> chart,
                   handler |-> Route(ClientPath(kind, index, chart)),
                   asked |-> Parsed(ClientPath(kind, index, chart))]

\* A variant other than the default one has a valid host.
VariantInv ==
    job.stage \in {"preparing", "downloading", "downloaded", "too long", "rewritten"}
        => job.variant \in Variants

\* What each image of a layer is, whenever it was packed
ImageOf(layer, custom, dated) ==
    [layer |-> layer, config |-> Config(layer),
     annotations |-> Annotations(Loads(layer), custom, Created(dated))]

LayerOf(archive, variant) ==
    IF variant = "default" THEN archive ELSE Rewritten(archive, Proxy)

RewrittenJob(archive, variant, custom, dated, images) ==
    [stage |-> "rewritten", variant |-> variant, archive |-> archive, custom |-> custom,
     dated |-> dated, images |-> images, layer |-> LayerOf(archive, variant)]

\* The layer is that of the variant, and all images are its image.
RewrittenInv ==
    job.stage = "rewritten" =>
        \E archive \in Archives, variant \in {Proxy, "default"},
           custom \in {{}, {"title", "created"}}, dated \in BOOLEAN :
          \E images \in Seq({ImageOf(LayerOf(archive, variant), custom, dated)}) :
            /\ job = RewrittenJob(archive, variant, custom, dated, images)
            /\ Len(images) <= Len(Times)

StagesInv == PipelineInv /\ RoutedInv /\ VariantInv /\ RewrittenInv

\* The date of an image is never that of its packing: its annotations have one.
LEMMA PackedImage ==
    ASSUME NEW archive, NEW variant, NEW custom, NEW dated, NEW images, NEW now
    PROVE  Image(RewrittenJob(archive, variant, custom, dated, images), now)
             = ImageOf(LayerOf(archive, variant), custom, dated)
  <1> DEFINE j == RewrittenJob(archive, variant, custom, dated, images)
             layer == LayerOf(archive, variant)
             a == Annotations(Loads(layer), custom, Created(dated))
  <1>1. j.layer = layer /\ j.custom = custom /\ j.dated = dated /\ Described(j) = layer
    BY DEF RewrittenJob, Described
  <1>2. "created" \in DOMAIN a
    BY DEF Annotations
  <1>3. Dated(a, now) = a
    BY <1>2 DEF Dated
  <1> HIDE DEF j, layer
  <1> QED
    BY <1>1, <1>3 DEF Image, ImageOf, j, layer

\* Where a job may be after a step that neither routes, prepares, rewrites nor
\* packs
LEMMA OtherStages ==
    ASSUME PipelineInv, [Next]_vars
    PROVE  \/ \E kind \in Kinds, index \in Indexes, chart \in Elements : Receive(kind, index, chart)
           \/ \E query \in {"", "true", "false"} : Prepare(query)
           \/ \E archive \in Archives, custom \in {{}, {"title", "created"}}, dated \in BOOLEAN :
                Rewrite(archive, custom, dated)
           \/ Pack
           \/ UNCHANGED vars
           \/ /\ config' = config
              /\ job'.stage \in {"idle", "copying", "pushing", "stored", "rejected"}
           \/ /\ config' = config
              /\ job.stage \in {"preparing", "downloading"}
              /\ job'.stage \in {"downloading", "downloaded", "too long"}
              /\ job'.variant = job.variant
  <1>1. ASSUME BreakBody \/ Copy \/ Return
        PROVE  config' = config /\ job'.stage \in {"idle", "copying"}
    <2>1. config' = config /\ (job' = [stage |-> "idle"] \/ job' = [stage |-> "copying"])
      BY <1>1 DEF BreakBody, Copy, Return, Idle
    <2> QED
      BY <2>1
  <1>2. ASSUME NEW size \in Sizes, Respond(size)
        PROVE  /\ config' = config
               /\ job.stage = "preparing" /\ job'.stage = "downloading"
               /\ job'.variant = job.variant
    BY <1>2 DEF Respond
  <1>3. ASSUME ReadBody
        PROVE  /\ config' = config
               /\ job.stage = "downloading"
               /\ job'.stage \in {"downloading", "downloaded", "too long"}
               /\ job'.variant = job.variant
    <2>1. job \in Download /\ job.stage = "downloading" /\ config' = config
      BY <1>3 DEF PipelineInv, DownloadInv, ReadBody
    <2>2. PICK a \in Answers(job.body) :
            job' = IF ~a.eof THEN [job EXCEPT !.body = After(job.body, a)]
                   ELSE [job EXCEPT !.body = After(job.body, a),
                                    !.stage = IF Fits(After(job.body, a).given)
                                              THEN "downloaded" ELSE "too long"]
      BY <1>3 DEF ReadBody
    <2>3. CASE ~a.eof
      BY <2>1, <2>2, <2>3 DEF Download
    <2>4. CASE a.eof
      <3>1. PICK end \in {"downloaded", "too long"} :
              job' = [job EXCEPT !.body = After(job.body, a), !.stage = end]
        BY <2>2, <2>4
      <3> QED
        BY <2>1, <3>1 DEF Download
    <2> QED
      BY <2>3, <2>4
  <1>4. ASSUME NEW want \in Sizes, NEW declared \in Sizes \cup {Unlimited},
               NEW size \in Sizes, NEW same \in Sizes, Push(want, declared, size, same)
        PROVE  config' = config /\ job'.stage = "pushing"
    BY <1>4 DEF Push
  <1>5. ASSUME ReadVerified
        PROVE  config' = config /\ job'.stage \in {"pushing", "stored", "rejected"}
    <2>1. job \in Pushed /\ job.stage = "pushing" /\ config' = config
      BY <1>5 DEF PipelineInv, PushedInv, ReadVerified
    <2> DEFINE read(a) == [job EXCEPT !.source = After(job.source, a),
                                      !.gotSize = Counted(job.gotSize, a.n)]
    <2>2. PICK a \in Answers(job.source) :
            job' = IF ~a.eof THEN read(a)
                   ELSE [read(a) EXCEPT !.stage = IF SizeMatches(read(a)) /\ HashMatches(read(a))
                                                  THEN "stored" ELSE "rejected"]
      BY <1>5 DEF ReadVerified
    <2>3. read(a).stage = "pushing" /\ "stage" \in DOMAIN read(a)
      BY <2>1 DEF Pushed
    <2>4. PICK j : j = read(a)
      OBVIOUS
    <2>5. CASE ~a.eof
      BY <2>1, <2>2, <2>3, <2>5
    <2>6. CASE a.eof
      <3>1. PICK end \in {"stored", "rejected"} : job' = [j EXCEPT !.stage = end]
        BY <2>2, <2>4, <2>6
      <3>2. "stage" \in DOMAIN j
        BY <2>3, <2>4
      <3> QED
        BY <2>1, <3>1, <3>2
    <2> QED
      BY <2>5, <2>6
  <1> QED
    BY <1>1, <1>2, <1>3, <1>4, <1>5 DEF Next

LEMMA StagesInit == Init => StagesInv
  <1>1. Init => PipelineInv
    BY DEF Init, Idle, PipelineInv, DownloadInv, PushedInv
  <1> QED
    BY <1>1 DEF Init, Idle, StagesInv, RoutedInv, VariantInv, RewrittenInv

\* A job that is prepared, or not any more
LEMMA PrepareStages ==
    ASSUME StagesInv, NEW query \in {"", "true", "false"}, Prepare(query)
    PROVE  RoutedInv' /\ VariantInv' /\ RewrittenInv'
  <1>1. config \in Configs /\ config' = config
    BY DEF StagesInv, PipelineInv, Prepare
  <1>2. CASE job' = Idle
    BY <1>2 DEF Idle, RoutedInv, VariantInv, RewrittenInv
  <1>3. CASE ~Refused(query) /\ job' = [stage |-> "preparing", variant |-> Variant(query)]
    <2>1. Variant(query) \in Variants
      BY <1>3 DEF Refused, Variant, Variants
    <2>2. Variants' = Variants
      BY <1>1 DEF Variants
    <2>3. job'.stage = "preparing" /\ job'.variant = Variant(query)
      BY <1>3
    <2> QED
      BY <2>1, <2>2, <2>3 DEF RoutedInv, VariantInv, RewrittenInv
  <1> QED
    BY <1>2, <1>3 DEF Prepare

LEMMA RewriteStages ==
    ASSUME StagesInv, NEW archive \in Archives, NEW custom \in {{}, {"title", "created"}},
           NEW dated \in BOOLEAN, Rewrite(archive, custom, dated)
    PROVE  RoutedInv' /\ VariantInv' /\ RewrittenInv'
  <1> DEFINE v == job.variant
             images == <<>>
  <1>1. v \in Variants /\ v \in {Proxy, "default"} /\ config' = config
    BY DEF StagesInv, VariantInv, Rewrite, PipelineInv, DownloadInv, Download
  <1>2. job' = RewrittenJob(archive, v, custom, dated, images)
    BY DEF Rewrite, RewrittenJob, LayerOf
  <1>3. /\ images \in Seq({ImageOf(LayerOf(archive, v), custom, dated)})
        /\ Len(images) <= Len(Times)
    BY DEF Times
  <1>4. job'.stage = "rewritten" /\ job'.variant = v
    BY <1>2 DEF RewrittenJob
  <1>5. Variants' = Variants
    BY <1>1 DEF Variants
  <1> QED
    BY <1>1, <1>2, <1>3, <1>4, <1>5 DEF RoutedInv, VariantInv, RewrittenInv

\* Another image, and the same one
LEMMA PackStages ==
    ASSUME StagesInv, Pack
    PROVE  RoutedInv' /\ VariantInv' /\ RewrittenInv'
  <1>1. job.stage = "rewritten" /\ Len(job.images) < Len(Times) /\ config' = config
    BY DEF Pack
  <1>0. PICK archive \in Archives, v \in {Proxy, "default"},
             custom \in {{}, {"title", "created"}}, dated \in BOOLEAN :
          \E is \in Seq({ImageOf(LayerOf(archive, v), custom, dated)}) :
             job = RewrittenJob(archive, v, custom, dated, is)
    BY <1>1 DEF StagesInv, RewrittenInv
  <1>2. PICK images \in Seq({ImageOf(LayerOf(archive, v), custom, dated)}) :
          job = RewrittenJob(archive, v, custom, dated, images)
    BY <1>0
  <1> DEFINE image == ImageOf(LayerOf(archive, v), custom, dated)
             now == Times[Len(images) + 1]
             more == Append(images, image)
  <1>3. Image(job, now) = image
    BY <1>2, PackedImage
  <1>4. job.images = images
    BY <1>2 DEF RewrittenJob
  <1>5. job' = [job EXCEPT !.images = more]
    BY <1>3, <1>4 DEF Pack
  <1>6. job' = RewrittenJob(archive, v, custom, dated, more)
    <2> HIDE DEF more
    <2> QED
      BY <1>2, <1>5 DEF RewrittenJob
  <1>7. more \in Seq({image}) /\ Len(more) <= Len(Times)
    <2> HIDE DEF image
    <2>1. images \in Seq({image})
      BY DEF image
    <2>2. Len(Times) = 2
      BY DEF Times
    <2> QED
      BY <1>1, <1>4, <2>1, <2>2
  <1>8. Variants' = Variants
    BY <1>1 DEF Variants
  <1>9. job.variant \in Variants /\ job.variant = v
    BY <1>1, <1>2 DEF StagesInv, VariantInv, RewrittenJob
  <1>10. job'.stage = "rewritten" /\ job'.variant = v
    BY <1>6 DEF RewrittenJob
  <1> HIDE DEF more
  <1> QED
    BY <1>6, <1>7, <1>8, <1>9, <1>10 DEF RoutedInv, VariantInv, RewrittenInv

LEMMA StagesStep == StagesInv /\ [Next]_vars => StagesInv'
  <1> SUFFICES ASSUME StagesInv, [Next]_vars PROVE StagesInv'
    OBVIOUS
  <1>1. PipelineInv /\ PipelineInv'
    BY PipelineStep DEF StagesInv
  <1> SUFFICES RoutedInv' /\ VariantInv' /\ RewrittenInv'
    BY <1>1 DEF StagesInv
  <1>2. ASSUME NEW kind \in Kinds, NEW index \in Indexes, NEW chart \in Elements,
               Receive(kind, index, chart)
        PROVE  RoutedInv' /\ VariantInv' /\ RewrittenInv'
    <2>1. job' = [stage |-> "routed", kind |-> kind, index |-> index, chart |-> chart,
                  handler |-> Route(ClientPath(kind, index, chart)),
                  asked |-> Parsed(ClientPath(kind, index, chart))]
      BY <1>2 DEF Receive
    <2>2. job'.stage = "routed"
      BY <2>1
    <2> QED
      BY <2>1, <2>2 DEF RoutedInv, VariantInv, RewrittenInv
  <1>3. CASE UNCHANGED vars
    BY <1>3 DEF vars, StagesInv, RoutedInv, VariantInv, RewrittenInv, Variants
  <1>4. CASE /\ config' = config
             /\ job'.stage \in {"idle", "copying", "pushing", "stored", "rejected"}
    BY <1>4 DEF RoutedInv, VariantInv, RewrittenInv
  <1>5. CASE /\ config' = config
             /\ job.stage \in {"preparing", "downloading"}
             /\ job'.stage \in {"downloading", "downloaded", "too long"}
             /\ job'.variant = job.variant
    <2>1. job.variant \in Variants /\ Variants' = Variants
      BY <1>5 DEF StagesInv, VariantInv, Variants
    <2> QED
      BY <1>5, <2>1 DEF RoutedInv, VariantInv, RewrittenInv
  <1> QED
    BY <1>1, <1>2, <1>3, <1>4, <1>5, OtherStages, PrepareStages, RewriteStages, PackStages

LEMMA StagesInvHolds == Spec => []StagesInv
  BY StagesInit, StagesStep, PTL DEF Spec

\* Whatever the elements of its path, a request reaches the handler its client
\* meant.  The handlers of manifests and tags find the repository and the chart
\* in it exactly if none of its elements is "v2", that of the catalog finds the
\* repository always (registry.go v2, manifest.go Handle, HandleTags,
\* HandleCatalog).
THEOREM RequestsReachTheirHandler == Spec => []RoutedAsMeant
  <1> SUFFICES ASSUME StagesInv PROVE RoutedAsMeant
    BY StagesInvHolds, PTL
  <1> SUFFICES ASSUME job.stage = "routed" PROVE RoutedAsMeant
    BY DEF RoutedAsMeant
  <1>1. PICK kind \in Kinds, index \in Indexes, chart \in Elements :
          job = [stage |-> "routed", kind |-> kind, index |-> index, chart |-> chart,
                 handler |-> Route(ClientPath(kind, index, chart)),
                 asked |-> Parsed(ClientPath(kind, index, chart))]
    BY DEF StagesInv, RoutedInv
  <1>2. index \in Seq(Elements) /\ index # <<>>
    BY IndexesAreSequences
  <1>3. Route(ClientPath(kind, index, chart)) = kind
    BY <1>2, RoutesAsMeant
  <1> DEFINE asked == Parsed(ClientPath(kind, index, chart))
  <1>4. /\ kind = "catalog" => asked.index = index
        /\ kind \in {"manifests", "tags"} /\ "v2" \notin ToSet(index) \cup {chart}
             => asked = Asked(index, chart)
    BY <1>2, ParsedAsMeant
  <1>5. kind \in {"manifests", "tags"} /\ "v2" \in ToSet(index) \cup {chart}
          => asked # Asked(index, chart)
    BY <1>2, ParsedOnlyAsMeant
  <1>6. /\ job.kind = kind /\ job.index = index /\ job.chart = chart
        /\ job.handler = kind
        /\ job.asked = asked
    BY <1>1, <1>3
  <1> HIDE DEF asked
  <1> QED
    BY <1>4, <1>5, <1>6 DEF RoutedAsMeant

-----------------------------------------------------------------------------
(* Images                                                                  *)

\* All images of a layer are the one that ImageOf says.
LEMMA ImagesOfLayer ==
    ASSUME StagesInv, job.stage = "rewritten"
    PROVE  /\ job.archive \in Archives
           /\ job.layer = LayerOf(job.archive, job.variant)
           /\ Len(job.images) \in 0..Len(Times)
           /\ \E layer, custom, dated : job.images \in Seq({ImageOf(layer, custom, dated)})
  <1>1. PICK archive \in Archives, v \in {Proxy, "default"},
             custom \in {{}, {"title", "created"}}, dated \in BOOLEAN :
          \E is \in Seq({ImageOf(LayerOf(archive, v), custom, dated)}) :
             job = RewrittenJob(archive, v, custom, dated, is) /\ Len(is) <= Len(Times)
    BY DEF StagesInv, RewrittenInv
  <1>2. PICK images \in Seq({ImageOf(LayerOf(archive, v), custom, dated)}) :
          job = RewrittenJob(archive, v, custom, dated, images) /\ Len(images) <= Len(Times)
    BY <1>1
  <1>3. /\ job.archive = archive /\ job.variant = v
        /\ job.layer = LayerOf(archive, v) /\ job.images = images
    BY <1>2 DEF RewrittenJob
  <1>4. Len(images) \in 0..Len(Times)
    <2> DEFINE image == ImageOf(LayerOf(archive, v), custom, dated)
    <2>1. images \in Seq({image}) /\ Len(images) <= Len(Times) /\ Len(Times) = 2
      BY <1>2 DEF Times
    <2>2. PICK n \in Nat : n = Len(images)
      BY <2>1
    <2>3. PICK m : m = 2 /\ m = Len(Times)
      BY <2>1
    <2>4. n \in 0..m
      BY <2>1, <2>2, <2>3
    <2> QED
      BY <2>2, <2>3, <2>4, Zenon
  <1>5. \E layer : images \in Seq({ImageOf(layer, custom, dated)})
    OBVIOUS
  <1> QED
    BY <1>3, <1>4, <1>5

\* Whenever a chart is packed, the image is the same: what the annotations say
\* of the time never is the time of the packing (charts.go
\* getDeterministicCreatedTimestamp, generateOCIAnnotations).
THEOREM ImagesAreReproducible == Spec => []Reproducible
  <1> SUFFICES ASSUME StagesInv PROVE Reproducible
    BY StagesInvHolds, PTL
  <1> SUFFICES ASSUME job.stage = "rewritten" PROVE Reproducible
    BY DEF Reproducible
  <1>1. PICK image : job.images \in Seq({image})
    BY ImagesOfLayer
  <1>2. ASSUME NEW k \in DOMAIN job.images PROVE 1 \in DOMAIN job.images
    BY <1>1
  <1> QED
    BY <1>1, <1>2 DEF Reproducible

\* The configuration and the annotations of an image are those of its layer,
\* for any archives: no custom annotation replaces the name or the version
\* (charts.go extractChartMeta, generateOCIAnnotations).
THEOREM ImagesDescribeTheirLayer == Spec => []ImageDescribesLayer
  <1> SUFFICES ASSUME StagesInv PROVE ImageDescribesLayer
    BY StagesInvHolds, PTL
  <1> SUFFICES ASSUME job.stage = "rewritten", NEW k \in DOMAIN job.images
               PROVE  LET image == job.images[k] IN
                      IF Loads(image.layer)
                      THEN /\ image.config = OwnDeps(image.layer)
                           /\ image.annotations["title"] = "chart"
                           /\ image.annotations["version"] = "chart"
                      ELSE image.config = EmptyConfig /\ DOMAIN image.annotations = {"created"}
    BY DEF ImageDescribesLayer
  <1>0. PICK layer, custom, dated : job.images \in Seq({ImageOf(layer, custom, dated)})
    BY ImagesOfLayer
  <1>1. job.images[k] = ImageOf(layer, custom, dated)
    BY <1>0
  <1> DEFINE a == Annotations(Loads(layer), custom, Created(dated))
  <1>2. /\ job.images[k].layer = layer
        /\ job.images[k].config = Config(layer)
        /\ job.images[k].annotations = a
    BY <1>1 DEF ImageOf
  <1>3. CASE Loads(layer)
    <2>1. a["title"] = "chart" /\ a["version"] = "chart"
      BY <1>3 DEF Annotations
    <2> HIDE DEF a
    <2> QED
      BY <1>2, <1>3, <2>1 DEF Config
  <1>4. CASE ~Loads(layer)
    <2>1. DOMAIN a = {"created"}
      BY <1>4 DEF Annotations
    <2> HIDE DEF a
    <2> QED
      BY <1>2, <1>4, <2>1 DEF Config
  <1> QED
    BY <1>3, <1>4

\* What each stage keeps has its type; a rewriting variant has a valid host
\* (charts.go getRewriteOptions).
THEOREM PipelineIsTyped == Spec => []TypeOK
  <1> SUFFICES ASSUME StagesInv PROVE TypeOK
    BY StagesInvHolds, PTL
  <1>1. config \in Configs
    BY DEF StagesInv, PipelineInv
  <1>2. ASSUME job.stage = "routed" PROVE job.handler \in Kinds
    <2>1. PICK kind \in Kinds, index \in Indexes, chart \in Elements :
            job.handler = Route(ClientPath(kind, index, chart))
      BY <1>2 DEF StagesInv, RoutedInv
    <2>2. index \in Seq(Elements)
      BY IndexesAreSequences
    <2> QED
      BY <2>1, <2>2, RoutesAsMeant
  <1>3. job.stage \in {"preparing", "downloading", "downloaded", "too long", "rewritten"}
          => job.variant \in Variants
    BY DEF StagesInv, VariantInv
  <1>4. job.stage \in {"downloading", "downloaded", "too long"} => job.body \in Readers
    BY DEF StagesInv, PipelineInv, DownloadInv, Download
  <1>5. job.stage = "rewritten" => Len(job.images) \in 0..Len(Times)
    BY ImagesOfLayer
  <1>6. ASSUME job.stage \in {"pushing", "stored", "rejected"}
        PROVE  job.source \in Readers /\ job.gotSize \in 0..job.size
    <2>1. /\ job \in Pushed
          /\ ReaderInv(job.source, job.size)
          /\ job.gotSize = job.source.given
      BY <1>6 DEF StagesInv, PipelineInv, PushedInv
    <2>2. /\ job.source \in Readers
          /\ job.source.left \in Nat /\ job.source.given \in Nat /\ job.size \in Nat
          /\ job.source.left + job.source.given = job.size
      BY <2>1 DEF ReaderInv, Readers, Pushed
    <2>3. job.source.given \in 0..job.size
      BY <2>2
    <2> QED
      BY <2>1, <2>2, <2>3
  <1> QED
    BY <1>1, <1>2, <1>3, <1>4, <1>5, <1>6 DEF TypeOK

-----------------------------------------------------------------------------
(* Rewriting                                                               *)

\* What is before the first Chart.yaml has none, so there is one first.
LEMMA FirstChartYAML ==
    ASSUME NEW archive \in Archives, NEW i \in ChartYAMLs(archive), NEW k \in ChartYAMLs(archive)
    PROVE  i = k
  <1>1. i \in Nat /\ k \in Nat /\ i >= 1 /\ k >= 1
    BY ArchivesAssumption DEF ChartYAMLs
  <1>2. ~(i < k) /\ ~(k < i)
    BY <1>1 DEF ChartYAMLs
  <1> QED
    BY <1>1, <1>2

\* The rewritten dependencies of a Chart.yaml
RewrittenDeps(deps) == [d \in DOMAIN deps |-> RewrittenURL(deps[d], Proxy)]

\* A repository behind the proxy is not the one the chart named.
LEMMA RewrittenURLs ==
    ASSUME NEW u \in URLs
    PROVE  IF ToRewrite(u)
           THEN /\ RewrittenURL(u, Proxy) # u
                /\ RewrittenURL(u, Proxy).scheme = "oci"
                /\ Head(RewrittenURL(u, Proxy).at) = Proxy
                /\ Tail(RewrittenURL(u, Proxy).at) = u.at
           ELSE RewrittenURL(u, Proxy) = u
  <1>1. CASE ~ToRewrite(u)
    BY <1>1 DEF RewrittenURL
  <1>2. CASE ToRewrite(u)
    <2> DEFINE at == u.at
               behind == <<Proxy>> \o at
    <2>1. at \in Seq(STRING)
      BY DEF URLs
    <2>2. Head(behind) = Proxy /\ Len(behind) # Len(at)
      BY <2>1
    <2>3. Tail(behind) = at
      BY <2>1
    <2>4. RewrittenURL(u, Proxy).at = behind /\ RewrittenURL(u, Proxy).scheme = "oci"
      BY <1>2 DEF RewrittenURL, URL
    <2> QED
      BY <1>2, <2>2, <2>3, <2>4
  <1> QED
    BY <1>1, <1>2

\* Where there is work, one Chart.yaml is another one.
LEMMA RewrittenArchive ==
    ASSUME NamesDistinguish, NEW archive \in Archives, HasWork(archive), Readable(archive)
    PROVE  \E i \in DOMAIN archive :
             /\ i \in ChartYAMLs(archive)
             /\ archive[i].deps \in Seq(URLs)
             /\ \E d \in DOMAIN archive[i].deps : ToRewrite(archive[i].deps[d])
             /\ Rewritten(archive, Proxy) =
                  [j \in DOMAIN archive |->
                     IF j = i THEN [path |-> archive[i].path, deps |-> RewrittenDeps(archive[i].deps)]
                     ELSE archive[j]]
  <1>1. PICK i \in ChartYAMLs(archive) :
          archive[i].deps # Broken /\ \E d \in DOMAIN archive[i].deps : ToRewrite(archive[i].deps[d])
    BY DEF HasWork
  <1>2. i \in DOMAIN archive /\ IsChartYAML(archive[i])
    BY DEF ChartYAMLs
  <1>3. archive[i].deps \in Seq(URLs)
    <2> DEFINE Entries == [path: STRING, deps: {Broken} \cup Seq(URLs)]
    <2>1. archive \in Seq(Entries)
      BY ArchivesAssumption
    <2>2. archive[i] \in Entries
      <3> HIDE DEF Entries
      <3> QED
        BY <1>2, <2>1
    <2> QED
      BY <1>1, <2>2
  <1>4. (CHOOSE k \in ChartYAMLs(archive) : TRUE) = i
    BY FirstChartYAML
  <1>5. \A j \in DOMAIN archive : SamePath(archive[j], archive[i]) <=> j = i
    BY <1>2 DEF SamePath, NamesDistinguish
  <1>6. Rewritten(archive, Proxy) = Replaced(archive, archive[i], Proxy)
    BY <1>4 DEF Rewritten
  <1>7. Replaced(archive, archive[i], Proxy) =
          [j \in DOMAIN archive |->
             IF j = i THEN [path |-> archive[i].path, deps |-> RewrittenDeps(archive[i].deps)]
             ELSE archive[j]]
    BY <1>5 DEF Replaced, RewrittenDeps
  <1> QED
    BY <1>1, <1>2, <1>3, <1>6, <1>7

\* What a job has of its archive when it is rewritten, if the layer is not the
\* archive: one Chart.yaml is another one.
LEMMA LayerOfJob ==
    ASSUME NamesDistinguish, StagesInv, job.stage = "rewritten"
    PROVE  \/ /\ job.variant = "default" \/ ~Readable(job.archive) \/ ~HasWork(job.archive)
              /\ job.layer = job.archive
              /\ Changed = {}
           \/ /\ job.variant # "default" /\ Readable(job.archive) /\ HasWork(job.archive)
              /\ DOMAIN job.layer = DOMAIN job.archive
              /\ \E i \in ChartYAMLs(job.archive) :
                   /\ Changed = {i}
                   /\ job.archive[i].deps \in Seq(URLs)
                   /\ job.layer[i].deps = RewrittenDeps(job.archive[i].deps)
  <1>1. job.archive \in Archives /\ job.layer = LayerOf(job.archive, job.variant)
    BY ImagesOfLayer
  <1>2. CASE job.variant = "default" \/ ~Readable(job.archive) \/ ~HasWork(job.archive)
    <2>1. job.layer = job.archive
      BY <1>1, <1>2 DEF LayerOf, Rewritten
    <2> QED
      BY <1>2, <2>1 DEF Changed
  <1>3. CASE job.variant # "default" /\ Readable(job.archive) /\ HasWork(job.archive)
    <2>1. PICK archive \in Archives : archive = job.archive
      BY <1>1
    <2>2. HasWork(archive) /\ Readable(archive)
      BY <1>3, <2>1
    <2>3. PICK i \in DOMAIN archive :
            /\ i \in ChartYAMLs(archive)
            /\ archive[i].deps \in Seq(URLs)
            /\ \E d \in DOMAIN archive[i].deps : ToRewrite(archive[i].deps[d])
            /\ Rewritten(archive, Proxy) =
                 [j \in DOMAIN archive |->
                    IF j = i THEN [path |-> archive[i].path, deps |-> RewrittenDeps(archive[i].deps)]
                    ELSE archive[j]]
      BY <2>2, RewrittenArchive
    <2> DEFINE deps == archive[i].deps
    <2>4. PICK layer : layer = Rewritten(archive, Proxy)
      OBVIOUS
    <2>5. job.layer = layer
      BY <1>1, <1>3, <2>1, <2>4 DEF LayerOf
    <2>6. /\ DOMAIN layer = DOMAIN archive
          /\ layer[i].deps = RewrittenDeps(deps)
          /\ \A j \in DOMAIN archive \ {i} : layer[j] = archive[j]
      BY <2>3, <2>4
    <2>7. PICK d \in DOMAIN deps : ToRewrite(deps[d])
      BY <2>3
    <2>8. deps[d] \in URLs
      BY <2>3
    <2>9. RewrittenURL(deps[d], Proxy) # deps[d]
      BY <2>7, <2>8, RewrittenURLs
    <2>10. RewrittenDeps(deps) # deps
      BY <2>7, <2>9 DEF RewrittenDeps
    <2>11. layer[i] # archive[i]
      BY <2>6, <2>10
    <2>12. Changed = {i}
      BY <2>1, <2>5, <2>6, <2>11 DEF Changed
    <2> QED
      BY <1>3, <2>1, <2>3, <2>5, <2>6, <2>12
  <1> QED
    BY <1>2, <1>3

\* The archives stay what they are.
ArchiveInv == NamesDistinguish /\ StagesInv

LEMMA ArchiveInvHolds == NamesDistinguish /\ Spec => []ArchiveInv
  <1>1. NamesDistinguish /\ Init => ArchiveInv
    BY StagesInit DEF ArchiveInv
  <1>2. ArchiveInv /\ [Next]_vars => ArchiveInv'
    BY StagesStep DEF ArchiveInv, NamesDistinguish
  <1> QED
    BY <1>1, <1>2, PTL DEF Spec

\* The chart's own Chart.yaml, if it is the first, is the one that is taken.
LEMMA OwnIsTaken ==
    ASSUME NEW archive \in Archives, Readable(archive), NEW i \in OwnFirst(archive)
    PROVE  /\ ChartYAMLs(archive) = {i}
           /\ OwnFirst(archive) = {i}
           /\ HasWork(archive) <=> Rewritable(archive[i].deps)
  <1>1. DOMAIN archive \subseteq Nat \ {0} /\ \A j \in DOMAIN archive : 1..(j - 1) \subseteq DOMAIN archive
    <2>1. DOMAIN archive = 1..Len(archive) /\ Len(archive) \in Nat
      BY ArchivesAssumption
    <2> QED
      BY <2>1
  <1>2. i \in DOMAIN archive /\ IsChartYAML(archive[i]) /\ \A j \in 1..(i - 1) : ~IsChartYAML(archive[j])
    BY DEF OwnFirst, IsChartYAML
  <1>3. i \in ChartYAMLs(archive)
    BY <1>1, <1>2 DEF ChartYAMLs, Readable
  <1>4. ASSUME NEW k \in ChartYAMLs(archive) PROVE k = i
    BY <1>3, <1>4, FirstChartYAML
  <1>5. ASSUME NEW k \in OwnFirst(archive) PROVE k = i
    <2>1. k \in ChartYAMLs(archive)
      BY <1>1, <1>5 DEF OwnFirst, IsChartYAML, ChartYAMLs, Readable
    <2> QED
      BY <1>4, <2>1
  <1> QED
    BY <1>3, <1>4, <1>5 DEF HasWork, Rewritable

\* If an archive has one Chart.yaml of each name, a variant of it differs from
\* it in one of these only, the first: in the chart's own, if it comes before
\* those of the subcharts and has dependencies to rewrite.  It differs in all
\* the dependencies that are to be rewritten and in these only, or not at all
\* (rewrite.go rewriteChartDependencies).
THEOREM RewritingIsThorough == NamesDistinguish /\ Spec => []RewrittenThroughout
  <1>1. ASSUME ArchiveInv PROVE RewrittenThroughout
    <2> SUFFICES ASSUME job.stage = "rewritten" PROVE RewrittenThroughout
      BY DEF RewrittenThroughout
    <2> DEFINE own == OwnFirst(job.archive)
               asOwn == \A i \in own : job.variant # "default" /\ Readable(job.archive) =>
                          Changed = IF Rewritable(job.archive[i].deps) THEN own ELSE {}
    <2>3. PICK archive \in Archives : archive = job.archive
      BY <1>1, ImagesOfLayer DEF ArchiveInv
    <2>1. CASE /\ job.variant = "default" \/ ~Readable(job.archive) \/ ~HasWork(job.archive)
               /\ job.layer = job.archive
               /\ Changed = {}
      <3>1. asOwn
        BY <2>1, <2>3, OwnIsTaken
      <3> QED
        BY <2>1, <3>1 DEF RewrittenThroughout
    <2>2. CASE /\ job.variant # "default" /\ Readable(job.archive) /\ HasWork(job.archive)
               /\ DOMAIN job.layer = DOMAIN job.archive
               /\ \E i \in ChartYAMLs(job.archive) :
                    /\ Changed = {i}
                    /\ job.archive[i].deps \in Seq(URLs)
                    /\ job.layer[i].deps = RewrittenDeps(job.archive[i].deps)
      <3>1. PICK i \in ChartYAMLs(job.archive) :
              /\ Changed = {i}
              /\ job.archive[i].deps \in Seq(URLs)
              /\ job.layer[i].deps = RewrittenDeps(job.archive[i].deps)
        BY <2>2
      <3> DEFINE old == job.archive[i].deps
                 new == job.layer[i].deps
      <3>2. asOwn
        <4> SUFFICES ASSUME NEW k \in OwnFirst(archive)
                     PROVE  Changed = IF Rewritable(archive[k].deps) THEN OwnFirst(archive) ELSE {}
          BY <2>3
        <4>1. /\ ChartYAMLs(archive) = {k} /\ OwnFirst(archive) = {k}
              /\ HasWork(archive) <=> Rewritable(archive[k].deps)
          BY <2>2, <2>3, OwnIsTaken
        <4>2. Rewritable(archive[k].deps) /\ Changed = {k}
          BY <2>2, <2>3, <3>1, <4>1
        <4> QED
          BY <4>1, <4>2
      <3>3. ASSUME NEW d \in DOMAIN old
            PROVE  IF ToRewrite(old[d]) THEN ThroughProxy(new[d]) ELSE new[d] = old[d]
        <4>1. old[d] \in URLs /\ new[d] = RewrittenURL(old[d], Proxy)
          BY <3>1, <3>3 DEF RewrittenDeps
        <4> QED
          BY <4>1, RewrittenURLs DEF ThroughProxy
      <3>4. \A j \in 1..(i - 1) : ~IsChartYAML(job.archive[j])
        BY <3>1 DEF ChartYAMLs
      <3> QED
        BY <2>2, <3>1, <3>2, <3>3, <3>4 DEF RewrittenThroughout
    <2> QED
      BY <1>1, <2>1, <2>2, LayerOfJob DEF ArchiveInv
  <1> QED
    BY <1>1, ArchiveInvHolds, PTL

\* If an archive has one Chart.yaml of each name, a client that follows a
\* rewritten dependency asks for the index of the repository the chart named,
\* whatever its elements are, unless "v2" is one of them (rewrite.go
\* rewriteDependencyURL, manifest.go Handle).
THEOREM RewrittenDependenciesResolve == NamesDistinguish /\ Spec => []DependenciesResolve
  <1>1. ASSUME ArchiveInv PROVE DependenciesResolve
    <2> SUFFICES ASSUME job.stage = "rewritten",
                        NEW i \in Changed, NEW d \in DOMAIN job.archive[i].deps
                 PROVE  LET old == job.archive[i].deps[d]
                            path == ClientPath("manifests", Tail(job.layer[i].deps[d].at),
                                               "dependency")
                        IN old.scheme \in {"http", "https"} /\ "v2" \notin ToSet(old.at) =>
                             Route(path) = "manifests" /\ Parsed(path) = Asked(old.at, "dependency")
      BY DEF DependenciesResolve
    <2>1. /\ job.archive[i].deps \in Seq(URLs)
          /\ job.layer[i].deps = RewrittenDeps(job.archive[i].deps)
      BY <1>1, LayerOfJob DEF ArchiveInv
    <2>2. PICK old \in URLs : old = job.archive[i].deps[d]
      BY <2>1
    <2>3. job.layer[i].deps[d] = RewrittenURL(old, Proxy)
      BY <2>1, <2>2 DEF RewrittenDeps
    <2> SUFFICES ASSUME old.scheme \in {"http", "https"}, "v2" \notin ToSet(old.at)
                 PROVE  LET path == ClientPath("manifests", old.at, "dependency")
                        IN Route(path) = "manifests" /\ Parsed(path) = Asked(old.at, "dependency")
      <3>1. ToRewrite(old) => Tail(RewrittenURL(old, Proxy).at) = old.at
        BY RewrittenURLs
      <3>2. old.scheme \in {"http", "https"} => ToRewrite(old)
        BY DEF ToRewrite, Local, Supported
      <3> QED
        BY <2>2, <2>3, <3>1, <3>2
    <2>4. old.at \in Seq(STRING)
      BY DEF URLs
    <2>5. "manifests" \in Kinds /\ "v2" \notin ToSet(old.at) \cup {"dependency"}
      BY DEF Kinds
    <2> QED
      BY <2>4, <2>5, RoutesAsMeant, ParsedAsMeant
  <1> QED
    BY <1>1, ArchiveInvHolds, PTL
================================================================================
