---------------------------- MODULE ChartPipeline ----------------------------
(***************************************************************************)
(* What becomes of one request, from its path to the layer that is stored: *)
(* the path is routed and split, the variant is chosen, the archive is     *)
(* downloaded within its limit, its dependencies are rewritten, the image  *)
(* is packed from what came out, and its layer is verified while it is     *)
(* copied into the store (internal/manifest/manifest.go and charts.go,     *)
(* pkg/verify/verify.go).  Each stage keeps what the next one reads.       *)
(*                                                                         *)
(* ManifestRequests has the requests that share a preparation, IndexCache  *)
(* the index, ManifestStore the store; here they are left out.             *)
(***************************************************************************)
EXTENDS Routing, Rewriting, Reading

CONSTANTS
    Elements,     \* path elements a repository may be made of
    Archives,     \* what upstream may publish
    Limits,       \* Config.MaxChartBytes; 0 for none
    MaxSize,      \* bound: bytes of a body
    Proxy,        \* a valid PROXY_HOST
    EmptyConfig   \* the configuration "{}"

ASSUME SizesAssumption == MaxSize \in Nat /\ Limits \subseteq Nat

URLs == [scheme: STRING, at: Seq(STRING)]

ASSUME ArchivesAssumption ==
    \A archive \in Archives : archive \in Seq([path: STRING, deps: {Broken} \cup Seq(URLs)])

\* Two entries of an archive may have one name as far as tar is concerned, but
\* `helm package` writes each Chart.yaml once.
NamesDistinguish ==
    \A archive \in Archives : \A i, j \in DOMAIN archive :
        IsChartYAML(archive[i]) /\ archive[j].path = archive[i].path => i = j

VARIABLES
    config,  \* the environment the server was started with
    job      \* the request and what it carries, by its stage

vars == <<config, job>>

Idle == [stage |-> "idle"]

\* newCmdServe refuses to rewrite without a host; "bad" is one with a path
Configs == {c \in [rewrite: BOOLEAN, host: {"", "bad", "good"}, max: Limits] :
              ~(c.rewrite /\ c.host = "")}

Init == config \in Configs /\ job = Idle

-----------------------------------------------------------------------------
(* The path and the query                                                  *)

Kinds == {"manifests", "blobs", "tags", "catalog", "ping"}
Indexes == BoundedSeq(Elements, 2) \ {<<>>}

Receive(kind, index, chart) ==
    /\ job = Idle
    /\ LET path == ClientPath(kind, index, chart)
       IN job' = [stage |-> "routed", kind |-> kind, index |-> index, chart |-> chart,
                  handler |-> Route(path), asked |-> Parsed(path)]
    /\ UNCHANGED config

\* rewrite_dependencies of the query overrides the configuration
Enabled(query) == IF query = "" THEN config.rewrite ELSE query = "true"

\* variantKey of getRewriteOptions: the host is part of it
Variant(query) == IF Enabled(query) THEN Proxy ELSE "default"

\* Mutant: the host of the configuration is taken as it is
Refused_Never(query) == FALSE

\* validateProxyHost; without rewriting nobody looks at the host
Refused(query) == Enabled(query) /\ config.host # "good"

\* Handle goes on to prepareChart, which needs a repository with two parts
Prepare(query) ==
    /\ job.stage = "routed"
    /\ job.handler = "manifests"
    /\ job' = IF Refused(query) \/ job.asked.index = <<>> THEN Idle
              ELSE [stage |-> "preparing", variant |-> Variant(query)]
    /\ UNCHANGED config

-----------------------------------------------------------------------------
(* The download                                                            *)

\* Mutant: a body longer than the limit looks like one that fills it
BodyLimit_Exact(max) == IF max > 0 THEN max ELSE Unlimited

\* One byte more than is allowed
BodyLimit(max) == IF max > 0 THEN max + 1 ELSE Unlimited

Fits(size) == config.max = 0 \/ size <= config.max

Respond(size) ==
    /\ job.stage = "preparing"
    /\ job' = [stage |-> "downloading", variant |-> job.variant, size |-> size,
               body |-> Reader(size, BodyLimit(config.max))]
    /\ UNCHANGED config

ReadBody ==
    /\ job.stage = "downloading"
    /\ \E a \in Answers(job.body) :
         LET body == After(job.body, a) IN
         job' = IF ~a.eof THEN [job EXCEPT !.body = body]
                ELSE [job EXCEPT !.body = body,
                                 !.stage = IF Fits(body.given) THEN "downloaded" ELSE "too long"]
    /\ UNCHANGED config

\* The connection breaks, or the context of the download is over
BreakBody ==
    /\ job.stage = "downloading"
    /\ job' = Idle
    /\ UNCHANGED config

-----------------------------------------------------------------------------
(* The image                                                               *)

\* The archive the body turns out to be; `custom` are the annotations its
\* metadata sets, and `dated` says that the index knows when it was created.
Rewrite(archive, custom, dated) ==
    /\ job.stage = "downloaded"
    /\ job' = [stage |-> "rewritten", variant |-> job.variant, archive |-> archive,
               custom |-> custom, dated |-> dated, images |-> <<>>,
               layer |-> IF job.variant = "default" THEN archive ELSE Rewritten(archive, Proxy)]
    /\ UNCHANGED config

\* getDeterministicCreatedTimestamp
Created(dated) == IF dated THEN "index" ELSE "name and version"

\* Mutant: without metadata there are no annotations
Annotations_NoMeta(loads, custom, created) ==
    [k \in IF loads THEN custom \cup {"title", "version", "created"} ELSE {} |->
        IF k \in {"title", "version"} THEN "chart" ELSE IF k \in custom THEN "custom" ELSE created]

\* generateOCIAnnotations: by whom each is set
Annotations(loads, custom, created) ==
    IF ~loads THEN [k \in {"created"} |-> created]
    ELSE [k \in custom \cup {"title", "version", "created"} |->
            IF k \in {"title", "version"} THEN "chart" ELSE IF k \in custom THEN "custom" ELSE created]

\* oras.Pack dates an image that is not
Dated(annotations, now) ==
    IF "created" \in DOMAIN annotations THEN annotations
    ELSE [k \in DOMAIN annotations \cup {"created"} |-> IF k = "created" THEN now ELSE annotations[k]]

\* Mutant: the metadata is that of the upstream archive
Described_Before(j) == j.archive

\* extractChartMeta reads the archive as it is by then
Described(j) == j.layer

Config(archive) == IF Loads(archive) THEN OwnDeps(archive) ELSE EmptyConfig

Image(j, now) ==
    [layer |-> j.layer, config |-> Config(Described(j)),
     annotations |-> Dated(Annotations(Loads(Described(j)), j.custom, Created(j.dated)), now)]

\* The chart is prepared, and prepared again after the cleanup took it
Times == <<"once", "later">>
Pack ==
    /\ job.stage = "rewritten"
    /\ Len(job.images) < Len(Times)
    /\ job' = [job EXCEPT !.images = Append(@, Image(job, Times[Len(@) + 1]))]
    /\ UNCHANGED config

-----------------------------------------------------------------------------
(* The copy of one of its parts                                            *)

\* oras.Copy takes the parts of the image one by one
Copy ==
    /\ job.stage = "rewritten"
    /\ Len(job.images) = Len(Times)
    /\ job' = [stage |-> "copying"]
    /\ UNCHANGED config

\* The promised content has `want` bytes, the descriptor says `declared`; of
\* the `size` bytes that come, the first `same` are those promised.
Push(want, declared, size, same) ==
    /\ job.stage = "copying"
    /\ same <= size /\ same <= want
    /\ job' = [stage |-> "pushing", want |-> want, declared |-> declared, size |-> size,
               same |-> same, source |-> Reader(size, declared), gotSize |-> 0]
    /\ UNCHANGED config

\* Mutant: the size of the last read is compared
Counted_Last(gotSize, n) == n

Counted(gotSize, n) == gotSize + n

SizeMatches(j) == j.declared = Unlimited \/ j.gotSize = j.declared

\* The hash of all that was read
HashMatches(j) == j.source.given = j.want /\ j.same = j.want

\* verifyReader.Read, called by io.ReadAll in Put and Push
ReadVerified ==
    /\ job.stage = "pushing"
    /\ \E a \in Answers(job.source) :
         LET j == [job EXCEPT !.source = After(@, a), !.gotSize = Counted(@, a.n)] IN
         job' = IF ~a.eof THEN j
                ELSE [j EXCEPT !.stage = IF SizeMatches(j) /\ HashMatches(j)
                                         THEN "stored" ELSE "rejected"]
    /\ UNCHANGED config

-----------------------------------------------------------------------------
\* The handler returns, with an error or an answer: it is another one's path,
\* upstream does not answer, the body is too long, packing or copying fails, or
\* it is done
Return ==
    /\ job.stage \in {"routed", "preparing", "too long", "rewritten", "copying",
                     "stored", "rejected"}
    /\ job' = Idle
    /\ UNCHANGED config

Sizes == 0..MaxSize

Next ==
    \/ \E kind \in Kinds, index \in Indexes, chart \in Elements : Receive(kind, index, chart)
    \/ \E query \in {"", "true", "false"} : Prepare(query)
    \/ \E size \in Sizes : Respond(size)
    \/ ReadBody
    \/ BreakBody
    \/ \E archive \in Archives, custom \in {{}, {"title", "created"}}, dated \in BOOLEAN :
         Rewrite(archive, custom, dated)
    \/ Pack
    \/ Copy
    \/ \E want, size, same \in Sizes, declared \in Sizes \cup {Unlimited} :
         Push(want, declared, size, same)
    \/ ReadVerified
    \/ Return

Spec == Init /\ [][Next]_vars

-----------------------------------------------------------------------------
(* Properties                                                              *)

Variants == {"default"} \cup {v \in {Proxy} : config.host = "good"}

Readers == [left: Nat, given: Nat, limit: Nat \cup {Unlimited}]

\* Among the types: there is a rewriting variant only with a valid host.
TypeOK ==
    /\ config \in Configs
    /\ job.stage = "routed" => job.handler \in Kinds
    /\ job.stage \in {"preparing", "downloading", "downloaded", "too long", "rewritten"}
         => job.variant \in Variants
    /\ job.stage \in {"downloading", "downloaded", "too long"} => job.body \in Readers
    /\ job.stage = "rewritten" => Len(job.images) \in 0..Len(Times)
    /\ job.stage \in {"pushing", "stored", "rejected"}
         => job.source \in Readers /\ job.gotSize \in 0..job.size

\* A request reaches the handler its client meant, however the repository and
\* the chart are called.  That of the catalog finds the repository, the other
\* two find it and the chart if none of their elements is "v2"; if one is, what
\* they find is something else, for it cuts off what is before it (registry.go,
\* manifest.go Handle, HandleTags, HandleCatalog).
RoutedAsMeant ==
    job.stage = "routed" =>
        /\ job.handler = job.kind
        /\ job.kind = "catalog" => job.asked.index = job.index
        /\ job.kind \in {"manifests", "tags"} =>
             (job.asked = Asked(job.index, job.chart)
                <=> "v2" \notin ToSet(job.index) \cup {job.chart})

\* What is passed on is the whole body and within the limit, a body of exactly
\* the limit included, and only a longer one is refused for its length
\* (charts.go download).
DownloadsAreWhole ==
    /\ job.stage = "downloaded" => job.body.given = job.size /\ Fits(job.size)
    /\ job.stage = "too long" => ~Fits(job.size)

Changed == {i \in DOMAIN job.archive : job.layer[i] # job.archive[i]}
ThroughProxy(u) == u.scheme = "oci" /\ Head(u.at) = Proxy

\* Some repository of these dependencies is to be rewritten
Rewritable(deps) == deps # Broken /\ \E d \in DOMAIN deps : ToRewrite(deps[d])

\* The chart's own Chart.yaml if no subchart's comes before it, as `helm package`
\* writes an archive
OwnFirst(archive) ==
    {i \in DOMAIN archive :
        archive[i].path = "own" /\ \A j \in 1..(i - 1) : ~IsChartYAML(archive[j])}

\* What a variant stores: the default one the archive as upstream made it.  If
\* the chart's own Chart.yaml comes first, a rewriting one differs from the
\* archive in that file alone, and if the archive cannot be read to its end or
\* that file names nothing to rewrite or does not parse, not at all.  If a
\* subchart's comes first, that one alone may differ, and the chart's own keeps
\* its repositories, which is not what README.md:107 leads one to expect.  The
\* file that differs does so in all the dependencies that are to be rewritten
\* and in these only (rewrite.go).
RewrittenThroughout ==
    job.stage = "rewritten" =>
        LET own == OwnFirst(job.archive) IN
        /\ DOMAIN job.layer = DOMAIN job.archive
        /\ job.variant = "default" \/ ~Readable(job.archive) => Changed = {}
        /\ \A i \in own : job.variant # "default" /\ Readable(job.archive) =>
             Changed = IF Rewritable(job.archive[i].deps) THEN own ELSE {}
        /\ \A i \in Changed :
             LET old == job.archive[i].deps
                 new == job.layer[i].deps
             IN /\ \A j \in 1..(i - 1) : ~IsChartYAML(job.archive[j])
                /\ \A d \in DOMAIN old : IF ToRewrite(old[d]) THEN ThroughProxy(new[d])
                                         ELSE new[d] = old[d]

\* A client that follows a rewritten dependency asks this proxy for the index
\* of the repository the chart named: the inverse of rewriting is routing
\* (rewrite.go rewriteDependencyURL, manifest.go Handle, charts.go
\* prepareChart).  Not if "v2" is a part of its path; and an OCI registry has
\* no index.  The proxy asks for every index by https, be the repository's own
\* URL http: the scheme is no part of what is asked here.
DependenciesResolve ==
    job.stage = "rewritten" =>
        \A i \in Changed : \A d \in DOMAIN job.archive[i].deps :
            LET old == job.archive[i].deps[d]
                path == ClientPath("manifests", Tail(job.layer[i].deps[d].at), "dependency")
            IN old.scheme \in {"http", "https"} /\ "v2" \notin ToSet(old.at) =>
                 Route(path) = "manifests" /\ Parsed(path) = Asked(old.at, "dependency")

\* The configuration and the annotations of an image describe the chart in its
\* layer, as it is after rewriting, and no custom annotation can make it pass
\* for another; only if the layer does not load they say nothing (charts.go).
ImageDescribesLayer ==
    job.stage = "rewritten" =>
        \A k \in DOMAIN job.images :
            LET image == job.images[k] IN
            IF Loads(image.layer)
            THEN /\ image.config = OwnDeps(image.layer)
                 /\ image.annotations["title"] = "chart"
                 /\ image.annotations["version"] = "chart"
            ELSE image.config = EmptyConfig /\ DOMAIN image.annotations = {"created"}

\* A chart that is prepared again later gives the same image, whether or not
\* the index knows its date and the archive loads (charts.go
\* getDeterministicCreatedTimestamp).
Reproducible ==
    job.stage = "rewritten" => \A k \in DOMAIN job.images : job.images[k] = job.images[1]

\* Content is stored only if it is what was promised, and is refused only if
\* it is not, in whatever pieces it comes, whether its end is reported with
\* the last of them, and whether its size was announced (verify.go).
VerifiedIsPromised ==
    /\ job.stage = "stored" =>
         /\ job.source.given = job.want
         /\ job.same = job.want
         /\ job.declared \in {job.want, Unlimited}
    /\ job.stage = "rejected" =>
         job.same # job.want \/ job.declared \notin {job.want, Unlimited}
         \/ (job.declared = Unlimited /\ job.size # job.want)
=============================================================================
