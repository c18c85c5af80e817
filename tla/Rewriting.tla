------------------------------ MODULE Rewriting ------------------------------
(***************************************************************************)
(* Rewriting the dependencies of a chart (internal/manifest/rewrite.go)    *)
(* and reading its metadata (extractChartMeta of charts.go).               *)
(*                                                                         *)
(* A URL is its scheme and the host and path elements behind it.  An       *)
(* archive is the sequence of its tar entries; an entry has a path and, if *)
(* it is a Chart.yaml, the repositories of its dependencies, or Broken if  *)
(* it cannot be parsed.  The entry "damaged" is where reading the archive  *)
(* fails.  What YAML, tar and gzip do beyond that is left out.             *)
(***************************************************************************)
EXTENDS Naturals, Sequences, SequencesExt

CONSTANT Broken  \* a Chart.yaml that does not parse

URL(scheme, at) == [scheme |-> scheme, at |-> at]

\* shouldRewriteURL: not for a missing dependency or URL, a Helm alias, a file
Local == {"", "alias", "file"}

\* rewriteDependencyURL knows these, and reports an error for the others
Supported == {"https", "http", "oci"}

ToRewrite(u) == u.scheme \notin Local /\ u.scheme \in Supported

\* Mutant: the host of the dependency is lost
RewrittenURL_NoHost(u, proxy) == IF ToRewrite(u) THEN URL("oci", <<proxy>> \o Tail(u.at)) ELSE u

\* oci://<proxy>/<host>/<path>
RewrittenURL(u, proxy) == IF ToRewrite(u) THEN URL("oci", <<proxy>> \o u.at) ELSE u

\* Mutant: a file whose name ends in Chart.yaml is replaced like the first
SamePath_Suffix(e, first) == e.path \in {"own", "sub1", "sub2"}

\* Entries are replaced by name
SamePath(e, first) == e.path = first.path

\* The entries whose name ends in /Chart.yaml: the chart's and its subcharts'
IsChartYAML(e) == e.path \in {"own", "sub1", "sub2"}
IsDamaged(e) == e.path = "damaged"

\* The first of these, if nothing before it fails
ChartYAMLs(archive) ==
    {i \in DOMAIN archive :
        /\ IsChartYAML(archive[i])
        /\ \A j \in 1..(i - 1) : ~IsChartYAML(archive[j]) /\ ~IsDamaged(archive[j])}

\* The archive with the dependencies of e rewritten, wherever it has its name
Replaced(archive, first, proxy) ==
    [i \in DOMAIN archive |->
        IF SamePath(archive[i], first)
        THEN [path |-> archive[i].path,
              deps |-> [d \in DOMAIN first.deps |-> RewrittenURL(first.deps[d], proxy)]]
        ELSE archive[i]]

Readable(archive) == \A i \in DOMAIN archive : ~IsDamaged(archive[i])

\* Chart.yaml is found, parses, and names a dependency that is to be rewritten
HasWork(archive) ==
    \E i \in ChartYAMLs(archive) :
        archive[i].deps # Broken /\ \E d \in DOMAIN archive[i].deps : ToRewrite(archive[i].deps[d])

\* rewriteChartDependencies as prepareChart uses it: with nothing to rewrite,
\* or after an error at any point, the archive is what it was.
Rewritten(archive, proxy) ==
    IF HasWork(archive) /\ Readable(archive)
    THEN Replaced(archive, archive[CHOOSE i \in ChartYAMLs(archive) : TRUE], proxy)
    ELSE archive

-----------------------------------------------------------------------------
\* What loader.LoadArchive reads of an archive: the dependencies in the chart's
\* own Chart.yaml, provided that it and the subcharts can be read.
Loads(archive) ==
    /\ Readable(archive)
    /\ \E i \in DOMAIN archive : archive[i].path = "own"
    /\ \A i \in DOMAIN archive : IsChartYAML(archive[i]) => archive[i].deps # Broken

OwnDeps(archive) == (CHOOSE e \in ToSet(archive) : e.path = "own").deps
=============================================================================
