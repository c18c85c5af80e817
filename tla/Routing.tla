------------------------------- MODULE Routing -------------------------------
(***************************************************************************)
(* Which handler a URL path goes to (internal/registry/registry.go and     *)
(* internal/helper/helper.go), and what repository the handler finds in it *)
(* (internal/manifest/manifest.go, charts.go).  A path is the sequence of  *)
(* its elements after the leading slash; a slash at its end is an empty    *)
(* last element.                                                           *)
(***************************************************************************)
EXTENDS Naturals, Sequences, SequencesExt, FiniteSetsExt

\* elem[len(elem)-n]
FromEnd(elems, n) == elems[Len(elems) - n + 1]

WithoutSlash(elems) == IF elems # <<>> /\ Last(elems) = "" THEN Front(elems) ELSE elems

IsBlob(path) ==
    LET elems == WithoutSlash(path) IN
    /\ Len(elems) >= 3
    /\ \/ FromEnd(elems, 2) = "blobs"
       \/ FromEnd(elems, 3) = "blobs" /\ FromEnd(elems, 2) = "uploads"

IsManifest(path) == Len(path) >= 4 /\ FromEnd(path, 2) = "manifests"
IsTags(path) == Len(path) >= 4 /\ FromEnd(path, 2) = "tags"
IsCatalog(path) == Len(path) >= 2 /\ Last(path) = "_catalog"
IsV2(path) == WithoutSlash(path) # <<>> /\ Last(WithoutSlash(path)) = "v2"

\* Registry.v2: the first that recognizes the path
Route(path) ==
    IF IsBlob(path) THEN "blobs"
    ELSE IF IsManifest(path) THEN "manifests"
    ELSE IF IsTags(path) THEN "tags"
    ELSE IF IsCatalog(path) THEN "catalog"
    ELSE IF IsV2(path) THEN "ping"
    ELSE "unknown"

\* The elements between `first` and the last two, from the last "v2" on
RepoBetween(path, first) ==
    LET marks == {i \in first..(Len(path) - 2) : path[i] = "v2"}
    IN SubSeq(path, Max(marks \cup {first - 1}) + 1, Len(path) - 2)

\* Mutant: the elements are collected from the end and not put in order again
RepoOf_Unsorted(path) == Reverse(RepoBetween(path, 2))

\* Handle never takes the first element; HandleTags may.
RepoOf(path) == RepoBetween(path, 2)
TagsRepoOf(path) == RepoBetween(path, 1)

\* What the handler asks upstream for: the index of a repository, and a chart
\* in it.  prepareChart needs both; a handler without a chart has none.
Asked(index, chart) == [index |-> index, chart |-> chart]
Split(repo) == IF repo = <<>> THEN Asked(<<>>, "") ELSE Asked(Front(repo), Last(repo))

Parsed(path) ==
    CASE Route(path) = "manifests" -> Split(RepoOf(path))
      [] Route(path) = "tags" -> Split(TagsRepoOf(path))
      [] Route(path) = "catalog" -> Asked(SubSeq(path, 1, Len(path) - 2), "")
      [] OTHER -> Asked(<<>>, "")

-----------------------------------------------------------------------------
(* What a client of the registry API sends                                 *)

\* `kind` is the handler it means, `index` the repository and `chart` the chart.
ClientPath(kind, index, chart) ==
    CASE kind = "manifests" -> <<"v2">> \o index \o <<chart, "manifests", "1.0.0">>
      [] kind = "blobs" -> <<"v2">> \o index \o <<chart, "blobs", "sha256:0">>
      [] kind = "tags" -> <<"v2">> \o index \o <<chart, "tags", "list">>
      [] kind = "catalog" -> index \o <<"v2", "_catalog">>
      [] kind = "ping" -> <<"v2", "">>
=============================================================================
