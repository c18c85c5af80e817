---------------------------- MODULE MCChartPipeline ----------------------------
(***************************************************************************)
(* An instance of ChartPipeline for TLC: repositories whose names are the  *)
(* words the routing looks for, and archives of up to three entries.       *)
(***************************************************************************)
EXTENDS ChartPipeline

RoutingWords == {"v2", "blobs", "manifests", "tags", "uploads", "_catalog", "host"}

Helm == URL("https", <<"host", "charts">>)
Old == URL("http", <<"host">>)
Versioned == URL("https", <<"host", "v2", "charts">>)
Registry == URL("oci", <<"host", "charts">>)
Alias == URL("alias", <<"stable">>)
Bucket == URL("s3", <<"host">>)
Missing == URL("", <<>>)

\* The dependencies of the chart
OwnYAMLs ==
    {<<>>, <<Alias>>, <<Bucket, Missing>>} \cup
    {<<Helm>>, <<Old, Alias>>, <<Missing, Helm>>, <<Versioned>>, <<Registry, Bucket>>}

YAML(path, deps) == [path |-> path, deps |-> deps]
Other == {YAML("sub1", <<Helm>>), YAML("sub1", Broken), YAML("sub2", <<Old>>),
          YAML("file", <<>>), YAML("damaged", <<>>)}
Own == {YAML("own", deps) : deps \in OwnYAMLs} \cup {YAML("own", Broken)}

\* Up to two entries around the chart's own Chart.yaml, or without it
OneOfThree ==
    LET Around == {s \in BoundedSeq(Other, 2) : Len(s) = 2 => s[1].path # s[2].path}
    IN Around \cup UNION {{InsertAt(s, n, e) : n \in 1..(Len(s) + 1), e \in Own} : s \in Around}

NoneOrTwo == {0, 2}

ASSUME NamesAssumption == NamesDistinguish
=============================================================================
