------------------------------- MODULE TagList -------------------------------
(***************************************************************************)
(* HandleTags of internal/manifest/manifest.go for one chart, and a client *)
(* that pages through its tags with the parameters n and last while the    *)
(* index is republished, cannot be fetched, or is back again.              *)
(*                                                                         *)
(* The handler keeps no cursor: each request lists what it finds, sorted,  *)
(* after `last`.  What it finds is the index, or the stored manifests of   *)
(* the chart when there is none.  When nothing is stored either, it        *)
(* prepares a version, and the client gets an error instead of a page.     *)
(* Tags are numbers, in the order of their strings; 0 stands for no        *)
(* `last`.  Two versions of an index may have one tag, because the leading *)
(* "v" of a version is cut off.                                            *)
(***************************************************************************)
EXTENDS Integers, Sequences, SequencesExt, FiniteSetsExt

CONSTANTS
    Versions,  \* chart versions an index may list
    TagOf,     \* TagOf[v]: the version without its leading "v"
    Limits,    \* values of n, or NoLimit
    NoLimit    \* the parameter n is missing

VARIABLES
    index,     \* the versions of the chart in the index
    reachable, \* GetIndex returns an index, whole or in part
    stored,    \* names of the chart's manifests that are no digests
    client     \* the client that pages

vars == <<index, reachable, stored, client>>

Tags == {TagOf[v] : v \in Versions}

\* `listed` and `kept` are history: the tags of the earlier pages, and the
\* tags that were there for every page so far.
Client == [stage: {"idle", "ask", "prepare", "list", "done"},
           limit: Limits, last: Tags \cup {0}, page: Seq(Tags),
           listed: SUBSET Tags, kept: SUBSET Tags]

ASSUME VersionsAssumption == IsFiniteSet(Versions)
ASSUME TagOfAssumption == TagOf \in [Versions -> Nat \ {0}]
ASSUME LimitsAssumption == Limits \subseteq (Nat \ {0}) \cup {NoLimit} /\ NoLimit \notin Nat

-----------------------------------------------------------------------------
(* One response                                                            *)

Ascending(tags) == \A i, j \in DOMAIN tags : i < j => tags[i] <= tags[j]

\* What sort.Strings makes of the names of the members of S
Sorted(S, nameOf) ==
    LET n == Cardinality(S)
    IN {tags \in {[i \in 1..n |-> nameOf[order[i]]] : order \in Bijection(1..n, S)} :
          Ascending(tags)}

IndexTags(vs) == Sorted(vs, TagOf)
StoredTags(ts) == Sorted(ts, [t \in ts |-> t])

\* Mutant: the offset stops at `last` itself
After_Last(tags, last) ==
    SubSeq(tags, Min({i \in 1..(Len(tags) + 1) : i > Len(tags) \/ tags[i] >= last}), Len(tags))

\* SearchStrings and the loop behind it: past the last tag that is not
\* greater than `last`.
After(tags, last) ==
    SubSeq(tags, Min({i \in 1..(Len(tags) + 1) : i > Len(tags) \/ tags[i] > last}), Len(tags))

\* Mutant: the limit cuts off the front
Cut_Front(tags, limit) ==
    IF limit # NoLimit /\ limit < Len(tags)
    THEN SubSeq(tags, Len(tags) - limit + 1, Len(tags)) ELSE tags

Cut(tags, limit) ==
    IF limit # NoLimit /\ limit < Len(tags) THEN SubSeq(tags, 1, limit) ELSE tags

\* The client takes the page, and asks for the next one unless it was short
Respond(tags) ==
    LET page == Cut(After(tags, client.last), client.limit)
        short == client.limit = NoLimit \/ Len(page) < client.limit
    IN client' = [client EXCEPT
                    !.stage = IF short THEN "done" ELSE "ask",
                    !.last = IF page = <<>> THEN @ ELSE Last(page),
                    !.page = page,
                    !.listed = @ \cup ToSet(client.page),
                    !.kept = @ \cap ToSet(tags)]

-----------------------------------------------------------------------------
Init ==
    /\ index \in SUBSET Versions
    /\ reachable \in BOOLEAN
    /\ stored = {}
    /\ \E limit \in Limits :
         client = [stage |-> "idle", limit |-> limit, last |-> 0, page |-> <<>>,
                   listed |-> {}, kept |-> Tags]

\* The client begins
Begin ==
    /\ client.stage = "idle"
    /\ client' = [client EXCEPT !.stage = "ask"]
    /\ UNCHANGED <<index, reachable, stored>>

\* GetIndex has an index
ListIndex ==
    /\ client.stage = "ask"
    /\ reachable
    /\ \E tags \in IndexTags(index) : Respond(tags)
    /\ UNCHANGED <<index, reachable, stored>>

\* GetIndex has none
AskStore ==
    /\ client.stage = "ask"
    /\ ~reachable
    /\ client' = [client EXCEPT !.stage = "prepare"]
    /\ UNCHANGED <<index, reachable, stored>>

\* prepareManifest returns nil without preparing anything for this request: a
\* manifest of the chart is stored, be it under a digest only, or the flight of
\* this key was begun by a pull of the tag "latest" and succeeded.
FindVariant ==
    /\ client.stage = "prepare"
    /\ client' = [client EXCEPT !.stage = "list"]
    /\ UNCHANGED <<index, reachable, stored>>

\* Mutant: the version is stored with its "v"
Prepare_Untrimmed ==
    /\ client.stage = "prepare"
    /\ reachable
    /\ \E v \in index : stored' = stored \cup {v}
    /\ client' = [client EXCEPT !.stage = "idle"]
    /\ UNCHANGED <<index, reachable>>

\* Nothing was stored, and the preparation of no version succeeds: the index is
\* back.  Its nil pointer is an error to HandleTags, which returns it, and the
\* router reads it: the client gets no page but a broken connection
\* (PreparedIsReturned of ManifestRequests), and asks again or gives up.  Others
\* may have stored versions meanwhile.
Prepare ==
    /\ client.stage = "prepare"
    /\ reachable
    /\ \E v \in index : stored' = stored \cup {TagOf[v]}
    /\ client' = [client EXCEPT !.stage = "idle"]
    /\ UNCHANGED <<index, reachable>>

\* prepareManifest fails, or this request joined a flight that ends like
\* Prepare or fails: the client gets an error, and asks again or gives up.
PrepareFails ==
    /\ client.stage = "prepare"
    /\ client' = [client EXCEPT !.stage = "idle"]
    /\ UNCHANGED <<index, reachable, stored>>

\* getVariant
ListStored ==
    /\ client.stage = "list"
    /\ \E tags \in StoredTags(stored) : Respond(tags)
    /\ UNCHANGED <<index, reachable, stored>>

\* Upstream publishes another index, cannot be reached, or is back
Publish ==
    /\ \/ index' \in SUBSET Versions \ {index} /\ UNCHANGED reachable
       \/ reachable' = ~reachable /\ UNCHANGED index
    /\ UNCHANGED <<stored, client>>

\* Other clients and the cleanup: one version is stored, or expires
Restock ==
    /\ \E t \in Tags : stored' \in {stored \cup {t}, stored \ {t}}
    /\ UNCHANGED <<index, reachable, client>>

Handler == ListIndex \/ AskStore \/ FindVariant \/ Prepare \/ PrepareFails \/ ListStored

Next == Begin \/ Handler \/ Publish \/ Restock

Spec == Init /\ [][Next]_vars

\* A request is answered; nobody has to come back after an error.
FairSpec == Spec /\ WF_vars(Handler)

-----------------------------------------------------------------------------
(* Properties                                                              *)

TypeOK ==
    /\ index \in SUBSET Versions
    /\ reachable \in BOOLEAN
    /\ stored \in SUBSET Tags
    /\ client \in Client

\* A tag that was there for every page is in one of them when the client is
\* through, whatever was published, stored, expired or unreachable meanwhile
\* (HandleTags: a page is the tags after the last one the client has).
NothingSkipped ==
    client.stage = "done" => client.kept \subseteq client.listed \cup ToSet(client.page)

\* No tag is in two pages, even when the pages come from the index and from
\* the store in turn.
NothingRepeated == ToSet(client.page) \cap client.listed = {}

\* A client that is told to go on asks for later tags than before: the measure
\* by which paging ends (HandleTags offsets by the last tag of the page).
PagesAdvance ==
    [][client.stage \in {"ask", "list"} /\ client'.stage = "ask" /\ client' # client
         => client.last < client'.last]_vars

\* Paging comes to an end although the listing changes under it: each page
\* begins after the one before.
PagingEnds == client.stage \notin {"idle", "done"} ~> client.stage \in {"idle", "done"}
=============================================================================
