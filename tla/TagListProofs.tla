---------------------------- MODULE TagListProofs ----------------------------
(***************************************************************************)
(* Paging through the tags of a chart, for any versions, any tags of them  *)
(* and any limits: no tag is in two pages, and none that was there for all *)
(* of them is missing.  Both rest on PagedInv: the tags of the pages so    *)
(* far are those up to `last`, the last one of the client, as far as they  *)
(* were there all the time, and no other tags above it.                    *)
(***************************************************************************)
EXTENDS TagList, FiniteSetTheorems, SequenceTheorems, WellFoundedInduction, TLAPS

-----------------------------------------------------------------------------
(* The operators on lists of tags                                          *)

LEMMA TagsArePositive == \A t \in Tags \cup {0} : t \in Nat /\ (t \in Tags => ~(t <= 0))
  BY TagOfAssumption DEF Tags

\* A set of numbers that is not empty has a least one.
LEMMA LeastNumber ==
    ASSUME NEW S \in SUBSET Nat, S # {}
    PROVE  Min(S) \in S /\ \A y \in S : Min(S) <= y
  <1> DEFINE less == {p \in Nat \X Nat : p[1] < p[2]}
  <1>1. PICK x \in S : \A y \in S : <<y, x>> \notin less
    <2>1. IsWellFoundedOn(less, Nat)
      BY NatLessThanWellFounded DEF OpToRel
    <2> QED
      BY <2>1, WFMin
  <1>2. ASSUME NEW y \in S PROVE x <= y
    <2>1. <<y, x>> \in Nat \X Nat /\ <<y, x>>[1] = y /\ <<y, x>>[2] = x
      OBVIOUS
    <2>2. ~(y < x)
      BY <1>1, <2>1, Zenon
    <2> QED
      BY <2>2
  <1> QED
    BY <1>2 DEF Min

\* Versions and stored manifests are finitely many, so they can be counted.
LEMMA NamesAreFinite == IsFiniteSet(Tags)
  <1> DEFINE f == [v \in Versions |-> TagOf[v]]
  <1>1. f \in Surjection(Versions, Tags)
    BY DEF Surjection, Tags
  <1> QED
    BY <1>1, FS_Surjection, VersionsAssumption

\* What is sorted is a list of names, in their order.
LEMMA SortedNames ==
    ASSUME NEW S, IsFiniteSet(S), NEW nameOf, \A x \in S : nameOf[x] \in Tags,
           NEW tags \in Sorted(S, nameOf)
    PROVE  tags \in Seq(Tags) /\ Ascending(tags)
  <1> DEFINE n == Cardinality(S)
  <1>1. n \in Nat
    BY FS_CardinalityType
  <1>2. Ascending(tags) /\ \E order \in Bijection(1..n, S) : tags = [i \in 1..n |-> nameOf[order[i]]]
    BY DEF Sorted
  <1>3. PICK order \in [1..n -> S] : tags = [i \in 1..n |-> nameOf[order[i]]]
    BY <1>2 DEF Bijection, Injection
  <1>4. tags \in [1..n -> Tags]
    BY <1>3
  <1> QED
    BY <1>1, <1>2, <1>4

LEMMA ListsOfTags ==
    ASSUME NEW tags \in Seq(Tags)
    PROVE  /\ Len(tags) \in Nat /\ DOMAIN tags = 1..Len(tags)
           /\ \A i \in 1..Len(tags) : tags[i] \in Tags /\ tags[i] \in Nat
  <1>1. /\ Len(tags) \in Nat /\ DOMAIN tags = 1..Len(tags)
        /\ \A i \in 1..Len(tags) : tags[i] \in Tags
    OBVIOUS
  <1> QED
    BY <1>1, TagsArePositive

\* After gives the tags above `last`, in their order, and all of them.
LEMMA AfterTags ==
    ASSUME NEW tags \in Seq(Tags), Ascending(tags), NEW last \in Nat
    PROVE  /\ After(tags, last) \in Seq(Tags)
           /\ Ascending(After(tags, last))
           /\ \A t \in ToSet(After(tags, last)) : t > last
           /\ \A t \in ToSet(tags) : t > last => t \in ToSet(After(tags, last))
  <1> DEFINE n == Len(tags)
             S == {i \in 1..(n + 1) : i > n \/ tags[i] > last}
             m == Min(S)
             rest == After(tags, last)
  <1>1. n \in Nat /\ DOMAIN tags = 1..n /\ \A i \in 1..n : tags[i] \in Tags /\ tags[i] \in Nat
    BY ListsOfTags
  <1>2. m \in S /\ \A i \in S : m <= i
    <2>1. n + 1 \in S /\ S \in SUBSET Nat
      BY <1>1
    <2> HIDE DEF S
    <2> QED
      BY <2>1, LeastNumber
  <1>3. m \in 1..(n + 1) /\ rest = SubSeq(tags, m, n)
    BY <1>2 DEF After
  <1>4. \A i \in 1..n : i < m => ~(tags[i] > last)
    BY <1>1, <1>2, <1>3
  <1>5. \A i \in m..n : tags[i] > last
    <2>1. CASE m > n
      BY <2>1, <1>1, <1>3
    <2>2. CASE m <= n
      <3>1. tags[m] > last
        BY <1>1, <1>2, <2>2
      <3>2. ASSUME NEW i \in m..n PROVE tags[i] > last
        <4>1. i \in 1..n /\ m \in 1..n /\ (m = i \/ m < i)
          BY <1>1, <1>3, <2>2
        <4>2. tags[m] <= tags[i]
          BY <1>1, <4>1 DEF Ascending
        <4> QED
          BY <1>1, <3>1, <4>1, <4>2
      <3> QED
        BY <3>2
    <2> QED
      BY <2>1, <2>2, <1>1, <1>3
  <1> HIDE DEF S, m
  <1>6. /\ rest \in Seq(Tags)
        /\ DOMAIN rest = 1..(n - m + 1)
        /\ \A i \in 1..(n - m + 1) : rest[i] = tags[m + i - 1]
    <2>1. \A i \in m..n : tags[i] \in Tags
      BY <1>1, <1>3
    <2>2. /\ rest \in Seq(Tags)
          /\ Len(rest) = IF m <= n THEN n - m + 1 ELSE 0
          /\ \A i \in 1..(n - m + 1) : rest[i] = tags[m + i - 1]
      BY <1>1, <1>3, <2>1, SubSeqProperties
    <2>3. 1..Len(rest) = 1..(n - m + 1)
      BY <1>1, <1>3, <2>2
    <2> QED
      BY <2>2, <2>3
  <1> HIDE DEF rest, n
  <1>7. Ascending(rest)
    <2> SUFFICES ASSUME NEW i \in 1..(n - m + 1), NEW j \in 1..(n - m + 1), i < j
                 PROVE  rest[i] <= rest[j]
      BY <1>6 DEF Ascending
    <2> DEFINE a == m + i - 1
               b == m + j - 1
    <2>1. m \in Nat /\ m > 0 /\ i \in Nat /\ j \in Nat /\ i > 0 /\ j > 0
      BY <1>1, <1>3
    <2>4. i <= n - m + 1 /\ j <= n - m + 1
      BY <1>1, <2>1
    <2>2. a \in 1..n /\ b \in 1..n /\ a < b
      BY <1>1, <2>1, <2>4
    <2>3. rest[i] = tags[a] /\ rest[j] = tags[b]
      BY <1>6, <2>1
    <2> HIDE DEF a, b
    <2> QED
      BY <1>1, <2>2, <2>3 DEF Ascending
  <1>8. \A t \in ToSet(rest) : t > last
    <2> SUFFICES ASSUME NEW i \in DOMAIN rest PROVE rest[i] > last
      BY DEF ToSet
    <2> DEFINE a == m + i - 1
    <2>1. a \in m..n /\ rest[i] = tags[a]
      BY <1>1, <1>3, <1>6
    <2> HIDE DEF a
    <2> QED
      BY <1>5, <2>1
  <1>9. ASSUME NEW i \in DOMAIN tags, tags[i] > last PROVE tags[i] \in ToSet(rest)
    <2> DEFINE k == i - m + 1
    <2>1. i \in 1..n /\ ~(i < m)
      BY <1>1, <1>4, <1>9
    <2>2. k \in DOMAIN rest /\ m + k - 1 = i
      BY <1>1, <1>3, <1>6, <2>1
    <2> HIDE DEF k
    <2> QED
      BY <1>6, <2>2 DEF ToSet
  <1> QED
    BY <1>6, <1>7, <1>8, <1>9 DEF rest, ToSet

\* Cut gives a part of the tags up to its last one, without a gap; a page that
\* is shorter than the limit is all of them.
LEMMA CutTags ==
    ASSUME NEW tags \in Seq(Tags), Ascending(tags), NEW limit \in Limits
    PROVE  /\ Cut(tags, limit) \in Seq(Tags)
           /\ ToSet(Cut(tags, limit)) \subseteq ToSet(tags)
           /\ limit = NoLimit \/ Len(Cut(tags, limit)) < limit => Cut(tags, limit) = tags
           /\ Cut(tags, limit) # <<>> =>
                /\ Last(Cut(tags, limit)) \in ToSet(tags)
                /\ \A t \in ToSet(tags) :
                     t <= Last(Cut(tags, limit)) <=> t \in ToSet(Cut(tags, limit))
  <1> DEFINE page == Cut(tags, limit)
             n == Len(page)
  <1>1. /\ Len(tags) \in Nat /\ DOMAIN tags = 1..Len(tags)
        /\ \A i \in 1..Len(tags) : tags[i] \in Tags /\ tags[i] \in Nat
    BY ListsOfTags
  <1>2. /\ page \in Seq(Tags)
        /\ n \in 0..Len(tags)
        /\ DOMAIN page = 1..n
        /\ \A i \in 1..n : page[i] = tags[i]
        /\ limit = NoLimit \/ n < limit => page = tags
        /\ page # <<>> => n > 0
    <2>1. CASE limit # NoLimit /\ limit < Len(tags)
      <3>1. limit \in Nat \ {0} /\ page = SubSeq(tags, 1, limit)
        BY <2>1, LimitsAssumption DEF Cut
      <3>2. \A i \in 1..limit : tags[i] \in Tags
        BY <1>1, <2>1, <3>1
      <3>3. /\ page \in Seq(Tags)
            /\ Len(page) = IF 1 <= limit THEN limit - 1 + 1 ELSE 0
            /\ \A i \in 1..(limit - 1 + 1) : page[i] = tags[1 + i - 1]
        <4> HIDE DEF page
        <4> QED
          BY <3>1, <3>2, SubSeqProperties
      <3>4. n = limit
        BY <3>1, <3>3
      <3>5. /\ n \in 0..Len(tags) /\ n > 0 /\ ~(limit = NoLimit \/ n < limit)
            /\ page \in Seq(Tags)
        BY <1>1, <2>1, <3>1, <3>3, <3>4
      <3>6. \A i \in 1..n : page[i] = tags[i]
        BY <3>1, <3>3, <3>4
      <3> HIDE DEF page
      <3> QED
        BY <3>5, <3>6
    <2>2. CASE ~(limit # NoLimit /\ limit < Len(tags))
      <3>1. page = tags
        BY <2>2 DEF Cut
      <3> HIDE DEF page
      <3> QED
        BY <1>1, <3>1
    <2> QED
      BY <2>1, <2>2
  <1> HIDE DEF page, n
  <1>3. ToSet(page) \subseteq ToSet(tags)
    BY <1>1, <1>2 DEF ToSet
  <1>4. ASSUME page # <<>> PROVE Last(page) = tags[n] /\ n \in 1..n /\ n \in 1..Len(tags)
    BY <1>2, <1>4 DEF Last, n
  <1>5. ASSUME page # <<>>, NEW i \in 1..Len(tags), tags[i] <= tags[n]
        PROVE  tags[i] \in ToSet(page)
    <2>1. CASE i <= n
      <3>1. i \in 1..n
        BY <1>1, <1>2, <2>1
      <3> QED
        BY <1>2, <3>1 DEF ToSet
    <2>2. CASE n < i
      <3>1. tags[n] <= tags[i]
        BY <1>1, <1>4, <1>5, <2>2 DEF Ascending
      <3>2. tags[i] = page[n] /\ n \in DOMAIN page
        BY <1>1, <1>2, <1>4, <1>5, <3>1
      <3> QED
        BY <3>2 DEF ToSet
    <2> QED
      BY <1>1, <1>2, <2>1, <2>2
  <1>6. ASSUME page # <<>>, NEW i \in 1..n PROVE page[i] <= tags[n]
    <2>1. page[i] = tags[i] /\ i \in 1..Len(tags) /\ (i = n \/ i < n)
      BY <1>1, <1>2
    <2> QED
      BY <1>1, <1>4, <1>6, <2>1 DEF Ascending
  <1>7. page # <<>> => Last(page) \in ToSet(tags)
    BY <1>1, <1>4 DEF ToSet
  <1>8. ASSUME page # <<>>, NEW t \in ToSet(tags) PROVE t <= Last(page) <=> t \in ToSet(page)
    <2>1. PICK i \in 1..Len(tags) : t = tags[i]
      BY <1>1 DEF ToSet
    <2>2. t <= Last(page) => t \in ToSet(page)
      BY <1>4, <1>5, <1>8, <2>1
    <2>3. t \in ToSet(page) => t <= Last(page)
      BY <1>2, <1>4, <1>6, <1>8 DEF ToSet
    <2> QED
      BY <2>2, <2>3
  <1> QED
    BY <1>2, <1>3, <1>7, <1>8 DEF page, n

-----------------------------------------------------------------------------
(* The invariant                                                           *)

Seen(c) == c.listed \cup ToSet(c.page)

\* What the client c knows after any number of pages
Paged(c) ==
    /\ c.listed \cap ToSet(c.page) = {}
    /\ \A t \in Seen(c) : t <= c.last
    /\ \A t \in c.kept : t <= c.last => t \in Seen(c)
    /\ c.stage = "done" => c.kept \subseteq Seen(c)

PagedInv == TypeOK /\ Paged(client)

\* The next page of a listing: none of it was seen, and all the listing has up
\* to the new `last` is seen now.
LEMMA NextPage ==
    ASSUME NEW c \in Client, NEW d \in Client, Paged(c),
           NEW tags \in Seq(Tags), Ascending(tags),
           d.limit = c.limit,
           d.page = Cut(After(tags, c.last), c.limit),
           d.last = IF d.page = <<>> THEN c.last ELSE Last(d.page),
           d.listed = Seen(c),
           d.kept = c.kept \cap ToSet(tags),
           d.stage = "done" => c.limit = NoLimit \/ Len(d.page) < c.limit
    PROVE  Paged(d)
  <1> DEFINE rest == After(tags, c.last)
  <1>1. /\ c.last \in Nat /\ d.last \in Nat /\ c.limit \in Limits
        /\ \A t \in Seen(c) : t \in Nat
        /\ \A t \in c.kept : t \in Nat
    <2>1. Seen(c) \subseteq Tags /\ c.kept \subseteq Tags /\ c.limit \in Limits
      BY DEF Client, Seen, ToSet
    <2>2. c.last \in Tags \cup {0} /\ d.last \in Tags \cup {0}
      BY DEF Client
    <2> QED
      BY <2>1, <2>2, TagsArePositive
  <1>2. /\ rest \in Seq(Tags)
        /\ Ascending(rest)
        /\ \A t \in ToSet(rest) : t > c.last /\ t \in Nat
        /\ \A t \in ToSet(tags) : t > c.last => t \in ToSet(rest)
    <2>1. /\ rest \in Seq(Tags)
          /\ Ascending(rest)
          /\ \A t \in ToSet(rest) : t > c.last
          /\ \A t \in ToSet(tags) : t > c.last => t \in ToSet(rest)
      BY <1>1, AfterTags
    <2>2. \A t \in ToSet(rest) : t \in Nat
      BY <2>1, ListsOfTags DEF ToSet
    <2> QED
      BY <2>1, <2>2
  <1>3. /\ ToSet(d.page) \subseteq ToSet(rest)
        /\ c.limit = NoLimit \/ Len(d.page) < c.limit => d.page = rest
        /\ d.page # <<>> =>
             /\ d.last \in ToSet(rest)
             /\ \A t \in ToSet(rest) : t <= d.last <=> t \in ToSet(d.page)
    BY <1>1, <1>2, CutTags
  <1>4. d.page = <<>> => ToSet(d.page) = {} /\ d.last = c.last
    BY DEF ToSet
  <1>5. Seen(d) = Seen(c) \cup ToSet(d.page)
    BY DEF Seen
  <1> HIDE DEF rest
  <1>6. c.last <= d.last
    BY <1>1, <1>2, <1>3, <1>4
  <1>7. d.listed \cap ToSet(d.page) = {}
    <2>1. \A t \in Seen(c) : t <= c.last
      BY DEF Paged
    <2> QED
      BY <1>1, <1>2, <1>3, <2>1
  <1>8. ASSUME NEW t \in Seen(d) PROVE t <= d.last
    <2>1. CASE t \in Seen(c)
      BY <1>1, <1>6, <2>1 DEF Paged
    <2>2. CASE t \in ToSet(d.page)
      BY <1>3, <1>4, <2>2
    <2> QED
      BY <1>5, <2>1, <2>2
  <1>9. ASSUME NEW t \in d.kept, t <= d.last PROVE t \in Seen(d)
    <2>1. t \in c.kept /\ t \in ToSet(tags) /\ t \in Nat
      BY <1>1
    <2>2. CASE t <= c.last
      BY <1>5, <2>1, <2>2 DEF Paged
    <2>3. CASE t > c.last
      <3>1. t \in ToSet(rest) /\ d.page # <<>>
        BY <1>1, <1>2, <1>4, <1>9, <2>1, <2>3
      <3> QED
        BY <1>3, <1>5, <1>9, <3>1
    <2> QED
      BY <1>1, <2>1, <2>2, <2>3
  <1>10. ASSUME d.stage = "done", NEW t \in d.kept PROVE t \in Seen(d)
    <2>1. t \in c.kept /\ t \in ToSet(tags) /\ t \in Nat
      BY <1>1
    <2>2. d.page = rest
      BY <1>3, <1>10
    <2>3. CASE t <= c.last
      BY <1>5, <2>1, <2>3 DEF Paged
    <2>4. CASE t > c.last
      BY <1>2, <1>5, <2>1, <2>2, <2>4
    <2> QED
      BY <1>1, <2>1, <2>3, <2>4
  <1> QED
    BY <1>7, <1>8, <1>9, <1>10 DEF Paged

\* A response, from the index or from the store
LEMMA RespondKeeps ==
    ASSUME PagedInv, NEW tags \in Seq(Tags), Ascending(tags), Respond(tags)
    PROVE  client' \in Client /\ Paged(client)'
  <1> DEFINE page == Cut(After(tags, client.last), client.limit)
             stage == IF client.limit = NoLimit \/ Len(page) < client.limit THEN "done" ELSE "ask"
             last == IF page = <<>> THEN client.last ELSE Last(page)
  <1>1. client \in Client /\ Paged(client)
    BY DEF PagedInv, TypeOK
  <1>2. client.last \in Tags \cup {0} /\ client.last \in Nat /\ client.limit \in Limits
    <2>1. client.last \in Tags \cup {0} /\ client.limit \in Limits
      BY <1>1 DEF Client
    <2> QED
      BY <2>1, TagsArePositive
  <1>3. page \in Seq(Tags) /\ (page # <<>> => Last(page) \in Tags)
    <2>1. /\ After(tags, client.last) \in Seq(Tags)
          /\ Ascending(After(tags, client.last))
      BY <1>2, AfterTags
    <2>2. /\ page \in Seq(Tags)
          /\ page # <<>> => Last(page) \in ToSet(After(tags, client.last))
      BY <1>2, <2>1, CutTags
    <2> QED
      BY <2>1, <2>2 DEF ToSet
  <1>4. client' = [client EXCEPT !.stage = stage, !.last = last, !.page = page,
                                 !.listed = Seen(client), !.kept = client.kept \cap ToSet(tags)]
    BY <1>1 DEF Respond, Seen
  <1>5. /\ stage \in {"ask", "done"}
        /\ stage = "done" => client.limit = NoLimit \/ Len(page) < client.limit
        /\ last \in Tags \cup {0}
    BY <1>2, <1>3
  <1>6. last = IF page = <<>> THEN client.last ELSE Last(page)
    OBVIOUS
  <1>7. page = Cut(After(tags, client.last), client.limit)
    OBVIOUS
  <1> HIDE DEF page, stage, last
  <1>8. Seen(client) \in SUBSET Tags
    BY <1>1 DEF Seen, Client, ToSet
  <1>9. /\ client' \in Client
        /\ client'.stage = stage /\ client'.last = last /\ client'.page = page
        /\ client'.listed = Seen(client) /\ client'.kept = client.kept \cap ToSet(tags)
        /\ client'.limit = client.limit
    BY <1>1, <1>3, <1>4, <1>5, <1>8 DEF Client
  <1>10. PICK c \in Client : c = client
    BY <1>1
  <1>11. PICK d \in Client : d = client'
    BY <1>9
  <1>12. /\ Paged(c)
         /\ d.limit = c.limit
         /\ d.page = Cut(After(tags, c.last), c.limit)
         /\ d.last = IF d.page = <<>> THEN c.last ELSE Last(d.page)
         /\ d.listed = Seen(c)
         /\ d.kept = c.kept \cap ToSet(tags)
         /\ d.stage = "done" => c.limit = NoLimit \/ Len(d.page) < c.limit
    BY <1>1, <1>5, <1>6, <1>7, <1>9, <1>10, <1>11
  <1>13. Paged(d)
    BY <1>12, NextPage
  <1> QED
    BY <1>9, <1>11, <1>13 DEF Paged, Seen

\* What is listed is there, sorted.
LEMMA IndexIsListed ==
    ASSUME PagedInv, NEW tags \in IndexTags(index)
    PROVE  tags \in Seq(Tags) /\ Ascending(tags)
  <1>1. IsFiniteSet(index) /\ \A v \in index : TagOf[v] \in Tags
    BY VersionsAssumption, FS_Subset DEF PagedInv, TypeOK, Tags
  <1> QED
    BY <1>1, SortedNames DEF IndexTags

LEMMA StoreIsListed ==
    ASSUME PagedInv, NEW tags \in StoredTags(stored)
    PROVE  tags \in Seq(Tags) /\ Ascending(tags)
  <1> DEFINE name == [t \in stored |-> t]
  <1>1. IsFiniteSet(stored) /\ \A t \in stored : name[t] \in Tags
    BY NamesAreFinite, FS_Subset DEF PagedInv, TypeOK
  <1> QED
    BY <1>1, SortedNames DEF StoredTags

\* The client waits for something, and keeps what it has.
LEMMA StageKeeps ==
    ASSUME PagedInv, NEW stage \in {"idle", "ask", "prepare", "list"},
           client' = [client EXCEPT !.stage = stage]
    PROVE  client' \in Client /\ Paged(client)'
  BY DEF PagedInv, TypeOK, Client, Paged, Seen

LEMMA PagedStep == PagedInv /\ [Next]_vars => PagedInv'
  <1> SUFFICES ASSUME PagedInv, [Next]_vars PROVE PagedInv'
    OBVIOUS
  <1> USE DEF PagedInv
  <1>1. TypeOK /\ Paged(client)
    OBVIOUS
  <1>2. CASE Begin
    BY <1>1, <1>2, StageKeeps DEF Begin, TypeOK
  <1>3. CASE ListIndex
    <2>1. PICK tags \in IndexTags(index) : Respond(tags)
      BY <1>3 DEF ListIndex
    <2>2. tags \in Seq(Tags) /\ Ascending(tags)
      BY IndexIsListed
    <2>3. client' \in Client /\ Paged(client)'
      BY <2>1, <2>2, RespondKeeps
    <2> QED
      BY <1>1, <1>3, <2>3 DEF ListIndex, TypeOK
  <1>4. CASE AskStore
    BY <1>1, <1>4, StageKeeps DEF AskStore, TypeOK
  <1>11. CASE FindVariant
    BY <1>1, <1>11, StageKeeps DEF FindVariant, TypeOK
  <1>5. CASE Prepare
    <2>1. stored' \in SUBSET Tags
      BY <1>1, <1>5 DEF Prepare, TypeOK, Tags
    <2> QED
      BY <1>1, <1>5, <2>1, StageKeeps DEF Prepare, TypeOK
  <1>6. CASE PrepareFails
    BY <1>1, <1>6, StageKeeps DEF PrepareFails, TypeOK
  <1>7. CASE ListStored
    <2>1. PICK tags \in StoredTags(stored) : Respond(tags)
      BY <1>7 DEF ListStored
    <2>2. tags \in Seq(Tags) /\ Ascending(tags)
      BY StoreIsListed
    <2>3. client' \in Client /\ Paged(client)'
      BY <2>1, <2>2, RespondKeeps
    <2> QED
      BY <1>1, <1>7, <2>3 DEF ListStored, TypeOK
  <1>8. CASE Publish
    BY <1>1, <1>8 DEF Publish, TypeOK, Paged, Seen
  <1>9. CASE Restock
    BY <1>1, <1>9 DEF Restock, TypeOK, Paged, Seen
  <1>10. CASE UNCHANGED vars
    BY <1>1, <1>10 DEF vars, TypeOK, Paged, Seen
  <1> QED
    BY <1>2, <1>3, <1>4, <1>5, <1>6, <1>7, <1>8, <1>9, <1>10, <1>11 DEF Next, Handler

LEMMA PagedInvHolds == Spec => []PagedInv
  <1>1. Init => PagedInv
    <2> SUFFICES ASSUME Init PROVE PagedInv
      OBVIOUS
    <2>1. PICK limit \in Limits :
            client = [stage |-> "idle", limit |-> limit, last |-> 0, page |-> <<>>,
                      listed |-> {}, kept |-> Tags]
      BY DEF Init
    <2>2. client \in Client
      BY <2>1 DEF Client
    <2>3. Seen(client) = {} /\ client.listed = {} /\ client.last = 0
      BY <2>1 DEF Seen, ToSet
    <2>4. \A t \in client.kept : ~(t <= client.last)
      BY <2>1, TagsArePositive
    <2>5. Paged(client)
      BY <2>1, <2>3, <2>4 DEF Paged
    <2> QED
      BY <2>2, <2>5 DEF Init, PagedInv, TypeOK
  <1> QED
    BY <1>1, PagedStep, PTL DEF Spec

-----------------------------------------------------------------------------
(* The theorems                                                            *)

\* The types of paging, among them that only names of versions are stored
\* (manifest.go HandleTags).
THEOREM PagingIsTyped == Spec => []TypeOK
  BY PagedInvHolds, PTL DEF PagedInv

\* Whatever is published, stored, expired or unreachable between two pages, a
\* tag that was there for all of them is in one (HandleTags).
THEOREM NothingIsSkipped == Spec => []NothingSkipped
  <1>1. PagedInv => NothingSkipped
    BY DEF PagedInv, Paged, Seen, NothingSkipped
  <1> QED
    BY <1>1, PagedInvHolds, PTL

\* No tag is in two pages, whether they come from the index or from the store
\* (HandleTags).
THEOREM NothingIsRepeated == Spec => []NothingRepeated
  <1>1. PagedInv => NothingRepeated
    BY DEF PagedInv, Paged, NothingRepeated
  <1> QED
    BY <1>1, PagedInvHolds, PTL

\* A page that is not the last one has a tag, and all its tags are later than
\* `last`: what a proof that paging ends would go by (HandleTags).
THEOREM PagesAlwaysAdvance == Spec => PagesAdvance
  <1> DEFINE Advance == client.stage \in {"ask", "list"} /\ client'.stage = "ask" /\ client' # client
                          => client.last < client'.last
  <1>1. ASSUME PagedInv, NEW tags \in Seq(Tags), Ascending(tags), Respond(tags) PROVE Advance
    <2> SUFFICES ASSUME client'.stage = "ask" PROVE client.last < client'.last
      OBVIOUS
    <2> DEFINE rest == After(tags, client.last)
               page == Cut(rest, client.limit)
    <2>1. client \in Client /\ client.last \in Tags \cup {0} /\ client.limit \in Limits
      BY <1>1 DEF PagedInv, TypeOK, Client
    <2>2. client.last \in Nat
      BY <2>1, TagsArePositive
    <2>3. ~(client.limit = NoLimit \/ Len(page) < client.limit)
      BY <1>1, <2>1 DEF Respond, Client
    <2>4. rest \in Seq(Tags) /\ Ascending(rest) /\ \A t \in ToSet(rest) : t > client.last
      BY <1>1, <2>2, AfterTags
    <2>5. page # <<>>
      <3>1. client.limit \in Nat /\ client.limit > 0
        <4>1. PICK limit \in Limits : limit = client.limit /\ limit # NoLimit
          BY <2>1, <2>3
        <4>2. limit \in Nat \ {0}
          BY <4>1, LimitsAssumption
        <4> QED
          BY <4>1, <4>2
      <3>2. SUFFICES ASSUME page = <<>> PROVE FALSE
        OBVIOUS
      <3>3. Len(page) = 0
        BY <3>2
      <3> HIDE DEF page
      <3> QED
        BY <2>3, <3>1, <3>3
    <2>6. Last(page) \in ToSet(rest) /\ ToSet(rest) \subseteq Tags
      BY <2>1, <2>4, <2>5, CutTags DEF ToSet
    <2>7. client'.last = Last(page)
      BY <1>1, <2>1, <2>5 DEF Respond, Client
    <2> HIDE DEF rest, page
    <2>8. Last(page) > client.last /\ Last(page) \in Nat
      BY <2>4, <2>6, TagsArePositive
    <2> QED
      BY <2>2, <2>7, <2>8
  <1>2. PagedInv /\ [Next]_vars => [Advance]_vars
    <2> SUFFICES ASSUME PagedInv, [Next]_vars PROVE Advance
      OBVIOUS
    <2>1. CASE ListIndex
      <3>1. PICK tags \in IndexTags(index) : Respond(tags)
        BY <2>1 DEF ListIndex
      <3>2. tags \in Seq(Tags) /\ Ascending(tags)
        BY IndexIsListed
      <3> QED
        BY <1>1, <3>1, <3>2
    <2>2. CASE ListStored
      <3>1. PICK tags \in StoredTags(stored) : Respond(tags)
        BY <2>2 DEF ListStored
      <3>2. tags \in Seq(Tags) /\ Ascending(tags)
        BY StoreIsListed
      <3> QED
        BY <1>1, <3>1, <3>2
    <2>3. CASE Begin \/ AskStore \/ FindVariant \/ Prepare \/ PrepareFails
      BY <2>3 DEF Begin, AskStore, FindVariant, Prepare, PrepareFails, PagedInv, TypeOK, Client
    <2>4. CASE Publish \/ Restock \/ UNCHANGED vars
      BY <2>4 DEF Publish, Restock, vars
    <2> QED
      BY <2>1, <2>2, <2>3, <2>4 DEF Next, Handler
  <1> QED
    BY <1>2, PagedInvHolds, PTL DEF Spec, PagesAdvance
=============================================================================
