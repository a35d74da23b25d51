--------------------------- MODULE CatalogProofs ---------------------------
(***************************************************************************)
(* Theorems about CatalogReads, for any identities and manifests and any   *)
(* number of upserts between the statements of a read.                     *)
(***************************************************************************)
EXTENDS CatalogReads, TLAPS

ReadsAlbum == {"tracks", "links", "splits", "identity", "contribution"}

\* The index and its history: every row is of the manifest indexed last, under a key
\* of its own that the sequence has passed.
IndexInv ==
  /\ lastPK \in Nat
  /\ indexed \in [Urls -> Seq(Manifests)]
  /\ \A b \in albums :
       /\ b.pk \in 1 .. lastPK /\ b.url \in Urls
       /\ Len(indexed[b.url]) # 0
       /\ b.album \in ToSet(indexed[b.url][Len(indexed[b.url])].catalog)
  /\ \A b, c \in albums : b.pk = c.pk => b = c

\* The query under way and when it began.
QueryInv ==
  /\ pc \in ReadsAlbum \cup {"album"} => query = "albums"
  /\ pc \in {"roster", "artists"} => query \in Urls
  /\ pc \notin ReadsAlbum \cup {"album", "roster", "artists"} => pc \in {"idle", "done"}
  /\ since \in [Urls -> Nat]
  /\ \A u \in Urls : since[u] <= Len(indexed[u])

\* No row is left under the key of the album that is being read.
Gone == \A b \in albums : b.pk # found.pk

\* What has been read is of the album a; a part that is missing was read when the row
\* was gone.
PartsOf(a) ==
  /\ pc \notin {"tracks"} => found.tracks = a.tracks \/ (found.tracks = <<>> /\ Gone)
  /\ pc \notin {"tracks", "links"} =>
       \/ found.links = a.links /\ found.tracks = a.tracks
       \/ found.links = <<>> /\ Gone
  /\ pc \notin {"tracks", "links", "splits"} =>
       \/ found.splits = a.splits /\ found.links = a.links /\ found.tracks = a.tracks
       \/ found.splits = <<>> /\ Gone

FoundInv ==
  pc \in ReadsAlbum =>
    /\ found = [pk |-> found.pk, url |-> found.url, id |-> found.id, version |-> found.version,
                tracks |-> found.tracks, links |-> found.links, splits |-> found.splits,
                verdicts |-> found.verdicts]
    /\ found.url \in Urls /\ found.pk \in 1 .. lastPK
    /\ \E a \in Sources(found) :
         /\ \A b \in albums : b.pk = found.pk => b.album = a
         /\ PartsOf(a)

\* An album that has been put together.
IsOneAlbum(b) ==
  /\ b.url \in Urls
  /\ \E a \in Sources(b) :
       \/ <<b.tracks, b.links, b.splits>> = <<a.tracks, a.links, a.splits>>
       \/ <<b.tracks, b.links, b.splits>> = <<a.tracks, a.links, <<>>>>
       \/ <<b.tracks, b.links, b.splits>> = <<a.tracks, <<>>, <<>>>>
       \/ <<b.tracks, b.links, b.splits>> = <<<<>>, <<>>, <<>>>>

AnswerInv ==
  query = "albums" => answer \in Seq(ToSet(answer)) /\ \A b \in ToSet(answer) : IsOneAlbum(b)

ReadInv == IndexInv /\ QueryInv /\ FoundInv /\ AnswerInv

-----------------------------------------------------------------------------
LEMMA SeqOfMore ==
  ASSUME NEW S, NEW T, NEW q \in Seq(S), S \subseteq T
  PROVE  q \in Seq(T)
OBVIOUS

LEMMA AppendedTo ==
  ASSUME NEW q, q \in Seq(ToSet(q)), NEW v
  PROVE  /\ Append(q, v) \in Seq(ToSet(Append(q, v)))
         /\ ToSet(Append(q, v)) = ToSet(q) \cup {v}
<1> DEFINE S == ToSet(q) \cup {v}
<1>1. q \in Seq(S)
  BY SeqOfMore
<1>2. /\ Append(q, v) \in Seq(S) /\ Len(q) \in Nat
      /\ Len(Append(q, v)) = Len(q) + 1 /\ Append(q, v)[Len(q) + 1] = v
      /\ \A i \in 1 .. Len(q) : Append(q, v)[i] = q[i]
      /\ DOMAIN q = 1 .. Len(q) /\ DOMAIN Append(q, v) = 1 .. (Len(q) + 1)
  BY <1>1
<1>3. v \in ToSet(Append(q, v)) /\ ToSet(q) \subseteq ToSet(Append(q, v))
  BY <1>2 DEF ToSet
<1>4. ToSet(Append(q, v)) \subseteq S
  BY <1>2 DEF ToSet
<1>5. QED  BY <1>2, <1>3, <1>4, SeqOfMore

\* Upserts only add to what an answer may rest on.
LEMMA SourcesGrow ==
  ASSUME IndexInv, QueryInv, IndexInv', since' = since, NEW b, b.url \in Urls,
         \A u \in Urls : /\ Len(indexed[u]) <= Len(indexed'[u])
                         /\ \A n \in 1 .. Len(indexed[u]) : indexed'[u][n] = indexed[u][n]
  PROVE  Sources(b) \subseteq Sources(b)'
<1> DEFINE u == b.url
<1>1. Len(indexed[u]) \in Nat /\ Len(indexed'[u]) \in Nat /\ since[u] \in Nat
  BY DEF IndexInv, QueryInv
<1>2. \A n \in Window(u) \ {0} : n \in Window(u)' \ {0} /\ indexed'[u][n] = indexed[u][n]
  BY <1>1 DEF Window
<1>3. QED  BY <1>2 DEF Sources

LEMMA SourcesStay ==
  ASSUME UNCHANGED <<indexed, since>>, NEW b
  PROVE  Sources(b)' = Sources(b)
<1>1. \A u : Window(u)' = Window(u)
  BY DEF Window
<1>2. QED  BY <1>1 DEF Sources

LEMMA AlbumsStay ==
  ASSUME UNCHANGED <<indexed, since>>, NEW b
  PROVE  IsOneAlbum(b)' <=> IsOneAlbum(b)
BY SourcesStay DEF IsOneAlbum

LEMMA AnswerStays ==
  ASSUME AnswerInv, UNCHANGED <<query, answer, indexed, since>>
  PROVE  AnswerInv'
<1>1. \A b : IsOneAlbum(b)' <=> IsOneAlbum(b)
  BY AlbumsStay
<1>2. ToSet(answer)' = ToSet(answer)
  BY DEF ToSet
<1>3. QED  BY <1>1, <1>2 DEF AnswerInv

-----------------------------------------------------------------------------
\* The writer.

LEMMA UpsertIndex ==
  ASSUME IndexInv, NEW u \in Urls, UpsertManifest(u)
  PROVE  /\ IndexInv'
         /\ \A b \in albums' : b \in albums \/ b.pk > lastPK
         /\ lastPK' >= lastPK
         /\ \A w \in Urls : /\ Len(indexed[w]) <= Len(indexed'[w])
                            /\ \A n \in 1 .. Len(indexed[w]) : indexed'[w][n] = indexed[w][n]
<1>1. PICK m \in Published[u] :
        /\ albums' = {b \in albums : b.url # u} \cup RowsOf(u, m)
        /\ lastPK' = lastPK + Len(m.catalog)
        /\ indexed' = [indexed EXCEPT ![u] = Append(indexed[u], m)]
  BY DEF UpsertManifest
<1>2. m \in Manifests /\ m.catalog \in Seq(Albums) /\ Len(m.catalog) \in Nat
      /\ DOMAIN m.catalog = 1 .. Len(m.catalog)
  <2>1. m \in Manifests
    BY CatalogAssumption
  <2>2. m.catalog \in Seq(Albums)
    BY <2>1 DEF Manifests
  <2>3. QED  BY <2>1, <2>2
<1>3. \A b \in RowsOf(u, m) : \E i \in 1 .. Len(m.catalog) :
        b.pk = lastPK + i /\ b.url = u /\ b.album = m.catalog[i] /\ b = Row(lastPK + i, u, m.catalog[i])
  BY <1>2 DEF RowsOf, Row
<1>4. lastPK \in Nat /\ lastPK' \in Nat /\ lastPK' >= lastPK
  BY <1>1, <1>2 DEF IndexInv
<1>5. /\ indexed[u] \in Seq(Manifests) /\ indexed' \in [Urls -> Seq(Manifests)]
      /\ Len(indexed'[u]) = Len(indexed[u]) + 1 /\ indexed'[u][Len(indexed'[u])] = m
      /\ Len(indexed[u]) \in Nat
      /\ \A n \in 1 .. Len(indexed[u]) : indexed'[u][n] = indexed[u][n]
      /\ \A w \in Urls \ {u} : indexed'[w] = indexed[w]
  BY <1>1, <1>2 DEF IndexInv
<1>6. \A b \in albums' : b \in albums \/ b.pk > lastPK
  BY <1>1, <1>3, <1>4
<1>7. ASSUME NEW b \in albums'
      PROVE  /\ b.pk \in 1 .. lastPK' /\ b.url \in Urls
             /\ Len(indexed'[b.url]) # 0
             /\ b.album \in ToSet(indexed'[b.url][Len(indexed'[b.url])].catalog)
  <2>1. CASE b \in albums /\ b.url # u
    BY <1>4, <1>5, <2>1 DEF IndexInv
  <2>2. CASE b \in RowsOf(u, m)
    <3>1. PICK i \in 1 .. Len(m.catalog) : b.pk = lastPK + i /\ b.url = u /\ b.album = m.catalog[i]
      BY <1>3, <2>2
    <3>2. b.pk \in 1 .. lastPK'
      BY <1>1, <1>2, <1>4, <3>1
    <3>3. b.album \in ToSet(m.catalog)
      BY <1>2, <3>1 DEF ToSet
    <3>4. QED  BY <1>5, <3>1, <3>2, <3>3
  <2>3. QED  BY <1>1, <2>1, <2>2
<1>8. ASSUME NEW b \in albums', NEW c \in albums', b.pk = c.pk PROVE b = c
  <2>1. CASE b \in albums /\ c \in albums
    BY <1>8, <2>1 DEF IndexInv
  <2>2. CASE b \in RowsOf(u, m) /\ c \in RowsOf(u, m)
    <3>1. PICK i \in 1 .. Len(m.catalog) : b.pk = lastPK + i /\ b = Row(lastPK + i, u, m.catalog[i])
      BY <1>3, <2>2
    <3>2. PICK j \in 1 .. Len(m.catalog) : c.pk = lastPK + j /\ c = Row(lastPK + j, u, m.catalog[j])
      BY <1>3, <2>2
    <3>3. i = j
      <4>1. lastPK + i = lastPK + j
        BY <1>8, <3>1, <3>2
      <4>2. i \in Int /\ j \in Int /\ lastPK \in Int
        BY <1>2, <1>4
      <4>3. QED  BY <4>1, <4>2
    <3>4. QED  BY <3>1, <3>2, <3>3
  <2>3. CASE (b \in albums /\ c \in RowsOf(u, m)) \/ (c \in albums /\ b \in RowsOf(u, m))
    <3>1. \A x \in albums : x.pk <= lastPK
      BY <1>4 DEF IndexInv
    <3>2. \A x \in RowsOf(u, m) : x.pk > lastPK
      BY <1>3, <1>4
    <3>3. \A x \in albums : x.pk \in Nat
      BY DEF IndexInv
    <3>4. QED  BY <1>4, <1>8, <2>3, <3>1, <3>2, <3>3
  <2>4. QED  BY <1>1, <2>1, <2>2, <2>3
<1>9. IndexInv'
  BY <1>4, <1>5, <1>7, <1>8 DEF IndexInv
<1>10. \A w \in Urls : /\ Len(indexed[w]) <= Len(indexed'[w])
                      /\ \A n \in 1 .. Len(indexed[w]) : indexed'[w][n] = indexed[w][n]
  <2>1. ASSUME NEW w \in Urls PROVE Len(indexed[w]) \in Nat
    BY DEF IndexInv
  <2>2. Len(indexed[u]) <= Len(indexed'[u])
    BY <1>5
  <2>3. QED  BY <1>5, <2>1, <2>2
<1>11. QED  BY <1>4, <1>6, <1>9, <1>10

LEMMA UpsertStep ==
  ASSUME ReadInv, NEW u \in Urls, UpsertManifest(u)
  PROVE  ReadInv'
<1> USE DEF ReadInv
<1>1. UNCHANGED <<pc, query, todo, found, answer, since>>
  BY DEF UpsertManifest, reader
<1>2. /\ IndexInv'
      /\ \A b \in albums' : b \in albums \/ b.pk > lastPK
      /\ lastPK' >= lastPK
      /\ \A w \in Urls : /\ Len(indexed[w]) <= Len(indexed'[w])
                         /\ \A n \in 1 .. Len(indexed[w]) : indexed'[w][n] = indexed[w][n]
  BY UpsertIndex
<1>3. ASSUME NEW b, b.url \in Urls PROVE Sources(b) \subseteq Sources(b)'
  BY <1>1, <1>2, <1>3, SourcesGrow
<1>4. QueryInv'
  <2>1. \A w \in Urls : Len(indexed[w]) \in Nat /\ Len(indexed'[w]) \in Nat /\ since[w] \in Nat
    BY <1>2 DEF IndexInv, QueryInv
  <2>2. \A w \in Urls : since'[w] <= Len(indexed'[w])
    BY <1>1, <1>2, <2>1 DEF QueryInv
  <2>3. QED  BY <1>1, <2>2 DEF QueryInv
<1>5. FoundInv'
  <2> SUFFICES ASSUME pc \in ReadsAlbum PROVE FoundInv'
    BY <1>1 DEF FoundInv
  <2>1. found.url \in Urls /\ found.pk \in 1 .. lastPK
    BY DEF FoundInv
  <2>2. PICK a \in Sources(found) :
          (\A b \in albums : b.pk = found.pk => b.album = a) /\ PartsOf(a)
    BY DEF FoundInv
  <2>3. lastPK \in Nat /\ lastPK' \in Nat
    BY <1>2 DEF IndexInv
  <2>4. \A b \in albums' : b.pk = found.pk => b \in albums
    BY <1>2, <2>1, <2>3
  <2>5. a \in Sources(found)'
    <3>1. PICK b : b = found
      OBVIOUS
    <3>2. a \in Sources(b)'
      BY <1>3, <2>1, <2>2, <3>1
    <3>3. found' = b
      BY <1>1, <3>1
    <3>4. QED  BY <3>2, <3>3 DEF Sources
  <2>6. Gone => Gone'
    BY <1>1, <2>4 DEF Gone
  <2>7. PartsOf(a)'
    BY <1>1, <2>2, <2>6 DEF PartsOf
  <2>8. found'.pk \in 1 .. lastPK'
    BY <1>1, <1>2, <2>1, <2>3
  <2>9. QED  BY <1>1, <2>1, <2>2, <2>4, <2>5, <2>7, <2>8 DEF FoundInv
<1>6. AnswerInv'
  BY <1>1, <1>3 DEF AnswerInv, IsOneAlbum
<1>7. QED  BY <1>2, <1>4, <1>5, <1>6

-----------------------------------------------------------------------------
\* The reader.

LEMMA IndexStays ==
  ASSUME IndexInv, UNCHANGED index
  PROVE  IndexInv'
BY DEF IndexInv, index

LEMMA AskStep ==
  ASSUME ReadInv, UNCHANGED index, NEW q, NEW next, NEW keys, Begin(q, next, keys),
         (q = "albums" /\ next = "album") \/ (q \in Urls /\ next = "roster")
  PROVE  ReadInv'
<1>1. /\ pc' = next /\ query' = q /\ answer' = <<>>
      /\ since' = [u \in Urls |-> Len(indexed[u])] /\ UNCHANGED indexed
  BY DEF Begin, index
<1>2. QueryInv'
  BY <1>1 DEF ReadInv, IndexInv, QueryInv, ReadsAlbum
<1>3. FoundInv'
  BY <1>1 DEF FoundInv, ReadsAlbum
<1>4. AnswerInv'
  BY <1>1 DEF AnswerInv, ToSet
<1>5. QED  BY <1>2, <1>3, <1>4, IndexStays DEF ReadInv

LEMMA ReadAlbumStep ==
  ASSUME ReadInv, UNCHANGED index, ReadAlbum
  PROVE  ReadInv'
<1> USE DEF ReadInv
<1>1. pc = "album" /\ UNCHANGED <<query, answer, since, indexed, albums, lastPK>>
  BY DEF ReadAlbum, index
<1>2. AnswerInv'
  BY <1>1, AnswerStays
<1>3. CASE UNCHANGED <<pc, found>>
  BY <1>1, <1>2, <1>3, IndexStays DEF QueryInv, FoundInv, ReadsAlbum
<1>4. CASE \E b \in albums :
             /\ found' = [pk |-> b.pk, url |-> b.url, id |-> b.album.id, version |-> b.album.version,
                          tracks |-> <<>>, links |-> <<>>, splits |-> <<>>, verdicts |-> <<>>]
             /\ pc' = "tracks"
  <2>1. PICK b \in albums :
             /\ found' = [pk |-> b.pk, url |-> b.url, id |-> b.album.id, version |-> b.album.version,
                          tracks |-> <<>>, links |-> <<>>, splits |-> <<>>, verdicts |-> <<>>]
             /\ pc' = "tracks"
    BY <1>4
  <2> DEFINE n == Len(indexed[b.url])
  <2>2. /\ b.pk \in 1 .. lastPK /\ b.url \in Urls /\ n # 0
        /\ b.album \in ToSet(indexed[b.url][n].catalog)
    BY DEF IndexInv
  <2>3. n \in Window(b.url) \ {0}
    <3>1. n \in Nat /\ since[b.url] \in Nat /\ since[b.url] <= n
      BY <2>2 DEF IndexInv, QueryInv
    <3>2. QED  BY <2>2, <3>1 DEF Window
  <2>4. found'.url = b.url /\ found'.id = b.album.id /\ found'.version = b.album.version
        /\ found'.pk = b.pk
    BY <2>1
  <2>5. b.album \in Sources(found)'
    BY <1>1, <2>2, <2>3, <2>4 DEF Sources, Window
  <2>6. \A c \in albums' : c.pk = found'.pk => c.album = b.album
    BY <1>1, <2>4 DEF IndexInv
  <2>7. FoundInv'
    BY <1>1, <2>1, <2>2, <2>4, <2>5, <2>6 DEF FoundInv, PartsOf
  <2>8. QueryInv'
    BY <1>1, <2>1 DEF QueryInv, ReadsAlbum
  <2>9. QED  BY <1>2, <2>7, <2>8, IndexStays
<1>5. QED  BY <1>3, <1>4 DEF ReadAlbum

\* A part of an album is read, from its row or from none.
LEMMA PartStep ==
  ASSUME ReadInv, UNCHANGED index, ReadTracks \/ ReadLinks \/ ReadSplits
  PROVE  ReadInv'
<1> USE DEF ReadInv
<1>1. UNCHANGED <<query, answer, since, indexed, albums, lastPK>>
  BY DEF ReadTracks, ReadLinks, ReadSplits, ReadPart, index
<1>2. pc \in ReadsAlbum /\ pc' \in ReadsAlbum
  BY DEF ReadTracks, ReadLinks, ReadSplits, ReadPart, ReadsAlbum
<1>3. PICK a \in Sources(found) :
        (\A b \in albums : b.pk = found.pk => b.album = a) /\ PartsOf(a)
  BY <1>2 DEF FoundInv
<1>4. found = [pk |-> found.pk, url |-> found.url, id |-> found.id, version |-> found.version,
               tracks |-> found.tracks, links |-> found.links, splits |-> found.splits,
               verdicts |-> found.verdicts]
      /\ found.url \in Urls /\ found.pk \in 1 .. lastPK
  BY <1>2 DEF FoundInv
<1>5. \A part \in {"tracks", "links", "splits"} :
        Joined(part, found.pk) = a[part] \/ (Joined(part, found.pk) = <<>> /\ Gone)
  <2>1. CASE \E b \in albums : b.pk = found.pk
    BY <1>3, <2>1 DEF Joined
  <2>2. CASE ~\E b \in albums : b.pk = found.pk
    BY <2>2 DEF Joined, Gone
  <2>3. QED  BY <2>1, <2>2
<1>6. (\E b \in albums : b.pk = found.pk) =>
        \A part \in {"tracks", "links", "splits"} : Joined(part, found.pk) = a[part]
  BY <1>5 DEF Gone
<1>7. /\ found' = [pk |-> found.pk, url |-> found.url, id |-> found.id, version |-> found.version,
                   tracks |-> found'.tracks, links |-> found'.links, splits |-> found'.splits,
                   verdicts |-> found.verdicts]
      /\ PartsOf(a)'
  <2>1. CASE ReadTracks
    <3>1. /\ pc = "tracks" /\ pc' = "links"
          /\ found' = [found EXCEPT !["tracks"] = Joined("tracks", found.pk)]
      BY <2>1 DEF ReadTracks, ReadPart
    <3>2. found' = [pk |-> found.pk, url |-> found.url, id |-> found.id, version |-> found.version,
                    tracks |-> Joined("tracks", found.pk), links |-> found.links,
                    splits |-> found.splits, verdicts |-> found.verdicts]
      BY <1>4, <3>1
    <3>3. Gone' <=> Gone
      BY <1>1, <3>2 DEF Gone
    <3>4. found'.tracks = a.tracks \/ (found'.tracks = <<>> /\ Gone')
      BY <1>5, <3>2, <3>3
    <3>5. QED  BY <3>1, <3>2, <3>4 DEF PartsOf
  <2>2. CASE ReadLinks
    <3>1. /\ pc = "links" /\ pc' = "splits"
          /\ found' = [found EXCEPT !["links"] = Joined("links", found.pk)]
      BY <2>2 DEF ReadLinks, ReadPart
    <3>2. found' = [pk |-> found.pk, url |-> found.url, id |-> found.id, version |-> found.version,
                    tracks |-> found.tracks, links |-> Joined("links", found.pk),
                    splits |-> found.splits, verdicts |-> found.verdicts]
      BY <1>4, <3>1
    <3>3. Gone' <=> Gone
      BY <1>1, <3>2 DEF Gone
    <3>4. found.tracks = a.tracks \/ (found.tracks = <<>> /\ Gone)
      BY <1>3, <3>1 DEF PartsOf
    <3>5. \/ found'.links = a.links /\ found'.tracks = a.tracks
          \/ found'.links = <<>> /\ Gone'
      <4>1. CASE Gone
        <5>1. Joined("links", found.pk) = <<>>
          BY <4>1 DEF Gone, Joined
        <5>2. QED  BY <3>2, <3>3, <4>1, <5>1
      <4>2. CASE ~Gone
        BY <1>5, <3>2, <3>4, <4>2
      <4>3. QED  BY <4>1, <4>2
    <3>6. found'.tracks = a.tracks \/ (found'.tracks = <<>> /\ Gone')
      BY <3>2, <3>3, <3>4
    <3>7. QED  BY <3>1, <3>2, <3>5, <3>6 DEF PartsOf
  <2>3. CASE ReadSplits
    <3>1. /\ pc = "splits" /\ pc' = "identity"
          /\ found' = [found EXCEPT !["splits"] = Joined("splits", found.pk)]
      BY <2>3 DEF ReadSplits, ReadPart
    <3>2. found' = [pk |-> found.pk, url |-> found.url, id |-> found.id, version |-> found.version,
                    tracks |-> found.tracks, links |-> found.links,
                    splits |-> Joined("splits", found.pk), verdicts |-> found.verdicts]
      BY <1>4, <3>1
    <3>3. Gone' <=> Gone
      BY <1>1, <3>2 DEF Gone
    <3>4. /\ found.tracks = a.tracks \/ (found.tracks = <<>> /\ Gone)
          /\ (found.links = a.links /\ found.tracks = a.tracks) \/ (found.links = <<>> /\ Gone)
      BY <1>3, <3>1 DEF PartsOf
    <3>5. \/ found'.splits = a.splits /\ found'.links = a.links /\ found'.tracks = a.tracks
          \/ found'.splits = <<>> /\ Gone'
      <4>1. CASE Gone
        <5>1. Joined("splits", found.pk) = <<>>
          BY <4>1 DEF Gone, Joined
        <5>2. QED  BY <3>2, <3>3, <4>1, <5>1
      <4>2. CASE ~Gone
        BY <1>5, <3>2, <3>4, <4>2
      <4>3. QED  BY <4>1, <4>2
    <3>6. /\ found'.tracks = a.tracks \/ (found'.tracks = <<>> /\ Gone')
          /\ (found'.links = a.links /\ found'.tracks = a.tracks) \/ (found'.links = <<>> /\ Gone')
      BY <3>2, <3>3, <3>4
    <3>7. QED  BY <3>1, <3>2, <3>5, <3>6 DEF PartsOf
  <2>4. QED  BY <2>1, <2>2, <2>3
<1>8. /\ found'.pk = found.pk /\ found'.url = found.url /\ found'.id = found.id
      /\ found'.version = found.version /\ found'.verdicts = found.verdicts
  BY <1>7
<1>9. a \in Sources(found)'
  BY <1>1, <1>8 DEF Sources, Window
<1>10. FoundInv'
  <2>1. found'.url \in Urls /\ found'.pk \in 1 .. lastPK'
    BY <1>1, <1>4, <1>8
  <2>2. \A b \in albums' : b.pk = found'.pk => b.album = a
    BY <1>1, <1>3, <1>8
  <2>3. found' = [pk |-> found'.pk, url |-> found'.url, id |-> found'.id, version |-> found'.version,
                  tracks |-> found'.tracks, links |-> found'.links, splits |-> found'.splits,
                  verdicts |-> found'.verdicts]
    BY <1>7, <1>8
  <2>4. \E x \in Sources(found)' : (\A b \in albums' : b.pk = found'.pk => b.album = x) /\ PartsOf(x)'
    BY <1>7, <1>9, <2>2
  <2>5. QED  BY <2>1, <2>3, <2>4 DEF FoundInv
<1>11. QueryInv'
  BY <1>1, <1>2 DEF QueryInv, ReadsAlbum
<1>12. AnswerInv'
  BY <1>1, AnswerStays
<1>13. QED  BY <1>10, <1>11, <1>12, IndexStays

\* The splits are verified; nothing of the album changes.
LEMMA VerdictStep ==
  ASSUME ReadInv, UNCHANGED index, FindConfirming \/ FindContribution
  PROVE  ReadInv'
<1> USE DEF ReadInv
<1>1. /\ UNCHANGED <<query, answer, since, indexed, albums, lastPK>>
      /\ pc \in {"identity", "contribution"} /\ pc' \in {"identity", "contribution"}
      /\ found' = found \/ \E v : Judged(v)
  BY DEF FindConfirming, FindContribution, index
<1>2. PICK a \in Sources(found) :
        (\A b \in albums : b.pk = found.pk => b.album = a) /\ PartsOf(a)
  BY <1>1 DEF FoundInv, ReadsAlbum
<1>3. found = [pk |-> found.pk, url |-> found.url, id |-> found.id, version |-> found.version,
               tracks |-> found.tracks, links |-> found.links, splits |-> found.splits,
               verdicts |-> found.verdicts]
      /\ found.url \in Urls /\ found.pk \in 1 .. lastPK
  BY <1>1 DEF FoundInv, ReadsAlbum
<1>4. PICK v : found' = [pk |-> found.pk, url |-> found.url, id |-> found.id, version |-> found.version,
                         tracks |-> found.tracks, links |-> found.links, splits |-> found.splits,
                         verdicts |-> v]
  <2>1. CASE found' = found
    BY <1>3, <2>1
  <2>2. CASE \E v : Judged(v)
    BY <1>3, <2>2 DEF Judged
  <2>3. QED  BY <1>1, <2>1, <2>2
<1>5. /\ found'.pk = found.pk /\ found'.url = found.url /\ found'.id = found.id
      /\ found'.version = found.version /\ found'.verdicts = v
      /\ found'.tracks = found.tracks /\ found'.links = found.links /\ found'.splits = found.splits
  BY <1>4
<1>6. PartsOf(a)'
  BY <1>1, <1>2, <1>5 DEF PartsOf, Gone
<1>7. a \in Sources(found)'
  BY <1>1, <1>5 DEF Sources, Window
<1>8. FoundInv'
  BY <1>1, <1>2, <1>3, <1>4, <1>5, <1>6, <1>7 DEF FoundInv
<1>9. QueryInv'
  BY <1>1 DEF QueryInv, ReadsAlbum
<1>10. AnswerInv'
  BY <1>1, AnswerStays
<1>11. QED  BY <1>8, <1>9, <1>10, IndexStays

LEMMA ReturnStep ==
  ASSUME ReadInv, UNCHANGED index, ReturnAlbum
  PROVE  ReadInv'
<1> USE DEF ReadInv
<1>1. /\ pc = "identity" /\ pc' = "album" /\ answer' = Append(answer, found)
      /\ UNCHANGED <<query, found, since, indexed>>
  BY DEF ReturnAlbum, index
<1>2. query = "albums"
  BY <1>1 DEF QueryInv, ReadsAlbum
<1>3. IsOneAlbum(found)
  BY <1>1 DEF FoundInv, PartsOf, IsOneAlbum, ReadsAlbum
<1>4. answer' \in Seq(ToSet(answer')) /\ ToSet(answer') = ToSet(answer) \cup {found}
  BY <1>1, <1>2, AppendedTo DEF AnswerInv
<1>5. \A b \in ToSet(answer') : IsOneAlbum(b)
  BY <1>2, <1>3, <1>4 DEF AnswerInv
<1>6. AnswerInv'
  <2>1. \A b : IsOneAlbum(b)' <=> IsOneAlbum(b)
    BY <1>1, AlbumsStay
  <2>2. QED  BY <1>1, <1>4, <1>5, <2>1 DEF AnswerInv
<1>7. QueryInv' /\ FoundInv'
  BY <1>1, <1>2 DEF QueryInv, FoundInv, ReadsAlbum
<1>8. QED  BY <1>6, <1>7, IndexStays

\* The ends of queries, and the roster, which has no part in this.
LEMMA RestStep ==
  ASSUME ReadInv, UNCHANGED index,
         ReturnAlbums \/ VerifyRosterEntry \/ ReturnRoster \/ ResolveArtist \/ ReturnArtists
  PROVE  ReadInv'
<1> USE DEF ReadInv
<1>1. /\ UNCHANGED <<query, since, indexed>>
      /\ pc \in {"album", "roster", "artists"} /\ pc' \in {"roster", "artists", "done"}
      /\ pc' \in {"roster", "artists"} => pc \in {"roster", "artists"}
      /\ pc = "album" => UNCHANGED answer
  BY DEF ReturnAlbums, VerifyRosterEntry, ReturnRoster, ResolveArtist, ReturnArtists, index
<1>2. QueryInv' /\ FoundInv'
  BY <1>1 DEF QueryInv, FoundInv, ReadsAlbum
<1>3. query = "albums" => UNCHANGED answer
  BY <1>1, CatalogAssumption DEF QueryInv
<1>4. AnswerInv'
  BY <1>1, <1>3 DEF AnswerInv, IsOneAlbum, Sources, Window
<1>5. QED  BY <1>2, <1>4, IndexStays

LEMMA ReadStart == Init => ReadInv
<1> SUFFICES ASSUME Init PROVE ReadInv
  OBVIOUS
<1>1. IndexInv
  BY DEF Init, IndexInv
<1>2. QueryInv
  <2>1. \A u \in Urls : Len(indexed[u]) = 0
    BY DEF Init
  <2>2. QED  BY <2>1 DEF Init, QueryInv, ReadsAlbum
<1>3. FoundInv
  BY DEF Init, FoundInv, ReadsAlbum
<1>4. AnswerInv
  BY DEF Init, AnswerInv, ToSet
<1>5. QED  BY <1>1, <1>2, <1>3, <1>4 DEF ReadInv

LEMMA ReadStep ==
  ASSUME ReadInv, [Next]_vars
  PROVE  ReadInv'
<1>1. CASE UNCHANGED vars
  <2>1. UNCHANGED index /\ UNCHANGED <<pc, query, found, answer, since, indexed, albums, lastPK>>
    BY <1>1 DEF vars, index, reader
  <2>2. QueryInv' /\ AnswerInv'
    BY <2>1, AnswerStays DEF ReadInv, QueryInv
  <2>3. FoundInv'
    BY <2>1 DEF ReadInv, FoundInv, PartsOf, Gone, Sources, Window
  <2>4. QED  BY <2>1, <2>2, <2>3, IndexStays DEF ReadInv
<1>2. ASSUME Reader PROVE ReadInv'
  <2>1. UNCHANGED index
    BY <1>2 DEF Reader
  <2>2. ASSUME \/ \E u \in Urls, id \in AlbumIds : AskAlbum(u, id)
               \/ \E scope \in {{u} : u \in Urls} \cup {Urls} : AskAlbums(scope)
               \/ \E u \in Urls : AskRoster(u)
        PROVE  ReadInv'
    BY <2>1, <2>2, AskStep DEF AskAlbum, AskAlbums, AskRoster
  <2>3. QED
    BY <1>2, <2>1, <2>2, ReadAlbumStep, PartStep, VerdictStep, ReturnStep, RestStep DEF Reader
<1>3. QED  BY <1>1, <1>2, UpsertStep DEF Next

\* Whatever is indexed between the statements of a query, an album in the answer is put
\* together from one manifest, current during the query: parts may be missing, from some
\* part on, and are never another manifest's.
THEOREM OneManifestPerAlbum == Spec => []AlbumPartsOfOneManifest
<1>1. Spec => []ReadInv
  BY ReadStart, ReadStep, PTL DEF Spec
<1>2. ReadInv => AlbumPartsOfOneManifest
  BY DEF ReadInv, AnswerInv, IsOneAlbum, AlbumsAnswered, AlbumPartsOfOneManifest
<1>3. QED  BY <1>1, <1>2, PTL

-----------------------------------------------------------------------------
\* The tables hold the manifests that were indexed last.

Affiliations == [label : Urls \cup {None}, split : 0 .. 100 \cup {None}]

Newest(u) == indexed[u][Len(indexed[u])]

RowsInv ==
  /\ \A u \in Urls : indexed[u] \in Seq(Published[u])
  /\ identities = [u \in Urls |-> IF Len(indexed[u]) = 0 THEN None
                                  ELSE [label |-> Newest(u).label, split |-> Newest(u).split]]
  /\ rosters = [u \in Urls |-> IF Len(indexed[u]) = 0 THEN <<>> ELSE Newest(u).roster]
  /\ contributions = [u \in Urls |-> IF Len(indexed[u]) = 0 THEN <<>> ELSE Newest(u).contributions]
  /\ albums \subseteq [pk : 1 .. lastPK, url : Urls, album : Albums]
  /\ \A b \in albums : b.album.id \in AlbumIds
  /\ \A b, c \in albums : b.url = c.url /\ b.album.id = c.album.id => b = c

LEMMA NewestType ==
  ASSUME IndexInv, RowsInv, NEW u \in Urls, Len(indexed[u]) # 0
  PROVE  /\ Len(indexed[u]) \in Nat \ {0} /\ Newest(u) \in Manifests /\ Newest(u) \in Published[u]
         /\ identities[u] = [label |-> Newest(u).label, split |-> Newest(u).split]
         /\ identities[u].label = Newest(u).label /\ identities[u].split = Newest(u).split
         /\ identities[u] \in Affiliations
         /\ rosters[u] = Newest(u).roster /\ contributions[u] = Newest(u).contributions
<1>1. indexed[u] \in Seq(Manifests) /\ indexed[u] \in Seq(Published[u])
  BY DEF IndexInv, RowsInv
<1>2. Len(indexed[u]) \in Nat \ {0} /\ Newest(u) \in Manifests /\ Newest(u) \in Published[u]
  BY <1>1 DEF Newest
<1>3. identities[u] = [label |-> Newest(u).label, split |-> Newest(u).split]
      /\ rosters[u] = Newest(u).roster /\ contributions[u] = Newest(u).contributions
  BY DEF RowsInv
<1>4. [label |-> Newest(u).label, split |-> Newest(u).split] \in Affiliations
  BY <1>2 DEF Manifests, Affiliations
<1>5. QED  BY <1>2, <1>3, <1>4

\* An identity has a row once it has been indexed.
LEMMA KnownIs ==
  ASSUME IndexInv, RowsInv, NEW u \in Urls
  PROVE  Known(u) <=> Len(indexed[u]) # 0
<1>1. CASE Len(indexed[u]) # 0
  BY <1>1, NewestType, CatalogAssumption DEF Known, Affiliations
<1>2. CASE Len(indexed[u]) = 0
  BY <1>2 DEF Known, RowsInv
<1>3. QED  BY <1>1, <1>2

\* The tables have the types of their columns.
LEMMA RowsType ==
  ASSUME IndexInv, RowsInv
  PROVE  /\ identities \in [Urls -> Affiliations \cup {None}]
         /\ rosters \in [Urls -> Seq(RosterEntries)]
         /\ contributions \in [Urls -> Seq(Contributions)]
<1>1. ASSUME NEW u \in Urls
      PROVE  /\ identities[u] \in Affiliations \cup {None}
             /\ rosters[u] \in Seq(RosterEntries) /\ contributions[u] \in Seq(Contributions)
  <2>1. CASE Len(indexed[u]) = 0
    BY <2>1 DEF RowsInv
  <2>2. CASE Len(indexed[u]) # 0
    BY <2>2, NewestType DEF Manifests
  <2>3. QED  BY <2>1, <2>2
<1>2. /\ identities = [u \in Urls |-> identities[u]] /\ rosters = [u \in Urls |-> rosters[u]]
      /\ contributions = [u \in Urls |-> contributions[u]]
  BY DEF RowsInv
<1>3. QED  BY <1>1, <1>2

LEMMA RowsStart == Init => RowsInv
BY DEF Init, RowsInv

LEMMA UpsertRows ==
  ASSUME IndexInv, RowsInv, NEW u \in Urls, UpsertManifest(u)
  PROVE  RowsInv'
<1>1. PICK m \in Published[u] :
        /\ Valid(m)
        /\ identities' = [identities EXCEPT ![u] = [label |-> m.label, split |-> m.split]]
        /\ rosters' = [rosters EXCEPT ![u] = m.roster]
        /\ contributions' = [contributions EXCEPT ![u] = m.contributions]
        /\ albums' = {b \in albums : b.url # u} \cup RowsOf(u, m)
        /\ lastPK' = lastPK + Len(m.catalog)
        /\ indexed' = [indexed EXCEPT ![u] = Append(indexed[u], m)]
  BY DEF UpsertManifest
<1>2. m \in Manifests /\ m.catalog \in Seq(Albums) /\ Len(m.catalog) \in Nat
      /\ DOMAIN m.catalog = 1 .. Len(m.catalog)
  <2>1. m \in Manifests
    BY CatalogAssumption
  <2>2. m.catalog \in Seq(Albums)
    BY <2>1 DEF Manifests
  <2>3. QED  BY <2>1, <2>2
<1>3. /\ indexed \in [Urls -> Seq(Manifests)] /\ lastPK \in Nat
      /\ indexed[u] \in Seq(Manifests) /\ indexed[u] \in Seq(Published[u])
  BY DEF IndexInv, RowsInv
<1>4. /\ indexed'[u] \in Seq(Published[u])
      /\ Len(indexed'[u]) = Len(indexed[u]) + 1 /\ Len(indexed'[u]) # 0
      /\ indexed'[u][Len(indexed'[u])] = m
      /\ \A w \in Urls \ {u} : indexed'[w] = indexed[w]
  BY <1>1, <1>2, <1>3
<1>5. \A w \in Urls : indexed'[w] \in Seq(Published[w])
  BY <1>4 DEF RowsInv
<1>6. Newest(u)' = m /\ \A w \in Urls \ {u} : Newest(w)' = Newest(w)
  BY <1>4 DEF Newest
<1>7. /\ identities' = [w \in Urls |-> IF Len(indexed'[w]) = 0 THEN None
                                       ELSE [label |-> Newest(w)'.label, split |-> Newest(w)'.split]]
      /\ rosters' = [w \in Urls |-> IF Len(indexed'[w]) = 0 THEN <<>> ELSE Newest(w)'.roster]
      /\ contributions' = [w \in Urls |-> IF Len(indexed'[w]) = 0 THEN <<>>
                                          ELSE Newest(w)'.contributions]
  BY <1>1, <1>4, <1>6 DEF RowsInv
<1>8. \A b \in RowsOf(u, m) : \E i \in 1 .. Len(m.catalog) :
        /\ b = [pk |-> lastPK + i, url |-> u, album |-> m.catalog[i]]
        /\ b.url = u /\ b.album = m.catalog[i]
  BY <1>2 DEF RowsOf, Row
<1>9. albums' \subseteq [pk : 1 .. lastPK', url : Urls, album : Albums]
  <2>1. ASSUME NEW b \in RowsOf(u, m) PROVE b \in [pk : 1 .. lastPK', url : Urls, album : Albums]
    <3>1. PICK i \in 1 .. Len(m.catalog) : b = [pk |-> lastPK + i, url |-> u, album |-> m.catalog[i]]
      BY <1>8
    <3>2. lastPK + i \in 1 .. lastPK' /\ m.catalog[i] \in Albums
      BY <1>1, <1>2, <1>3
    <3>3. QED  BY <3>1, <3>2
  <2>2. 1 .. lastPK \subseteq 1 .. lastPK'
    BY <1>1, <1>2, <1>3
  <2>3. \A b \in albums : b \in [pk : 1 .. lastPK', url : Urls, album : Albums]
    BY <2>2 DEF RowsInv
  <2>4. QED  BY <1>1, <2>1, <2>3
<1>10. \A b \in albums' : b.album.id \in AlbumIds
  <2>1. ASSUME NEW b \in RowsOf(u, m) PROVE b.album.id \in AlbumIds
    BY <1>2, <1>8 DEF AlbumIds, ToSet
  <2>2. QED  BY <1>1, <2>1 DEF RowsInv
<1>11. ASSUME NEW b \in albums', NEW c \in albums', b.url = c.url, b.album.id = c.album.id
       PROVE  b = c
  <2>1. CASE b \in albums /\ c \in albums
    BY <1>11, <2>1 DEF RowsInv
  <2>2. CASE b \in RowsOf(u, m) /\ c \in RowsOf(u, m)
    <3>1. PICK i \in 1 .. Len(m.catalog) :
            b = [pk |-> lastPK + i, url |-> u, album |-> m.catalog[i]] /\ b.album = m.catalog[i]
      BY <1>8, <2>2
    <3>2. PICK j \in 1 .. Len(m.catalog) :
            c = [pk |-> lastPK + j, url |-> u, album |-> m.catalog[j]] /\ c.album = m.catalog[j]
      BY <1>8, <2>2
    <3>3. i = j
      BY <1>1, <1>2, <1>11, <3>1, <3>2 DEF Valid, UniqueIDs
    <3>4. QED  BY <3>1, <3>2, <3>3
  <2>3. QED  BY <1>1, <1>8, <1>11, <2>1, <2>2
<1>12. QED  BY <1>5, <1>7, <1>9, <1>10, <1>11 DEF RowsInv

LEMMA RowsStep ==
  ASSUME IndexInv, RowsInv, [Next]_vars
  PROVE  RowsInv'
<1>1. CASE UNCHANGED index
  BY <1>1 DEF index, RowsInv, Newest
<1>2. QED  BY <1>1, UpsertRows DEF Next, Reader, vars

-----------------------------------------------------------------------------
\* The types of the reader.

RosterAnswers == [entry : RosterEntries, verdict : Verdicts]

ReaderInv ==
  /\ pc \in {"idle", "album", "tracks", "links", "splits", "identity", "contribution",
             "roster", "artists", "done"}
  /\ pc \in ReadsAlbum => found \in AlbumsRead
  /\ found \in AlbumsRead \cup {None}
  /\ pc = "roster" => todo \in Seq(RosterEntries) /\ answer \in Seq(RosterAnswers)
  /\ pc = "artists" => todo \in Seq(RosterAnswers)
  /\ query \in Urls => answer \in Seq(RosterAnswers) \cup {None}
  /\ query = "albums" => answer \in Seq(AlbumsRead)

TableInv == ReadInv /\ RowsInv /\ ReaderInv

LEMMA ReaderStart == Init => ReaderInv
BY DEF Init, ReaderInv, ReadsAlbum

LEMMA VerdictType ==
  ASSUME NEW label, NEW entry
  PROVE  RosterVerdict(label, entry) \in Verdicts
BY DEF RosterVerdict, Verdicts

LEMMA MoreReads ==
  ASSUME lastPK \in Nat, lastPK' \in Nat, lastPK' >= lastPK
  PROVE  AlbumsRead \subseteq AlbumsRead'
<1>1. 1 .. lastPK \subseteq 1 .. lastPK'
  OBVIOUS
<1>2. QED  BY <1>1 DEF AlbumsRead

LEMMA ReadAlbumType ==
  ASSUME TableInv, UNCHANGED index, ReadAlbum
  PROVE  ReaderInv'
<1> USE DEF TableInv, ReaderInv
<1>1. /\ pc = "album" /\ query = "albums" /\ UNCHANGED <<query, answer, lastPK, albums>>
  BY DEF ReadInv, QueryInv, ReadAlbum, index
<1>2. CASE UNCHANGED <<pc, found>>
  BY <1>1, <1>2, CatalogAssumption DEF AlbumsRead, ReadsAlbum
<1>3. ASSUME NEW b \in albums,
             found' = [pk |-> b.pk, url |-> b.url, id |-> b.album.id, version |-> b.album.version,
                       tracks |-> <<>>, links |-> <<>>, splits |-> <<>>, verdicts |-> <<>>],
             pc' = "tracks"
      PROVE  ReaderInv'
  <2>1. b.pk \in 1 .. lastPK /\ b.url \in Urls /\ b.album \in Albums /\ b.album.id \in AlbumIds
    BY DEF RowsInv
  <2>2. b.album.version \in Nat \ {0}
    BY <2>1 DEF Albums
  <2>3. /\ <<>> \in Seq(STRING) /\ <<>> \in Seq(Splits) /\ <<>> \in Seq(Verdicts)
    OBVIOUS
  <2>4. found' \in AlbumsRead
    BY <1>3, <2>1, <2>2, <2>3 DEF AlbumsRead
  <2>5. AlbumsRead' = AlbumsRead
    BY <1>1 DEF AlbumsRead
  <2>6. QED  BY <1>1, <1>3, <2>4, <2>5, CatalogAssumption
<1>4. QED  BY <1>2, <1>3 DEF ReadAlbum

LEMMA PartType ==
  ASSUME TableInv, UNCHANGED index, ReadTracks \/ ReadLinks \/ ReadSplits
  PROVE  ReaderInv'
<1> USE DEF TableInv, ReaderInv
<1>1. /\ pc \in ReadsAlbum /\ pc' \in ReadsAlbum \ {"tracks"} /\ query = "albums"
      /\ UNCHANGED <<query, answer, todo, lastPK, albums>> /\ found \in AlbumsRead
  BY DEF ReadInv, QueryInv, ReadTracks, ReadLinks, ReadSplits, ReadPart, index, ReadsAlbum
<1>2. AlbumsRead' = AlbumsRead
  BY <1>1 DEF AlbumsRead
<1>3. /\ Joined("tracks", found.pk) \in Seq(STRING) /\ Joined("links", found.pk) \in Seq(STRING)
      /\ Joined("splits", found.pk) \in Seq(Splits)
  <2>1. CASE \E b \in albums : b.pk = found.pk
    <3> DEFINE b == CHOOSE b \in albums : b.pk = found.pk
    <3>1. b \in albums
      BY <2>1
    <3>2. b.album \in Albums
      BY <3>1 DEF RowsInv
    <3> HIDE DEF b
    <3>3. /\ b.album["tracks"] \in Seq(STRING) /\ b.album["links"] \in Seq(STRING)
          /\ b.album["splits"] \in Seq(Splits)
      BY <3>2 DEF Albums
    <3>4. QED  BY <2>1, <3>3 DEF Joined, b
  <2>2. CASE ~\E b \in albums : b.pk = found.pk
    BY <2>2 DEF Joined
  <2>3. QED  BY <2>1, <2>2
<1>4. found' \in AlbumsRead
  <2>1. CASE ReadTracks
    BY <1>1, <1>3, <2>1 DEF ReadTracks, ReadPart, AlbumsRead
  <2>2. CASE ReadLinks
    BY <1>1, <1>3, <2>2 DEF ReadLinks, ReadPart, AlbumsRead
  <2>3. CASE ReadSplits
    BY <1>1, <1>3, <2>3 DEF ReadSplits, ReadPart, AlbumsRead
  <2>4. QED  BY <2>1, <2>2, <2>3
<1>5. QED  BY <1>1, <1>2, <1>4, CatalogAssumption DEF ReadsAlbum

LEMMA JudgeType ==
  ASSUME TableInv, UNCHANGED index, FindConfirming \/ FindContribution
  PROVE  ReaderInv'
<1> USE DEF TableInv, ReaderInv
<1>1. /\ pc \in ReadsAlbum /\ pc' \in {"identity", "contribution"} /\ query = "albums"
      /\ UNCHANGED <<query, answer, todo, lastPK>> /\ found \in AlbumsRead
      /\ found' = found \/ \E v \in Verdicts : Judged(v)
  BY DEF ReadInv, QueryInv, FindConfirming, FindContribution, index, ReadsAlbum, Verdicts
<1>2. AlbumsRead' = AlbumsRead
  BY <1>1 DEF AlbumsRead
<1>3. found' \in AlbumsRead
  <2>1. ASSUME NEW v \in Verdicts, Judged(v) PROVE found' \in AlbumsRead
    <3>1. Append(found.verdicts, v) \in Seq(Verdicts)
      BY <1>1 DEF AlbumsRead
    <3>2. QED  BY <1>1, <2>1, <3>1 DEF Judged, AlbumsRead
  <2>2. QED  BY <1>1, <2>1
<1>4. QED  BY <1>1, <1>2, <1>3, CatalogAssumption DEF ReadsAlbum

LEMMA ReaderStep ==
  ASSUME TableInv, IndexInv', [Next]_vars
  PROVE  ReaderInv'
<1> USE DEF TableInv
<1>1. CASE UNCHANGED vars
  BY <1>1 DEF vars, index, reader, ReaderInv, AlbumsRead
<1>2. ASSUME NEW u \in Urls, UpsertManifest(u) PROVE ReaderInv'
  <2>1. UNCHANGED <<pc, query, todo, found, answer>>
    BY <1>2 DEF UpsertManifest, reader
  <2>2. AlbumsRead \subseteq AlbumsRead'
    BY <1>2, UpsertIndex, MoreReads DEF ReadInv, IndexInv
  <2>3. Seq(AlbumsRead) \subseteq Seq(AlbumsRead')
    BY <2>2
  <2>4. QED  BY <2>1, <2>2, <2>3 DEF ReaderInv
<1>3. ASSUME Reader PROVE ReaderInv'
  <2>1. UNCHANGED index /\ AlbumsRead' = AlbumsRead
    BY <1>3 DEF Reader, index, AlbumsRead
  <2>2. ASSUME \/ \E u \in Urls, id \in AlbumIds : AskAlbum(u, id)
               \/ \E scope \in {{u} : u \in Urls} \cup {Urls} : AskAlbums(scope)
        PROVE  ReaderInv'
    <3>1. pc' = "album" /\ query' = "albums" /\ found' = None /\ answer' = <<>>
      BY <2>2 DEF AskAlbum, AskAlbums, Begin
    <3>2. answer' \in Seq(AlbumsRead')
      BY <3>1
    <3>3. QED  BY <3>1, <3>2, CatalogAssumption DEF ReaderInv, ReadsAlbum
  <2>3. ASSUME NEW u \in Urls, AskRoster(u) PROVE ReaderInv'
    <3>1. rosters[u] \in Seq(RosterEntries)
      BY RowsType DEF ReadInv
    <3>2. QED  BY <2>3, <3>1, CatalogAssumption DEF AskRoster, Begin, ReaderInv, ReadsAlbum
  <2>4. CASE ReturnAlbum
    <3>1. query = "albums" /\ found \in AlbumsRead
      BY <2>4 DEF ReturnAlbum, ReadInv, QueryInv, ReaderInv, ReadsAlbum
    <3>2. Append(answer, found) \in Seq(AlbumsRead)
      BY <3>1 DEF ReaderInv
    <3>3. QED  BY <2>1, <2>4, <3>1, <3>2, CatalogAssumption DEF ReturnAlbum, ReaderInv, ReadsAlbum
  <2>5. CASE ReturnAlbums
    BY <2>1, <2>5 DEF ReturnAlbums, ReaderInv, ReadsAlbum
  <2>6. CASE VerifyRosterEntry
    <3>1. /\ pc = "roster" /\ todo \in Seq(RosterEntries) /\ todo # <<>>
          /\ answer \in Seq(RosterAnswers) /\ query \in Urls
      BY <2>6 DEF VerifyRosterEntry, ReaderInv, ReadInv, QueryInv
    <3>2. Head(todo) \in RosterEntries /\ Tail(todo) \in Seq(RosterEntries)
      BY <3>1
    <3>3. [entry |-> Head(todo), verdict |-> RosterVerdict(query, Head(todo))] \in RosterAnswers
      BY <3>2, VerdictType DEF RosterAnswers
    <3>4. answer' \in Seq(RosterAnswers)
      BY <2>6, <3>1, <3>3 DEF VerifyRosterEntry
    <3>5. QED
      BY <2>1, <2>6, <3>1, <3>2, <3>4, CatalogAssumption
         DEF VerifyRosterEntry, ReaderInv, ReadsAlbum
  <2>7. CASE ReturnRoster
    <3>1. pc = "roster" /\ answer \in Seq(RosterAnswers)
      BY <2>7 DEF ReturnRoster, ReaderInv
    <3>2. /\ pc' \in {"artists", "done"} /\ UNCHANGED <<query, found, answer>>
          /\ pc' = "artists" => todo' = answer
      BY <2>7 DEF ReturnRoster
    <3>3. QED  BY <2>1, <3>1, <3>2 DEF ReaderInv, ReadsAlbum
  <2>8. CASE ResolveArtist
    <3>1. pc = "artists" /\ todo \in Seq(RosterAnswers) /\ todo # <<>> /\ query \in Urls
      BY <2>8 DEF ResolveArtist, ReaderInv, ReadInv, QueryInv
    <3>2. Tail(todo) \in Seq(RosterAnswers) /\ <<>> \in Seq(RosterAnswers)
      BY <3>1
    <3>3. QED
      BY <2>1, <2>8, <3>1, <3>2, CatalogAssumption DEF ResolveArtist, ReaderInv, ReadsAlbum
  <2>9. CASE ReturnArtists
    BY <2>1, <2>9 DEF ReturnArtists, ReaderInv, ReadsAlbum
  <2>10. QED
    BY <1>3, <2>1, <2>2, <2>3, <2>4, <2>5, <2>6, <2>7, <2>8, <2>9, ReadAlbumType, PartType,
       JudgeType DEF Reader
<1>4. QED  BY <1>1, <1>2, <1>3 DEF Next

LEMMA TableStart == Init => TableInv
BY ReadStart, RowsStart, ReaderStart DEF TableInv

LEMMA TableStep == TableInv /\ [Next]_vars => TableInv'
BY ReadStep, RowsStep, ReaderStep DEF TableInv, ReadInv

\* The tables keep the keys and the types of the schema (0001_init.sql), and the reader its
\* types, whatever valid manifests are indexed, by way of upserts that delete and insert.
THEOREM TablesTypeCorrect == Spec => []TypeOK
<1>1. TableInv => TypeOK
  <2> SUFFICES ASSUME TableInv PROVE TypeOK
    OBVIOUS
  <2> USE DEF TableInv
  <2>1. /\ identities \in [Urls -> [label : Urls \cup {None}, split : 0 .. 100 \cup {None}] \cup {None}]
        /\ rosters \in [Urls -> Seq(RosterEntries)]
        /\ contributions \in [Urls -> Seq(Contributions)]
    BY RowsType DEF ReadInv, Affiliations
  <2>2. \A b, c \in albums : b.pk = c.pk \/ <<b.url, b.album.id>> = <<c.url, c.album.id>> => b = c
    BY DEF ReadInv, IndexInv, RowsInv
  <2>3. ASSUME NEW u \in Urls PROVE since[u] \in 0 .. Len(indexed[u])
    BY DEF ReadInv, IndexInv, QueryInv
  <2>4. QED  BY <2>1, <2>2, <2>3 DEF TypeOK, RowsInv, ReaderInv, RosterAnswers
<1>2. QED  BY <1>1, TableStart, TableStep, PTL DEF Spec

-----------------------------------------------------------------------------
\* Verdicts have their grounds.

\* The verdicts of the album b so far.
JudgedSoFar(b) ==
  /\ Len(b.verdicts) <= Len(b.splits)
  /\ \A i \in 1 .. Len(b.verdicts) : GroundsForSplit(b, b.splits[i], b.verdicts[i])

OnRoster(entry) == \E n \in Window(query) \ {0} : entry \in ToSet(indexed[query][n].roster)

GroundsForEntry(r) ==
  /\ OnRoster(r.entry)
  /\ IF r.verdict = "PENDING" THEN 0 \in Window(r.entry.artist)
     ELSE \E n \in Window(r.entry.artist) \ {0} :
            RosterRule(indexed[r.entry.artist][n], query, r.entry, r.verdict)

SplitInv ==
  /\ pc \in {"tracks", "links", "splits"} => found.verdicts = <<>>
  /\ pc \in {"identity", "contribution"} => JudgedSoFar(found)
  /\ pc = "contribution" => Len(found.verdicts) < Len(found.splits) /\ Known(Claim.party)
  /\ query = "albums" => \A b \in ToSet(answer) :
                           Len(b.verdicts) = Len(b.splits) /\ JudgedSoFar(b)

RosterInv ==
  /\ pc = "roster" => \A entry \in ToSet(todo) : OnRoster(entry)
  /\ query \in Urls /\ (pc = "roster" \/ answer # None) =>
       \A r \in ToSet(answer) : GroundsForEntry(r)

\* What holds of a time during the query goes on to hold.
LEMMA WindowGrows ==
  ASSUME TableInv, IndexInv', [Next]_vars, UNCHANGED since, NEW u \in Urls
  PROVE  \A n \in Window(u) : n \in Window(u)' /\ (n # 0 => indexed'[u][n] = indexed[u][n])
<1>1. /\ Len(indexed[u]) \in Nat /\ Len(indexed'[u]) \in Nat /\ since[u] \in Nat
  BY DEF TableInv, ReadInv, IndexInv, QueryInv
<1>2. CASE UNCHANGED indexed
  BY <1>2 DEF Window
<1>3. CASE \E w \in Urls : UpsertManifest(w)
  <2>1. /\ Len(indexed[u]) <= Len(indexed'[u])
        /\ \A n \in 1 .. Len(indexed[u]) : indexed'[u][n] = indexed[u][n]
    BY <1>3, UpsertIndex DEF TableInv, ReadInv
  <2>2. QED  BY <1>1, <2>1 DEF Window
<1>4. QED  BY <1>2, <1>3 DEF Next, Reader, vars, index

LEMMA SplitGroundsStay ==
  ASSUME TableInv, IndexInv', [Next]_vars, UNCHANGED since, NEW b, NEW s,
         s.party \in Urls, NEW v, GroundsForSplit(b, s, v)
  PROVE  GroundsForSplit(b, s, v)'
<1>1. CASE v = "PENDING"
  BY <1>1, WindowGrows DEF GroundsForSplit
<1>2. CASE v # "PENDING"
  <2>1. PICK n \in Window(s.party) \ {0} : SplitRule(indexed[s.party][n], b, s, v)
    BY <1>2 DEF GroundsForSplit
  <2>2. n \in Window(s.party)' \ {0} /\ indexed'[s.party][n] = indexed[s.party][n]
    BY <2>1, WindowGrows
  <2>3. SplitRule(indexed'[s.party][n], b, s, v)
    BY <2>1, <2>2
  <2>4. QED  BY <1>2, <2>2, <2>3 DEF GroundsForSplit, SplitRule, SaysOf, Confirms
<1>3. QED  BY <1>1, <1>2

LEMMA EntryGroundsStay ==
  ASSUME TableInv, IndexInv', [Next]_vars, UNCHANGED <<since, query>>, query \in Urls
  PROVE  /\ \A entry : OnRoster(entry) => OnRoster(entry)'
         /\ \A r : r.entry.artist \in Urls /\ GroundsForEntry(r) => GroundsForEntry(r)'
<1>1. \A u \in Urls : \A n \in Window(u) \ {0} :
        n \in Window(u)' \ {0} /\ indexed'[u][n] = indexed[u][n]
  BY WindowGrows
<1>2. ASSUME NEW entry, OnRoster(entry) PROVE OnRoster(entry)'
  BY <1>1, <1>2 DEF OnRoster
<1>3. ASSUME NEW r, r.entry.artist \in Urls, GroundsForEntry(r) PROVE GroundsForEntry(r)'
  <2>1. OnRoster(r.entry)'
    BY <1>2, <1>3 DEF GroundsForEntry
  <2>2. CASE r.verdict = "PENDING"
    BY <1>3, <2>1, <2>2, WindowGrows DEF GroundsForEntry
  <2>3. CASE r.verdict # "PENDING"
    <3>1. PICK n \in Window(r.entry.artist) \ {0} :
            RosterRule(indexed[r.entry.artist][n], query, r.entry, r.verdict)
      BY <1>3, <2>3 DEF GroundsForEntry
    <3>2. n \in Window(r.entry.artist)' \ {0}
          /\ indexed'[r.entry.artist][n] = indexed[r.entry.artist][n]
      BY <1>1, <1>3
    <3>3. RosterRule(indexed'[r.entry.artist][n], query', r.entry, r.verdict)
      BY <3>1, <3>2
    <3>4. QED  BY <2>1, <2>3, <3>2, <3>3 DEF GroundsForEntry, RosterRule
  <2>4. QED  BY <2>2, <2>3
<1>4. QED  BY <1>2, <1>3

\* The manifest that was indexed last was current during the query.
LEMMA NewestIsCurrent ==
  ASSUME TableInv, NEW u \in Urls
  PROVE  /\ Len(indexed[u]) \in Window(u)
         /\ Known(u) => Len(indexed[u]) \in Window(u) \ {0}
<1>1. Len(indexed[u]) \in Nat /\ since[u] \in Nat /\ since[u] <= Len(indexed[u])
  BY DEF TableInv, ReadInv, IndexInv, QueryInv
<1>2. QED  BY <1>1, KnownIs DEF TableInv, ReadInv, Window

\* What verifySplit finds is what the rule says of the party's newest manifest.
LEMMA PendingIsRight ==
  ASSUME TableInv, NEW b, NEW s, ~Known(s.party)
  PROVE  GroundsForSplit(b, s, "PENDING")
<1>1. CASE s.party \in Urls
  <2>1. Len(indexed[s.party]) = 0 /\ 0 \in Window(s.party)
    BY <1>1, KnownIs, NewestIsCurrent DEF TableInv, ReadInv
  <2>2. QED  BY <1>1, <2>1 DEF GroundsForSplit
<1>2. QED  BY <1>1 DEF GroundsForSplit

LEMMA ContributionIsRight ==
  ASSUME TableInv, FindContribution, Known(Claim.party)
  PROVE  \E v \in Verdicts : Judged(v) /\ GroundsForSplit(found, Claim, v)
<1> DEFINE u == Claim.party
           n == Len(indexed[u])
<1>1. u \in Urls /\ n \in Window(u) \ {0} /\ contributions[u] = indexed[u][n].contributions
  BY NewestIsCurrent, KnownIs, NewestType DEF Known, TableInv, ReadInv, Newest
<1>2. Confirmations(Claim) = SaysOf(indexed[u][n], found)
  BY <1>1 DEF Confirmations, SaysOf
<1>3. CASE Confirmations(Claim) = {} /\ Judged("UNVERIFIED")
  <2>1. GroundsForSplit(found, Claim, "UNVERIFIED")
    BY <1>1, <1>2, <1>3 DEF GroundsForSplit, SplitRule
  <2>2. QED  BY <1>3, <2>1 DEF Verdicts
<1>4. ASSUME NEW c \in Confirmations(Claim),
             Judged(IF c.role = Claim.role /\ c.pct = Claim.pct THEN "VERIFIED" ELSE "DISPUTED")
      PROVE  \E v \in Verdicts : Judged(v) /\ GroundsForSplit(found, Claim, v)
  <2>1. CASE Confirms(c, Claim)
    <3>1. Judged("VERIFIED")
      BY <1>4, <2>1 DEF Confirms
    <3>2. GroundsForSplit(found, Claim, "VERIFIED")
      BY <1>1, <1>2, <1>4, <2>1 DEF GroundsForSplit, SplitRule
    <3>3. QED  BY <3>1, <3>2 DEF Verdicts
  <2>2. CASE ~Confirms(c, Claim)
    <3>1. Judged("DISPUTED")
      BY <1>4, <2>2 DEF Confirms
    <3>2. SplitRule(indexed[u][n], found, Claim, "DISPUTED")
      <4>1. c \in SaysOf(indexed[u][n], found)
        BY <1>2, <1>4
      <4>2. CASE \A d \in SaysOf(indexed[u][n], found) : ~Confirms(d, Claim)
        BY <4>1, <4>2 DEF SplitRule
      <4>3. CASE \E d \in SaysOf(indexed[u][n], found) : Confirms(d, Claim)
        BY <2>2, <4>1, <4>3 DEF SplitRule
      <4>4. QED  BY <4>2, <4>3
    <3>3. GroundsForSplit(found, Claim, "DISPUTED")
      BY <1>1, <3>2 DEF GroundsForSplit
    <3>4. QED  BY <3>1, <3>3 DEF Verdicts
  <2>3. QED  BY <2>1, <2>2
<1>5. QED  BY <1>3, <1>4 DEF FindContribution

\* A verdict more on the album that is being judged.
LEMMA OneMoreJudged ==
  ASSUME TableInv, IndexInv', [Next]_vars, UNCHANGED since, found \in AlbumsRead,
         JudgedSoFar(found), Len(found.verdicts) < Len(found.splits),
         NEW v \in Verdicts, Judged(v), GroundsForSplit(found, Claim, v)
  PROVE  JudgedSoFar(found)'
<1> DEFINE k == Len(found.verdicts)
<1>1. /\ found.verdicts \in Seq(Verdicts) /\ found.splits \in Seq(Splits) /\ k \in Nat
      /\ Len(found.splits) \in Nat
  BY DEF AlbumsRead
<1>2. /\ found'.verdicts = Append(found.verdicts, v) /\ found'.splits = found.splits
      /\ found'.url = found.url /\ found'.id = found.id /\ found'.version = found.version
  BY DEF Judged, AlbumsRead
<1>3. /\ Len(found'.verdicts) = k + 1 /\ found'.verdicts[k + 1] = v
      /\ \A i \in 1 .. k : found'.verdicts[i] = found.verdicts[i] /\ found.verdicts[i] \in Verdicts
  BY <1>1, <1>2
<1>4. ASSUME NEW s \in Splits, NEW w, GroundsForSplit(found, s, w)
      PROVE  GroundsForSplit(found, s, w)'
  <2>1. PICK b : b = found
    OBVIOUS
  <2>2. GroundsForSplit(b, s, w)'
    BY <1>4, <2>1, SplitGroundsStay DEF Splits
  <2>3. \A m : SaysOf(m, b) = SaysOf(m, found)'
    BY <1>2, <2>1 DEF SaysOf
  <2>4. \A m : SplitRule(m, b, s, w) <=> SplitRule(m, found, s, w)'
    BY <2>3 DEF SplitRule, Confirms
  <2>5. QED  BY <2>2, <2>4 DEF GroundsForSplit
<1>5. ASSUME NEW i \in 1 .. (k + 1)
      PROVE  GroundsForSplit(found, found.splits[i], found.verdicts[i])'
  <2>1. CASE i \in 1 .. k
    <3>1. GroundsForSplit(found, found.splits[i], found.verdicts[i])
      BY <2>1 DEF JudgedSoFar
    <3>2. PICK s \in Splits : s = found.splits[i]
      BY <1>1, <2>1
    <3>3. PICK w : w = found.verdicts[i]
      OBVIOUS
    <3>4. GroundsForSplit(found, s, w)'
      BY <1>4, <3>1, <3>2, <3>3
    <3>5. found'.splits[i] = s /\ found'.verdicts[i] = w
      BY <1>2, <1>3, <2>1, <3>2, <3>3
    <3>6. QED  BY <3>4, <3>5 DEF GroundsForSplit, SplitRule, SaysOf, Confirms
  <2>2. CASE i = k + 1
    <3>1. PICK s \in Splits : s = Claim
      BY <1>1 DEF Claim
    <3>2. GroundsForSplit(found, s, v)'
      BY <1>4, <3>1
    <3>3. found'.splits[i] = s /\ found'.verdicts[i] = v
      BY <1>2, <1>3, <2>2, <3>1 DEF Claim
    <3>4. QED  BY <3>2, <3>3 DEF GroundsForSplit, SplitRule, SaysOf, Confirms
  <2>3. QED  BY <1>1, <2>1, <2>2
<1>6. QED  BY <1>1, <1>2, <1>3, <1>5 DEF JudgedSoFar

LEMMA JudgedStays ==
  ASSUME TableInv, IndexInv', [Next]_vars, UNCHANGED since, NEW b \in AlbumsRead, JudgedSoFar(b)
  PROVE  JudgedSoFar(b)'
<1>1. \A i \in 1 .. Len(b.verdicts) : b.splits[i].party \in Urls
  <2>1. b.verdicts \in Seq(Verdicts) /\ b.splits \in Seq(Splits)
    BY DEF AlbumsRead
  <2>2. \A i \in 1 .. Len(b.verdicts) : b.splits[i] \in Splits
    BY <2>1 DEF JudgedSoFar
  <2>3. QED  BY <2>2 DEF Splits
<1>2. \A i \in 1 .. Len(b.verdicts) : GroundsForSplit(b, b.splits[i], b.verdicts[i])'
  BY <1>1, SplitGroundsStay DEF JudgedSoFar
<1>3. QED  BY <1>2 DEF JudgedSoFar

\* The album that is being read keeps what holds of it while it is unchanged.
LEMMA FoundJudgedStays ==
  ASSUME TableInv, IndexInv', [Next]_vars, UNCHANGED <<since, found>>, found \in AlbumsRead,
         JudgedSoFar(found)
  PROVE  JudgedSoFar(found)'
<1>1. PICK b \in AlbumsRead : b = found
  OBVIOUS
<1>2. JudgedSoFar(b)'
  BY <1>1, JudgedStays
<1>3. found' = b
  BY <1>1
<1>4. \A m : SaysOf(m, b) = SaysOf(m, found)'
  BY <1>3 DEF SaysOf
<1>5. \A s, w : GroundsForSplit(b, s, w)' => GroundsForSplit(found, s, w)'
  <2>1. \A m, s, w : SplitRule(m, b, s, w) <=> SplitRule(m, found, s, w)'
    BY <1>4 DEF SplitRule, Confirms
  <2>2. QED  BY <2>1 DEF GroundsForSplit
<1>6. QED  BY <1>2, <1>3, <1>5 DEF JudgedSoFar

AnswersJudged == query = "albums" => \A b \in ToSet(answer) :
                                       Len(b.verdicts) = Len(b.splits) /\ JudgedSoFar(b)

LEMMA AnswersJudgedStay ==
  ASSUME TableInv, IndexInv', [Next]_vars, UNCHANGED <<since, query, answer>>, AnswersJudged
  PROVE  AnswersJudged'
<1> SUFFICES ASSUME query = "albums", NEW b \in ToSet(answer)
             PROVE  Len(b.verdicts) = Len(b.splits) /\ JudgedSoFar(b)'
  BY DEF AnswersJudged, ToSet
<1>1. b \in AlbumsRead
  BY DEF TableInv, ReaderInv, ToSet
<1>2. QED  BY <1>1, JudgedStays DEF AnswersJudged

\* Identities are never deleted.
LEMMA KnownStays ==
  ASSUME [Next]_vars, TableInv, NEW ref, Known(ref)
  PROVE  Known(ref)'
<1>1. CASE UNCHANGED index
  BY <1>1 DEF Known, index
<1>2. ASSUME NEW u \in Urls, UpsertManifest(u) PROVE Known(ref)'
  <2>1. PICK m \in Published[u] :
          identities' = [identities EXCEPT ![u] = [label |-> m.label, split |-> m.split]]
    BY <1>2 DEF UpsertManifest
  <2>2. m \in Manifests
    BY CatalogAssumption
  <2>3. [label |-> m.label, split |-> m.split] \in Affiliations /\ None \notin Affiliations
    BY <2>2, CatalogAssumption DEF Manifests, Affiliations
  <2>4. QED  BY <2>1, <2>3 DEF Known, TableInv, RowsInv
<1>3. QED  BY <1>1, <1>2 DEF Next, Reader, vars

LEMMA SplitStart == Init => SplitInv
<1> SUFFICES ASSUME Init PROVE SplitInv
  OBVIOUS
<1>1. pc = "idle" /\ query = None /\ answer = <<>>
  BY DEF Init
<1>2. ToSet(answer) = {}
  BY <1>1 DEF ToSet
<1>3. QED  BY <1>1, <1>2 DEF SplitInv

\* A step that leaves the reader alone.
LEMMA SplitWaits ==
  ASSUME TableInv, SplitInv, IndexInv', [Next]_vars, UNCHANGED reader
  PROVE  SplitInv'
<1>1. UNCHANGED <<pc, query, found, answer, since>>
  BY DEF reader
<1>2. pc \in {"identity", "contribution"} => JudgedSoFar(found)'
  BY <1>1, FoundJudgedStays DEF SplitInv, TableInv, ReaderInv, ReadsAlbum
<1>3. AnswersJudged'
  BY <1>1, AnswersJudgedStay DEF SplitInv, AnswersJudged
<1>4. pc = "contribution" => Len(found'.verdicts) < Len(found'.splits) /\ Known(Claim.party)'
  <2> SUFFICES ASSUME pc = "contribution"
               PROVE  Len(found'.verdicts) < Len(found'.splits) /\ Known(Claim.party)'
    OBVIOUS
  <2>1. PICK ref : ref = Claim.party
    OBVIOUS
  <2>2. Known(ref)'
    BY <2>1, KnownStays DEF SplitInv
  <2>3. Claim' = Claim
    BY <1>1 DEF Claim
  <2>4. QED  BY <1>1, <2>1, <2>2, <2>3 DEF SplitInv, Known
<1>5. QED  BY <1>1, <1>2, <1>3, <1>4 DEF SplitInv, AnswersJudged

LEMMA SplitStep ==
  ASSUME TableInv, SplitInv, TableInv', [Next]_vars
  PROVE  SplitInv'
<1>0. IndexInv'
  BY DEF TableInv, ReadInv
<1>1. CASE UNCHANGED reader
  BY <1>0, <1>1, SplitWaits
<1>2. ASSUME NEW q, NEW next, NEW keys, Begin(q, next, keys), next \in {"album", "roster"}
      PROVE  SplitInv'
  <2>1. pc' \in {"album", "roster"} /\ answer' = <<>>
    BY <1>2 DEF Begin
  <2>2. ToSet(answer') = {}
    BY <2>1 DEF ToSet
  <2>3. QED  BY <2>1, <2>2 DEF SplitInv, ToSet
<1>3. ASSUME Reader, UNCHANGED <<query, answer, since>> PROVE AnswersJudged'
  BY <1>0, <1>3, AnswersJudgedStay DEF SplitInv, AnswersJudged
<1>4. CASE Reader /\ ReadAlbum
  <2>1. AnswersJudged'
    BY <1>3, <1>4 DEF ReadAlbum
  <2>2. pc' = "album" \/ (pc' = "tracks" /\ found'.verdicts = <<>>)
    BY <1>4 DEF ReadAlbum
  <2>3. QED  BY <2>1, <2>2 DEF SplitInv, AnswersJudged
<1>5. CASE Reader /\ (ReadTracks \/ ReadLinks \/ ReadSplits)
  <2>1. AnswersJudged' /\ pc \in {"tracks", "links", "splits"}
    BY <1>3, <1>5 DEF ReadTracks, ReadLinks, ReadSplits, ReadPart
  <2>2. found \in AlbumsRead /\ found.verdicts = <<>>
    BY <2>1 DEF SplitInv, TableInv, ReaderInv, ReadsAlbum
  <2>3. found'.verdicts = <<>> /\ pc' \in {"links", "splits", "identity"}
    BY <1>5, <2>2 DEF ReadTracks, ReadLinks, ReadSplits, ReadPart, AlbumsRead
  <2>4. pc' = "identity" => JudgedSoFar(found)'
    <3>1. ASSUME pc' = "identity" PROVE found' \in AlbumsRead'
      BY <3>1 DEF TableInv, ReaderInv, ReadsAlbum
    <3>2. ASSUME pc' = "identity" PROVE Len(found'.splits) \in Nat
      BY <3>1, <3>2 DEF AlbumsRead
    <3>3. QED  BY <2>3, <3>2 DEF JudgedSoFar
  <2>5. QED  BY <2>1, <2>3, <2>4 DEF SplitInv, AnswersJudged
<1>6. CASE Reader /\ FindConfirming
  <2>1. /\ AnswersJudged' /\ pc = "identity" /\ UNCHANGED since /\ UNCHANGED index
        /\ found \in AlbumsRead /\ JudgedSoFar(found) /\ Len(found.verdicts) < Len(found.splits)
    BY <1>3, <1>6 DEF FindConfirming, SplitInv, TableInv, ReaderInv, ReadsAlbum, Reader
  <2>2. CASE Known(Claim.party) /\ pc' = "contribution" /\ UNCHANGED found
    <3>1. JudgedSoFar(found)'
      BY <1>0, <2>1, <2>2, FoundJudgedStays
    <3>2. Known(Claim.party)' /\ Len(found'.verdicts) < Len(found'.splits)
      BY <2>1, <2>2 DEF Known, Claim, index
    <3>3. QED  BY <2>1, <2>2, <3>1, <3>2 DEF SplitInv, AnswersJudged
  <2>3. CASE ~Known(Claim.party) /\ Judged("PENDING") /\ UNCHANGED pc
    <3>1. GroundsForSplit(found, Claim, "PENDING") /\ "PENDING" \in Verdicts
      BY <2>3, PendingIsRight DEF Verdicts
    <3>2. JudgedSoFar(found)'
      BY <1>0, <2>1, <2>3, <3>1, OneMoreJudged
    <3>3. QED  BY <2>1, <2>3, <3>2 DEF SplitInv, AnswersJudged
  <2>4. QED  BY <1>6, <2>2, <2>3 DEF FindConfirming
<1>7. CASE Reader /\ FindContribution
  <2>1. /\ AnswersJudged' /\ pc = "contribution" /\ pc' = "identity" /\ UNCHANGED since
        /\ found \in AlbumsRead /\ JudgedSoFar(found) /\ Len(found.verdicts) < Len(found.splits)
        /\ Known(Claim.party)
    BY <1>3, <1>7 DEF FindContribution, SplitInv, TableInv, ReaderInv, ReadsAlbum
  <2>2. PICK v \in Verdicts : Judged(v) /\ GroundsForSplit(found, Claim, v)
    BY <1>7, <2>1, ContributionIsRight
  <2>3. JudgedSoFar(found)'
    BY <1>0, <2>1, <2>2, OneMoreJudged
  <2>4. QED  BY <2>1, <2>3 DEF SplitInv, AnswersJudged
<1>8. CASE Reader /\ ReturnAlbum
  <2>1. /\ pc = "identity" /\ pc' = "album" /\ query = "albums" /\ UNCHANGED <<query, found, since>>
        /\ answer' = Append(answer, found) /\ Len(found.verdicts) = Len(found.splits)
        /\ found \in AlbumsRead /\ JudgedSoFar(found) /\ answer \in Seq(ToSet(answer))
    BY <1>8 DEF ReturnAlbum, SplitInv, TableInv, ReadInv, QueryInv, AnswerInv, ReaderInv, ReadsAlbum
  <2>2. ToSet(answer') = ToSet(answer) \cup {found}
    BY <2>1, AppendedTo
  <2>3. ASSUME NEW b \in ToSet(answer') PROVE Len(b.verdicts) = Len(b.splits) /\ JudgedSoFar(b)'
    <3>1. b \in AlbumsRead
      BY <2>1, <2>2 DEF TableInv, ReaderInv, ToSet
    <3>2. Len(b.verdicts) = Len(b.splits) /\ JudgedSoFar(b)
      BY <2>1, <2>2 DEF SplitInv
    <3>3. QED  BY <1>0, <2>1, <3>1, <3>2, JudgedStays
  <2>4. QED  BY <2>1, <2>3 DEF SplitInv, ToSet
<1>9. CASE Reader /\ (ReturnAlbums \/ VerifyRosterEntry \/ ReturnRoster \/ ResolveArtist \/ ReturnArtists)
  <2>1. /\ pc' \in {"roster", "artists", "done"} /\ UNCHANGED <<query, since>>
        /\ query \in Urls \/ UNCHANGED answer
    BY <1>9 DEF ReturnAlbums, VerifyRosterEntry, ReturnRoster, ResolveArtist, ReturnArtists, TableInv,
                ReadInv, QueryInv
  <2>2. CASE query \in Urls
    BY <2>1, <2>2, CatalogAssumption DEF SplitInv
  <2>3. CASE UNCHANGED answer
    <3>1. AnswersJudged'
      BY <1>3, <1>9, <2>1, <2>3
    <3>2. QED  BY <2>1, <3>1 DEF SplitInv, AnswersJudged
  <2>4. QED  BY <2>1, <2>2, <2>3
<1>10. CASE Reader
  BY <1>2, <1>4, <1>5, <1>6, <1>7, <1>8, <1>9, <1>10 DEF Reader, AskAlbum, AskAlbums, AskRoster
<1>11. CASE \E u \in Urls : UpsertManifest(u)
  BY <1>1, <1>11 DEF UpsertManifest
<1>12. QED  BY <1>1, <1>10, <1>11 DEF Next, vars

\* Every split of every album in an answer was claimed by the owner's manifest, and its
\* verdict is what the rule gives for one of the other party's, both current during the query,
\* whatever was indexed between its statements (query.go:345-398).
THEOREM SplitsAreJudged == Spec => []SplitVerdictHasGrounds
<1>1. ASSUME TableInv, SplitInv PROVE SplitVerdictHasGrounds
  <2> SUFFICES ASSUME pc = "done", query = "albums", NEW b \in ToSet(answer)
               PROVE  /\ Len(b.verdicts) = Len(b.splits)
                      /\ \A i \in DOMAIN b.splits :
                           /\ \E a \in Sources(b) : b.splits[i] \in ToSet(a.splits)
                           /\ GroundsForSplit(b, b.splits[i], b.verdicts[i])
    BY DEF SplitVerdictHasGrounds, AlbumsAnswered
  <2>1. Len(b.verdicts) = Len(b.splits) /\ JudgedSoFar(b)
    BY <1>1 DEF SplitInv
  <2>2. b.splits \in Seq(Splits)
    <3>1. b \in AlbumsRead
      BY <1>1 DEF TableInv, ReaderInv, ToSet
    <3>2. QED  BY <3>1 DEF AlbumsRead
  <2>3. DOMAIN b.splits = 1 .. Len(b.verdicts)
    BY <2>1, <2>2
  <2>4. PICK a \in Sources(b) : b.splits \in {a.splits, <<>>}
    <3>1. AlbumPartsOfOneManifest
      BY <1>1 DEF TableInv, ReadInv, AnswerInv, IsOneAlbum, AlbumsAnswered, AlbumPartsOfOneManifest
    <3>2. QED  BY <3>1 DEF AlbumPartsOfOneManifest, AlbumsAnswered
  <2>5. \A i \in DOMAIN b.splits : b.splits[i] \in ToSet(a.splits)
    BY <2>4 DEF ToSet
  <2>6. QED  BY <2>1, <2>3, <2>4, <2>5 DEF JudgedSoFar
<1>2. TableInv /\ SplitInv /\ [Next]_vars => TableInv' /\ SplitInv'
  BY TableStep, SplitStep
<1>3. QED  BY <1>1, <1>2, TableStart, SplitStart, PTL DEF Spec

-----------------------------------------------------------------------------
\* The rows of label_rosters are those of the label's newest manifest.
LEMMA ListedIsCurrent ==
  ASSUME TableInv, NEW u \in Urls, AskRoster(u), UNCHANGED index, NEW entry \in ToSet(rosters[u])
  PROVE  OnRoster(entry)'
<1> DEFINE n == Len(indexed[u])
<1>1. n # 0 /\ n \in Nat \ {0} /\ rosters[u] = indexed[u][n].roster
  BY KnownIs, NewestType DEF AskRoster, TableInv, ReadInv, Newest
<1>2. query' = u /\ since' = [w \in Urls |-> Len(indexed[w])] /\ indexed' = indexed
  BY DEF AskRoster, Begin, index
<1>3. n \in Window(u)' \ {0}
  BY <1>1, <1>2 DEF Window
<1>4. QED  BY <1>1, <1>2, <1>3 DEF OnRoster

\* What RosterForLabel finds is what the rule says of the artist's newest manifest.
LEMMA RosterVerdictIsRight ==
  ASSUME TableInv, query \in Urls, NEW entry \in RosterEntries, OnRoster(entry)
  PROVE  GroundsForEntry([entry |-> entry, verdict |-> RosterVerdict(query, entry)])
<1> DEFINE u == entry.artist
           n == Len(indexed[u])
           v == RosterVerdict(query, entry)
<1>1. u \in Urls /\ entry.split \in 0 .. 100
  BY DEF RosterEntries
<1>2. CASE ~Known(u)
  <2>1. v = "PENDING"
    BY <1>2 DEF RosterVerdict
  <2>2. n = 0 /\ n \in Window(u)
    BY <1>1, <1>2, KnownIs, NewestIsCurrent DEF TableInv, ReadInv
  <2>3. QED  BY <2>1, <2>2 DEF GroundsForEntry
<1>3. CASE Known(u)
  <2>1. n \in Window(u) \ {0} /\ n # 0
    BY <1>1, <1>3, NewestIsCurrent
  <2>2. identities[u].label = indexed[u][n].label /\ identities[u].split = indexed[u][n].split
    BY <1>1, <2>1, NewestType DEF TableInv, ReadInv, Newest
  <2>3. v # "PENDING" /\ RosterRule(indexed[u][n], query, entry, v)
    <3> USE <1>3, <2>2
    <3>1. CASE identities[u].label # query \/ identities[u].split = None
      BY <3>1 DEF RosterVerdict, RosterRule
    <3>2. CASE identities[u].label = query /\ identities[u].split = entry.split
      BY <1>1, <3>2, CatalogAssumption DEF RosterVerdict, RosterRule
    <3>3. CASE identities[u].label = query /\ identities[u].split \notin {entry.split, None}
      BY <3>3 DEF RosterVerdict, RosterRule
    <3>4. QED  BY <3>1, <3>2, <3>3
  <2>4. QED  BY <2>1, <2>3 DEF GroundsForEntry
<1>4. QED  BY <1>2, <1>3

AnswersGrounded ==
  query \in Urls /\ (pc = "roster" \/ answer # None) => \A r \in ToSet(answer) : GroundsForEntry(r)

LEMMA AnswersGroundedStay ==
  ASSUME TableInv, IndexInv', [Next]_vars, UNCHANGED <<since, query, answer>>, AnswersGrounded,
         pc' = "roster" => pc = "roster"
  PROVE  AnswersGrounded'
<1> SUFFICES ASSUME query \in Urls, pc = "roster" \/ answer # None, NEW r \in ToSet(answer)
             PROVE  GroundsForEntry(r)'
  BY DEF AnswersGrounded, ToSet
<1>1. r \in RosterAnswers
  BY DEF TableInv, ReaderInv, ToSet
<1>2. r.entry.artist \in Urls
  BY <1>1 DEF RosterAnswers, RosterEntries
<1>3. QED  BY <1>2, EntryGroundsStay DEF AnswersGrounded

LEMMA RosterStart == Init => RosterInv
BY CatalogAssumption DEF Init, RosterInv

LEMMA RosterStep ==
  ASSUME TableInv, RosterInv, TableInv', [Next]_vars
  PROVE  RosterInv'
<1>0. IndexInv'
  BY DEF TableInv, ReadInv
<1>1. CASE UNCHANGED reader
  <2>1. UNCHANGED <<pc, query, todo, answer, since>>
    BY <1>1 DEF reader
  <2>2. AnswersGrounded'
    BY <1>0, <2>1, AnswersGroundedStay DEF RosterInv, AnswersGrounded
  <2>3. pc' = "roster" => \A entry \in ToSet(todo)' : OnRoster(entry)'
    BY <1>0, <2>1, EntryGroundsStay DEF RosterInv, TableInv, ReadInv, QueryInv, ToSet
  <2>4. QED  BY <2>2, <2>3 DEF RosterInv, AnswersGrounded
<1>2. ASSUME Reader, \/ \E u \in Urls, id \in AlbumIds : AskAlbum(u, id)
                     \/ \E scope \in {{u} : u \in Urls} \cup {Urls} : AskAlbums(scope)
      PROVE  RosterInv'
  BY <1>2, CatalogAssumption DEF AskAlbum, AskAlbums, Begin, RosterInv
<1>3. ASSUME Reader, NEW u \in Urls, AskRoster(u) PROVE RosterInv'
  <2>1. todo' = rosters[u] /\ answer' = <<>> /\ UNCHANGED index
    BY <1>3 DEF AskRoster, Begin, Reader
  <2>2. \A entry \in ToSet(todo)' : OnRoster(entry)'
    BY <1>3, <2>1, ListedIsCurrent DEF ToSet
  <2>3. ToSet(answer)' = {}
    BY <2>1 DEF ToSet
  <2>4. QED  BY <2>2, <2>3 DEF RosterInv
<1>4. CASE Reader /\ VerifyRosterEntry
  <2>1. /\ pc = "roster" /\ query \in Urls /\ UNCHANGED <<pc, query, since>> /\ todo # <<>>
        /\ todo \in Seq(RosterEntries) /\ answer \in Seq(RosterAnswers)
        /\ todo' = Tail(todo)
        /\ answer' = Append(answer, [entry |-> Head(todo), verdict |-> RosterVerdict(query, Head(todo))])
    BY <1>4 DEF VerifyRosterEntry, TableInv, ReadInv, QueryInv, ReaderInv
  <2>2. Head(todo) \in RosterEntries /\ Head(todo) \in ToSet(todo) /\ ToSet(Tail(todo)) \subseteq ToSet(todo)
    BY <2>1 DEF ToSet
  <2>3. \A entry \in ToSet(todo)' : OnRoster(entry)'
    BY <1>0, <2>1, <2>2, EntryGroundsStay DEF RosterInv, ToSet
  <2> DEFINE new == [entry |-> Head(todo), verdict |-> RosterVerdict(query, Head(todo))]
  <2>4. GroundsForEntry(new)
    BY <2>1, <2>2, RosterVerdictIsRight DEF RosterInv
  <2>5. new \in RosterAnswers
    BY <2>2, VerdictType DEF RosterAnswers
  <2>6. ToSet(answer') = ToSet(answer) \cup {new}
    <3>1. answer \in Seq(ToSet(answer))
      BY <2>1 DEF ToSet
    <3>2. answer' = Append(answer, new)
      BY <2>1
    <3>3. QED  BY <3>1, <3>2, AppendedTo
  <2>7. ASSUME NEW r \in ToSet(answer') PROVE GroundsForEntry(r)'
    <3>1. r \in RosterAnswers
      BY <2>1, <2>5, <2>6 DEF ToSet
    <3>2. r.entry.artist \in Urls
      BY <3>1 DEF RosterAnswers, RosterEntries
    <3>3. GroundsForEntry(r)
      BY <2>1, <2>4, <2>6 DEF RosterInv
    <3>4. QED  BY <1>0, <2>1, <3>2, <3>3, EntryGroundsStay
  <2>8. QED  BY <2>3, <2>7 DEF RosterInv, ToSet
<1>5. CASE Reader /\ (ReadAlbum \/ ReadTracks \/ ReadLinks \/ ReadSplits \/ FindConfirming
                     \/ FindContribution \/ ReturnAlbum \/ ReturnAlbums)
  <2>1. query = "albums" /\ query' = query /\ pc' # "roster"
    BY <1>5 DEF ReadAlbum, ReadTracks, ReadLinks, ReadSplits, ReadPart, FindConfirming,
                FindContribution, ReturnAlbum, ReturnAlbums, TableInv, ReadInv, QueryInv, ReadsAlbum
  <2>2. QED  BY <2>1, CatalogAssumption DEF RosterInv
<1>6. CASE Reader /\ (ReturnRoster \/ ResolveArtist \/ ReturnArtists)
  <2>1. /\ pc' # "roster" /\ UNCHANGED <<query, since>>
        /\ answer' = None \/ UNCHANGED answer
    BY <1>6 DEF ReturnRoster, ResolveArtist, ReturnArtists
  <2>2. CASE answer' = None
    BY <2>1, <2>2 DEF RosterInv
  <2>3. CASE UNCHANGED answer
    <3>1. AnswersGrounded'
      BY <1>0, <2>1, <2>3, AnswersGroundedStay DEF RosterInv, AnswersGrounded
    <3>2. QED  BY <2>1, <3>1 DEF RosterInv, AnswersGrounded
  <2>4. QED  BY <2>1, <2>2, <2>3
<1>7. CASE Reader
  BY <1>2, <1>3, <1>4, <1>5, <1>6, <1>7 DEF Reader
<1>8. CASE \E u \in Urls : UpsertManifest(u)
  BY <1>1, <1>8 DEF UpsertManifest
<1>9. QED  BY <1>1, <1>7, <1>8 DEF Next, vars

\* An entry of an answered roster was on the label's roster during the query, and each of the
\* four verdicts is what the rule gives for the artist's own manifest, or for its absence,
\* during the query (query.go:184-234).
THEOREM RosterIsJudged == Spec => []RosterVerdictHasGrounds
<1>1. ASSUME TableInv, RosterInv PROVE RosterVerdictHasGrounds
  BY <1>1 DEF RosterVerdictHasGrounds, RosterAnswered, RosterInv, GroundsForEntry, OnRoster
<1>2. TableInv /\ RosterInv /\ [Next]_vars => TableInv' /\ RosterInv'
  BY TableStep, RosterStep
<1>3. QED  BY <1>1, <1>2, TableStart, RosterStart, PTL DEF Spec
=============================================================================
