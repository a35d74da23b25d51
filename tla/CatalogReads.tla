---------------------------- MODULE CatalogReads ----------------------------
(***************************************************************************)
(* The reads of the index that answer the catalog server's GraphQL queries *)
(* (api/internal/store/query.go, api/internal/graphqlapi) against the      *)
(* upserts of the crawler (api/internal/store/store.go).                   *)
(*                                                                         *)
(* An upsert is one transaction that replaces all rows of an identity.  A  *)
(* read is several statements without a transaction, and each statement    *)
(* sees what is committed when it runs.  Reads change nothing, so one      *)
(* reader stands for any number of them.                                   *)
(*                                                                         *)
(* A manifest is reduced to what the joins depend on.  Since the two parts *)
(* of a split between artist and label sum to 100, the artist's stands for *)
(* both.  Names, dates and presentation travel with the album row.         *)
(***************************************************************************)
EXTENDS Integers, Sequences, FiniteSets, SequencesExt

CONSTANTS
  Urls,        \* values of identity.url
  Published,   \* Published[u]: the manifests that u may publish
  MaxUpserts,  \* bound: MaxUpserts[u], how often u is indexed
  None

\* A manifest refers to another party by its identity.url, which need not be indexed.
Splits        == [party : Urls, role : STRING, pct : 0 .. 100]
Contributions == [party : Urls, album : STRING, version : Nat \ {0}, role : STRING, pct : 0 .. 100]
Albums        == [id : STRING, version : Nat \ {0}, tracks : Seq(STRING), links : Seq(STRING),
                  splits : Seq(Splits)]
RosterEntries == [artist : Urls, split : 0 .. 100]
Manifests     == [label : Urls \cup {None}, split : 0 .. 100 \cup {None},
                  roster : Seq(RosterEntries), contributions : Seq(Contributions),
                  catalog : Seq(Albums)]

ASSUME CatalogAssumption ==
  /\ \A u \in Urls : Published[u] \subseteq Manifests
  /\ MaxUpserts \in [Urls -> Nat]
  /\ None \notin Urls /\ None \notin 0 .. 100
  /\ None \notin [label : Urls \cup {None}, split : 0 .. 100 \cup {None}]
  /\ "albums" \notin Urls

VARIABLES
  identities,     \* identities[u]: the affiliation in the row of u, or None
  rosters,        \* rosters[u]: the rows of label_rosters for u, by id
  contributions,  \* contributions[u]: the rows of contributions for u, by id
  albums,         \* the rows of albums, with those that refer to each by album_pk
  lastPK,         \* the sequence behind albums.id
  indexed,        \* indexed[u]: history, the manifests of u that were indexed
  pc,             \* the next statement of the reader
  query,          \* what the reader was asked
  todo,           \* what it has yet to look up
  found,          \* the album that it is putting together
  answer,         \* what it has put together so far
  since           \* since[u]: history, Len(indexed[u]) when the query began

index  == <<identities, rosters, contributions, albums, lastPK, indexed>>
reader == <<pc, query, todo, found, answer, since>>
vars   == <<index, reader>>

Init ==
  /\ identities = [u \in Urls |-> None]
  /\ rosters = [u \in Urls |-> <<>>]
  /\ contributions = [u \in Urls |-> <<>>]
  /\ albums = {}
  /\ lastPK = 0
  /\ indexed = [u \in Urls |-> <<>>]
  /\ pc = "idle" /\ query = None /\ todo = <<>> /\ found = None /\ answer = <<>>
  /\ since = [u \in Urls |-> 0]

-----------------------------------------------------------------------------
\* The validator's checks on the catalog of one manifest.

SumOfSplits(a) == FoldLeft(LAMBDA sum, s : sum + s.pct, 0, a.splits)

SplitsSumTo100(m) ==
  \A a \in ToSet(m.catalog) : a.splits # <<>> => SumOfSplits(a) = 100

UniqueIDs(m) ==
  /\ \A i, j \in DOMAIN m.catalog : i # j => m.catalog[i].id # m.catalog[j].id
  /\ \A i, j \in DOMAIN m.catalog :
       \A k \in DOMAIN m.catalog[i].tracks, l \in DOMAIN m.catalog[j].tracks :
         <<i, k>> # <<j, l>> => m.catalog[i].tracks[k] # m.catalog[j].tracks[l]

\* Mutant: album ids are not compared.
ValidByPercentage(m) == SplitsSumTo100(m)

Valid(m) == SplitsSumTo100(m) /\ UniqueIDs(m)

-----------------------------------------------------------------------------
\* The writer.

Row(pk, u, a) == [pk |-> pk, url |-> u, album |-> a]

\* Mutant: an album that is already indexed keeps its row.
RowsOfReused(u, m) ==
  {Row(IF \E b \in albums : b.url = u /\ b.album.id = m.catalog[i].id
       THEN (CHOOSE b \in albums : b.url = u /\ b.album.id = m.catalog[i].id).pk
       ELSE lastPK + i, u, m.catalog[i]) : i \in DOMAIN m.catalog}

RowsOf(u, m) == {Row(lastPK + i, u, m.catalog[i]) : i \in DOMAIN m.catalog}

UpsertManifest(u) ==
  /\ Len(indexed[u]) < MaxUpserts[u]
  /\ \E m \in Published[u] :
       /\ Valid(m)
       /\ identities' = [identities EXCEPT ![u] = [label |-> m.label, split |-> m.split]]
       /\ rosters' = [rosters EXCEPT ![u] = m.roster]
       /\ contributions' = [contributions EXCEPT ![u] = m.contributions]
       /\ albums' = {b \in albums : b.url # u} \cup RowsOf(u, m)
       /\ lastPK' = lastPK + Len(m.catalog)
       /\ indexed' = [indexed EXCEPT ![u] = Append(@, m)]
  /\ UNCHANGED reader

-----------------------------------------------------------------------------
\* The reader.  Each action is one statement, or the return of the query.

Known(ref) == ref \in Urls /\ identities[ref] # None

Begin(q, next, keys) ==
  /\ pc \in {"idle", "done"}
  /\ pc' = next /\ query' = q /\ todo' = keys
  /\ found' = None /\ answer' = <<>>
  /\ since' = [u \in Urls |-> Len(indexed[u])]

\* The query "album" names its album; "albums", of one artist or of all, lists them first.
AskAlbum(u, id) ==
  Begin("albums", "album", <<[url |-> u, id |-> id]>>)

AskAlbums(scope) ==
  LET listed == {[url |-> b.url, id |-> b.album.id] : b \in {c \in albums : c.url \in scope}} IN
  Begin("albums", "album", SetToSeq(listed))

\* GetAlbum.  An album that is gone is left out of the answer.
ReadAlbum ==
  /\ pc = "album" /\ todo # <<>>
  /\ LET rows == {b \in albums : b.url = Head(todo).url /\ b.album.id = Head(todo).id} IN
     \/ /\ rows = {}
        /\ todo' = Tail(todo)
        /\ UNCHANGED <<pc, found>>
     \/ \E b \in rows :
          /\ found' = [pk |-> b.pk, url |-> b.url, id |-> b.album.id, version |-> b.album.version,
                       tracks |-> <<>>, links |-> <<>>, splits |-> <<>>, verdicts |-> <<>>]
          /\ pc' = "tracks"
          /\ UNCHANGED todo
  /\ UNCHANGED <<query, answer, since>>

\* The rows that refer to an album; none are left once its own row is deleted.
Joined(part, pk) ==
  IF \E b \in albums : b.pk = pk THEN (CHOOSE b \in albums : b.pk = pk).album[part] ELSE <<>>

ReadPart(part, next) ==
  /\ pc = part
  /\ found' = [found EXCEPT ![part] = Joined(part, found.pk)]
  /\ pc' = next
  /\ UNCHANGED <<query, todo, answer, since>>

ReadTracks == ReadPart("tracks", "links")
ReadLinks  == ReadPart("links", "splits")
ReadSplits == ReadPart("splits", "identity")

Judged(verdict) == found' = [found EXCEPT !.verdicts = Append(@, verdict)]

\* The split to be verified next.
Claim == found.splits[Len(found.verdicts) + 1]

\* verifySplit, its first statement.
FindConfirming ==
  /\ pc = "identity" /\ Len(found.verdicts) < Len(found.splits)
  /\ \/ Known(Claim.party) /\ pc' = "contribution" /\ UNCHANGED found
     \/ ~Known(Claim.party) /\ Judged("PENDING") /\ UNCHANGED pc
  /\ UNCHANGED <<query, todo, answer, since>>

\* Mutant: a confirmation of any version of the album counts.
ConfirmationsOfAnyVersion(claim) ==
  {c \in ToSet(contributions[claim.party]) : c.party = found.url /\ c.album = found.id}

\* The rows that the second statement selects; QueryRow takes any one of them.
Confirmations(claim) ==
  {c \in ToSet(contributions[claim.party]) :
     /\ c.party = found.url
     /\ c.album = found.id
     /\ c.version = found.version}

FindContribution ==
  /\ pc = "contribution"
  /\ \/ Confirmations(Claim) = {} /\ Judged("UNVERIFIED")
     \/ \E c \in Confirmations(Claim) :
          Judged(IF c.role = Claim.role /\ c.pct = Claim.pct THEN "VERIFIED" ELSE "DISPUTED")
  /\ pc' = "identity"
  /\ UNCHANGED <<query, todo, answer, since>>

ReturnAlbum ==
  /\ pc = "identity" /\ Len(found.verdicts) = Len(found.splits)
  /\ answer' = Append(answer, found)
  /\ todo' = Tail(todo)
  /\ pc' = "album"
  /\ UNCHANGED <<query, found, since>>

\* RosterForLabel: one statement for the roster, one for each artist.  The
\* identity whose roster it is has been found before.
AskRoster(u) ==
  Known(u) /\ Begin(u, "roster", rosters[u])

\* Mutant: which label the artist names is not looked at.
RosterVerdictBySplit(label, entry) ==
  CASE ~Known(entry.artist) -> "PENDING"
    [] Known(entry.artist) /\ identities[entry.artist].split = entry.split -> "VERIFIED"
    [] OTHER -> "DISPUTED"

RosterVerdict(label, entry) ==
  LET artist == identities[entry.artist] IN
  CASE ~Known(entry.artist) -> "PENDING"
    [] Known(entry.artist) /\ (artist.label # label \/ artist.split = None) -> "UNVERIFIED"
    [] Known(entry.artist) /\ artist.label = label /\ artist.split = entry.split -> "VERIFIED"
    [] OTHER -> "DISPUTED"

VerifyRosterEntry ==
  /\ pc = "roster" /\ todo # <<>>
  /\ answer' = Append(answer, [entry |-> Head(todo), verdict |-> RosterVerdict(query, Head(todo))])
  /\ todo' = Tail(todo)
  /\ UNCHANGED <<pc, query, found, since>>

\* The artists of the entries are looked up only when the query selects them.
ReturnRoster ==
  /\ pc = "roster" /\ todo = <<>>
  /\ \/ pc' = "artists" /\ todo' = answer
     \/ pc' = "done" /\ UNCHANGED todo
  /\ UNCHANGED <<query, found, answer, since>>

\* The resolver of an entry's artist looks the identity up once more.  The field
\* may not be null, nor may an entry of the list, so a null artist nulls the list.
ResolveArtist ==
  /\ pc = "artists" /\ todo # <<>>
  /\ \/ Known(Head(todo).entry.artist) /\ todo' = Tail(todo) /\ UNCHANGED answer
     \/ ~Known(Head(todo).entry.artist) /\ todo' = <<>> /\ answer' = None
  /\ UNCHANGED <<pc, query, found, since>>

ReturnArtists ==
  /\ pc = "artists" /\ todo = <<>>
  /\ pc' = "done"
  /\ UNCHANGED <<query, todo, found, answer, since>>

ReturnAlbums ==
  /\ pc = "album" /\ todo = <<>>
  /\ pc' = "done" /\ found' = None
  /\ UNCHANGED <<query, todo, answer, since>>

AlbumIds == {a.id : a \in UNION {ToSet(m.catalog) : m \in UNION {Published[u] : u \in Urls}}}

Reader ==
  /\ \/ \E u \in Urls, id \in AlbumIds : AskAlbum(u, id)
     \/ \E scope \in {{u} : u \in Urls} \cup {Urls} : AskAlbums(scope)
     \/ \E u \in Urls : AskRoster(u)
     \/ ReadAlbum \/ ReadTracks \/ ReadLinks \/ ReadSplits
     \/ FindConfirming \/ FindContribution \/ ReturnAlbum \/ ReturnAlbums
     \/ VerifyRosterEntry \/ ReturnRoster \/ ResolveArtist \/ ReturnArtists
  /\ UNCHANGED index

Next == Reader \/ \E u \in Urls : UpsertManifest(u)

Spec == Init /\ [][Next]_vars

-----------------------------------------------------------------------------
\* Properties.

Verdicts == {"PENDING", "UNVERIFIED", "DISPUTED", "VERIFIED"}

AlbumsRead == [pk : 1 .. lastPK, url : Urls, id : AlbumIds, version : Nat \ {0},
               tracks : Seq(STRING), links : Seq(STRING), splits : Seq(Splits),
               verdicts : Seq(Verdicts)]

\* The tables keep the constraints of the schema, keys among them, and the reader
\* its types.  (api/internal/db/migrations/0001_init.sql)
TypeOK ==
  /\ identities \in [Urls -> [label : Urls \cup {None}, split : 0 .. 100 \cup {None}] \cup {None}]
  /\ rosters \in [Urls -> Seq(RosterEntries)]
  /\ contributions \in [Urls -> Seq(Contributions)]
  /\ albums \subseteq [pk : 1 .. lastPK, url : Urls, album : Albums]
  /\ \A b, c \in albums : b.pk = c.pk \/ <<b.url, b.album.id>> = <<c.url, c.album.id>> => b = c
  /\ \A u \in Urls : indexed[u] \in Seq(Published[u]) /\ since[u] \in 0 .. Len(indexed[u])
  /\ pc \in {"idle", "album", "tracks", "links", "splits", "identity", "contribution",
             "roster", "artists", "done"}
  /\ found \in AlbumsRead \cup {None}
  /\ query \in Urls => answer \in Seq([entry : RosterEntries, verdict : Verdicts]) \cup {None}
  /\ query = "albums" => answer \in Seq(AlbumsRead)

\* The manifests of u that were current at some time during the query; 0 for none.
Window(u) == since[u] .. Len(indexed[u])

AlbumsAnswered == IF pc = "done" /\ query = "albums" THEN ToSet(answer) ELSE {}
RosterAnswered == IF pc = "done" /\ query \in Urls /\ answer # None THEN ToSet(answer) ELSE {}

\* The versions of an answered album in the manifests that were current during the query.
Sources(b) ==
  {a \in UNION {ToSet(indexed[b.url][n].catalog) : n \in Window(b.url) \ {0}} :
     a.id = b.id /\ a.version = b.version}

\* An album in an answer is put together from one manifest, current during the
\* query; an upsert may cost it the parts that were not read yet, never mix them
\* with another manifest's.  (query.go:282-366)
AlbumPartsOfOneManifest ==
  \A b \in AlbumsAnswered : \E a \in Sources(b) :
    \/ <<b.tracks, b.links, b.splits>> = <<a.tracks, a.links, a.splits>>
    \/ <<b.tracks, b.links, b.splits>> = <<a.tracks, a.links, <<>>>>
    \/ <<b.tracks, b.links, b.splits>> = <<a.tracks, <<>>, <<>>>>
    \/ <<b.tracks, b.links, b.splits>> = <<<<>>, <<>>, <<>>>>

\* An album in an answer is whole.  (store.go:42-43: a crawl always reflects the
\* manifest's current, complete state.)
AlbumIsWhole ==
  \A b \in AlbumsAnswered : \E a \in Sources(b) :
    <<b.tracks, b.links, b.splits>> = <<a.tracks, a.links, a.splits>>

\* What the manifest m of a party says about the split s of the album b.
SaysOf(m, b) == {c \in ToSet(m.contributions) : c.party = b.url /\ c.album = b.id /\ c.version = b.version}
Confirms(c, s) == c.role = s.role /\ c.pct = s.pct

\* The rule of album splits, for a party whose manifest is m.  One that says several
\* things about the album has any of them compared with the claim, also when another
\* confirms it: QueryRow takes the first row that comes (query.go:379-397).
SplitRule(m, b, s, verdict) ==
  \/ verdict = "UNVERIFIED" /\ SaysOf(m, b) = {}
  \/ verdict = "VERIFIED" /\ \E c \in SaysOf(m, b) : Confirms(c, s)
  \/ /\ verdict = "DISPUTED" /\ SaysOf(m, b) # {}
     /\ (\A c \in SaysOf(m, b) : ~Confirms(c, s)) \/ (\E c, d \in SaysOf(m, b) : c # d)

GroundsForSplit(b, s, verdict) ==
  IF verdict = "PENDING" THEN s.party \notin Urls \/ 0 \in Window(s.party)
  ELSE \E n \in Window(s.party) \ {0} : SplitRule(indexed[s.party][n], b, s, verdict)

\* Every split in an answer was claimed by a manifest of the album's owner, and has the
\* verdict that the rule gives for a manifest of the other party, both current during the
\* query: none is shown as verified that the party did not confirm to the letter, and a party
\* that says one thing about the album is disputed only when that is another thing.
\* (query.go:345-398, KB/0003-manifest.md:108)
SplitVerdictHasGrounds ==
  \A b \in AlbumsAnswered :
    /\ Len(b.verdicts) = Len(b.splits)
    /\ \A i \in DOMAIN b.splits :
         /\ \E a \in Sources(b) : b.splits[i] \in ToSet(a.splits)
         /\ GroundsForSplit(b, b.splits[i], b.verdicts[i])

\* The rule of affiliations, for an artist whose manifest is m.
RosterRule(m, label, entry, verdict) ==
  \/ verdict = "UNVERIFIED" /\ (m.label # label \/ m.split = None)
  \/ verdict = "VERIFIED" /\ m.label = label /\ m.split = entry.split
  \/ verdict = "DISPUTED" /\ m.label = label /\ m.split \notin {entry.split, None}

\* Every entry of an answered roster was listed by the label, and has the verdict that the
\* rule gives for a manifest of the artist, both current during the query; pending means
\* that the artist was not indexed at some time of it.  (query.go:184-234,
\* KB/0003-manifest.md:94)
RosterVerdictHasGrounds ==
  \A r \in RosterAnswered :
    /\ \E n \in Window(query) \ {0} : r.entry \in ToSet(indexed[query][n].roster)
    /\ IF r.verdict = "PENDING" THEN 0 \in Window(r.entry.artist)
       ELSE \E n \in Window(r.entry.artist) \ {0} :
              RosterRule(indexed[r.entry.artist][n], query, r.entry, r.verdict)
=============================================================================
