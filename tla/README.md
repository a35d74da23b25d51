# endonend in TLA+

endonend is a federated music catalog. Artists and labels publish a signed
manifest and an append-only history log on hosts of their own; a command line
tool writes the two files, a catalog server crawls them into a Postgres index
and answers GraphQL queries from it, and a web client plays what it finds. These
modules model the parts that carry state: the protocol's data, the tool with
import and publish, the crawler, the reads of the index, the life of the server
and the web client's pages. TLC checks them on small instances, and TLAPS proves
their safety properties for every value of the constants.

The modules follow the source, not the documents. Section
"Disagreements" lists where the two differ.

## The system

| Part | State | Operations | What is hard | What makes it correct |
|---|---|---|---|---|
| protocol/history, signing, canonical, manifest | none; data only | hash an entry, verify a chain, sign and verify | a hash covers everything before it | a log is an unbroken chain |
| protocol/validate | none | check one manifest and log, fetch both, deep checks of other parties' manifests | two fetches while the files change; the walk over rotated keys must agree with what the tool writes | accepts what the tool writes, and only pairs that belong together |
| cli generate, keygen, rotate | source file, key store, manifest.json, history.json | diff, extend the log, sign; rotate a key; all write several files | a crash between files, a torn file, lost keys, files of two URLs in one place | the log only grows, every success leaves a bound pair that is valid as far as the source was in order, the key in the store is the authorised one |
| cli menu | source file | edit and save | none beyond the file | the source passes validateSource |
| cli import (bandcamp, slug) | source file, download directory | fetch a page, merge the album by id, download its files | two albums with one slug, a second import, a download or a write that breaks off | no other album is touched, the files that the page offers are its own |
| cli publish (ghpublish) | staging directory, its git repository, the one on GitHub | stage, git and gh commands in order | a rerun after a command failed, a pair cut short by a crash of generate | what is pushed is the site as it is on the machine, whole; a success has served its manifest, a rerun is a fast-forward |
| cli spinner | one goroutine | start, stop | stop races a tick | stops once, leaves a clean line where bytes can tell how long it is |
| api crawler and poller | the due list | poll one URL, poll all due, submit | polls of one identity run side by side, hosts change between two fetches, a failure must land on the right row | the index mirrors each healthy host and mixes nothing |
| api store, writes | identities and the tables that hang from it | UpsertManifest, RecordFetchError | one transaction per manifest, next to reads | a manifest replaces all its rows or none |
| api store, reads, and graphqlapi | none of their own | albums, album, identity, roster; verdicts on splits and affiliations | several statements without a transaction | an answer is one manifest's, a verdict has grounds |
| api db | schema, schema_migrations | migrate | servers start together, a statement fails half way | each migration once, a server serves on its schema |
| api main | threads, HTTP server, pool, context | start, poll, answer, stop | the signal comes at any time, also while it migrates | nothing works before the migrations of its build have taken effect, a signal ends the server |
| web | page state, player state, audio element | navigate, play, submit | answers that arrive late | the page shows what was asked for and plays what it shows |
| scripts, docker files | none | | | |

The tool and the server share `protocol`. The tool's output reaches the server
only through hosts: an artist uploads two files, in either order, and the server
fetches them over HTTP. Inside the server, the poller's goroutine and the
handlers of submissions run the same `PollOne` concurrently and share nothing
but the database; the handlers of queries read the tables that those write. On
the artist's machine, import writes the source that generate reads and the files
that publish stages beside generate's pair; publish is one way for the pair to
reach a host.

## Modules

| Module | Models | Composes |
|---|---|---|
| `Protocol` | log, manifest, the validator's checks that relate them | |
| `SignedLog` | the abstract log: grows at its end, one owner, hand-over signed by the owner | `Protocol` |
| `ArtistCLI` | the tool on one machine, with crashes and losses | `Protocol`, refines `SignedLog` |
| `Crawler` | poller, submissions, hosts, index rows | |
| `CatalogReads` | queries of the index against upserts | |
| `Migrations` | servers that migrate one database | |
| `ServerLife` | a server from its start to its end: migrate, poll, answer, shut down | `Migrations` |
| `Spinner` | the terminal spinner: its goroutine, `Update` and `Stop` | |
| `Import` | import bandcamp: source, downloads, spinner | `Spinner` |
| `Publish` | publish github: staging, git, gh, GitHub | `Import` |
| `AlbumPage` | the web client's pages and player | |
| `ProtocolProofs` | lemmas on `Chain`, `Hash`, `HeadHash` and the validator's walk over rotated keys | `Protocol` |
| `ArtistCLIPairProofs` | theorems about the pair of manifest and log when nothing goes wrong, and the refinement of `SignedLog` | `ArtistCLIProofs` |
| `ArtistCLIProofs`, `CrawlerProofs`, `CatalogProofs`, `ServerLifeProofs`, `PublishProofs`, `AlbumPageProofs` | theorems about the module each is named after (`CatalogReads` for `CatalogProofs`) | |
| `MCArtistCLI`, `MCCrawler`, `MCCatalogReads`, `MCServerLife`, `MCPublish`, `MCAlbumPage` | constants for TLC | |

### Protocol

`Chain`, `Hash`, `HeadHash` and `VerifyChain` are the loops of `generate.Run` and
`history.VerifyChain`. `Validates` is `validate.validateBytes` for a manifest
beside a log, with all its checks: `CheckRequiredFields`, `CheckURLFields`,
`CheckImages`, `CheckSignature`, `CheckSplitsSumTo100`, `CheckUniqueIDs`,
`CheckHistory` and the walk of `checkKeyRotationChain`. `Fails[c]` are the values
that a check of syntax or sums, c, rejects, and `Tracks[c]` the track ids of an album's
content, which may be none. `checkSignatureAlgorithmAllowlist` always passes on what
the tool writes.

What is abstracted: names, split terms, album contents, the rest of a manifest
(`Extras`: its version and presentation) and keys are opaque values. A signature is the key that made it, since each tool signs what it has
just built and forging is not a question asked here. SHA-256 over canonical JSON
is taken to be free of collisions, so a digest *is* the sequence of signed payloads
it commits to. Timestamps are left out, since entries of one second do not differ
by them.

### ArtistCLI

Variables: `source` is endonend.source.json, `keyFile` the directory of private
keys (indexed by `Slug[u]`, the file name a URL maps to, which two URLs may
share), `manifestFile` and `historyFile` the two signed files, any of which may
be `NoFile` or `Torn`. `cmd`, `pc`, `work` and `exit` are the running command, its
next step, its memory and its exit status. `validateSource` asks for less than the
validator does: `SourceInOrder` is what it leaves out, and `CleanPairValid` says that
a clean pair is rejected for nothing else.

| Action | Code |
|---|---|
| `EditSource` | menu edits and `writeSourceFile` |
| `Keygen`, `KeygenRefused` | `cmdKeygen` without --rotate |
| `GenerateWithKey`, `GenerateNewKey`, `GenerateRefused` | `generate.Run` up to and including the choice of the key |
| `Build`, `BuildRefused` | `Run`: loadPrevious, diff, chain, sign |
| `Rotate`, `RotateRefused` | `generate.Rotate`: checks, entry, new manifest |
| `TruncateKey` .. `FillHistory` | `os.WriteFile` of each file, in the code's order |
| `Crash`, `LoseKey`, `LoseManifest` | the faults |

`diff` is the set of changes that `generate.diff` finds, and `DiffOrders` the
orders it may list them in (albums come from a map or a list, section by
section). `MaxEdits` bounds the edits; keys are issued from the finite set `Keys`,
so a rotation needs an unused one.

Symmetry is used over `Keys` only, in runs without liveness properties. Keys are
interchangeable: nothing in the modules names one.

### Crawler

Variables: `site[h]` is what host h serves, `rows` the identities table with what
hangs from a row, `queue` the rest of the current round of `PollDue`, `pc` and
`job` the threads in `PollOne`, and `verdict`, which the code does not keep, what
the last poll of a URL that came to a verdict said.
A host's content is a lineage of keys (`owner`) and a revision; the files are
uploaded one after the other, either first. The two GETs of `ValidateURL` are two
steps, the database write a third. `RecordFetchError` is an UPDATE, of no effect
when the key names no row. `Restart` stops all threads. A URL with a trailing slash
makes a path with two slashes; `Merging` are the hosts that answer it all the same
(`Reaches`), and whose manifest then fails `checkFetchLocation`.

Only what `PollOne` can tell apart of a broken host is modelled: the manifest
cannot be had, the log cannot be had, the manifest is invalid by itself, or it
passes the validator and breaks a constraint of the database (a roster that lists
an artist twice).

`Protocol` says when a manifest and a log fit each other. `Crawler` uses the
consequence: the log's owner is the manifest's and, unless the manifest has no
headHash (revision 0), the revisions agree. An extension of a log by its owner is
the next revision; this is `ImplementsSignedLog` seen from the web.

### CatalogReads

Variables: one per table group (`identities`, `rosters`, `contributions`, and
`albums` with the tables that refer to it by `album_pk`), `lastPK` for the
sequence of `albums.id`, and the reader's `pc`, `query`, `todo`, `found`,
`answer`. `indexed[u]` records all manifests of u that were indexed and `since`
how many there were when the query began; the code has neither, the properties
need them to say "current during the query".

| Action | Code |
|---|---|
| `UpsertManifest` | `store.UpsertManifest`, one transaction, for a manifest that passes `Valid` |
| `AskAlbum`, `AskAlbums`, `ReadAlbum`, `ReturnAlbum(s)` | resolvers `album`, `albums`, `Identity.albums`; first statement of `GetAlbum` |
| `ReadTracks`, `ReadLinks`, `ReadSplits` | its other statements |
| `FindConfirming`, `FindContribution` | the two statements of `verifySplit` |
| `AskRoster`, `VerifyRosterEntry`, `ReturnRoster` | `RosterForLabel` |
| `ResolveArtist`, `ReturnArtists` | the resolver of `RosterEntry.artist` and GraphQL's rule for null in a NonNull field |

Reads change nothing, so one reader stands for all. Postgres runs at its default
level, so a statement sees what is committed when it starts. Percentages are
whole numbers; the two halves of a label split sum to 100 in a valid manifest, so
the artist's stands for both.

### Migrations, ServerLife

`schema` is the sequence of migrations that took effect, `recorded` the table
schema_migrations, and each server has its build, what it read, and what it has
left to do. A transaction shows nothing before `Commit`; `Waits` is Postgres's
wait for the other transaction that inserts the same key. `Stop` is a failed
statement or a dead process, `RecordFails` the key that another server has taken.

`ServerLife` puts the rest of `main.run` around it. `signalled` are the servers
whose context is cancelled, `server[s]` says whether port and pool are open, and
`worker[s]` what the poller and one request are doing: a worker between
`Acquire` and `Release` holds a connection.

| Action | Code |
|---|---|
| `Migrating`, `OpenFails`, `Listen` | `db.Open` and what `run` does with its result |
| `Tick`, `Acquire`, `Release`, `Done` | `RunLoop` and its rounds; a handler does the last three too |
| `Signal`, `Shutdown`, `Exit` | `signal.NotifyContext`, `srv.Shutdown` beside `ListenAndServe`, the deferred `pool.Close` and the end of `main` |
| `ListenFails`, `Crash` | the port is taken, the process dies |

What a poll and a query do with the index is in `Crawler` and `CatalogReads`; a
schema never changes under them but by a migration.

### Spinner, Import, Publish

`Spinner` keeps the two channels (`stop`, `done`), the message, what the goroutine
takes for the length of the line (`lastLen`, in bytes) and how many columns of it
show something (`screen`); `drawn` records the messages drawn. Each message has its
own length in bytes and in columns; lines are `Alike` if the two differ by the same
number in all, as in ASCII text with the frame's arrow. `Tick` and `Finish` are the two branches of the
goroutine's select.

`Import` is `importBandcamp` as the command and the menu call it. `sourceFile` is
endonend.source.json, `assets` the download directory, where each file is the page
it came from, `Torn` or `NoFile`. `orphans` are spinners that the menu has left
running; `settled`, which the code does not keep, the albums whose last import
wrote all its files and the source. `Oversized` files are cut at 200 MB without an
error (`Saved`). A page is its title, art and tracks; `Slugify` is a constant function,
so that two titles may share a slug or have an empty one.

| Action | Code |
|---|---|
| `Begin`, `FetchFails`, `Refuse`, `Fetched` | `menuImportBandcamp`, `bandcamp.Fetch`, the checks of the source, `upsertAlbum` |
| `Create`, `Copy`, `DownloadFails`, `Downloaded` | `downloadAlbumAssets` and `downloadFile`, file by file |
| `StopReturns` | `sp.Stop()` waits for the goroutine |
| `TruncateSource`, `FillSource`, `WriteFails` | `writeSourceFile`, and its error |
| `SpinnerTicks`, `SpinnerEnds`, `OrphanTicks`, `Crash` | the goroutine, a goroutine left behind, the process killed |

`Publish` adds manifest.json and history.json, the staging directory `out`, its
repository `repo` (index and log) and GitHub's `remote`. A commit is its tree; a
second clone's commits are different ones. Each git and gh command of `PushDir`,
`EnsureRepo` and `EnablePages` is a step, `CommandFails` may take the place of
each, and `LoseOut` is a lost staging directory. Of `generate` the module has the
choice of the log and the four steps of its two writes, which may fail or be killed
between them; a manifest names the log it binds, so a pair that does not belong
together can be told. `ArtistCLI` has the rest. Staging copies whatever is there.

### AlbumPage

`route` and `song` are the address bar, `effect` is the page whose effect ran last,
with the number of that run, `pending` the requests without an answer, `page`
what is shown and `player` the player with its audio element. React renders a
new route with the old state and runs the effect afterwards, so `Move` and
`RunEffect` are two steps and answers may come in between. `Cancelled` is the
`cancelled` variable of the effect's closure. The player is rendered with its first
track, and its own effect, `PlayerEffect`, moves to the track that the query names;
`player.effect` says whether that is due, is next (a click makes React run it before
another) or has run, and `player.began` on which side of it the audio element got its
file. `playTrack` is the way the player changes tracks from then on; the query
parameter follows it. An album without tracks
makes the player throw, which takes the client down ("crashed"), since there is no
error boundary.

## Runs

Sizes are of the checked instances; all passing runs end with no state left.

| Run | Shows | Instance |
|---|---|---|
| `cli_clean` | no faults: a pair the tool leaves is rejected by the validator only for what the source brought (`CleanPairValid`), the key store holds the manifest's key (`KeyInStore`), the log replays to the catalog (`LogAccountsForCatalog`), and the tool implements `SignedLog` | 1 URL, 3 keys (two rotations), 2 albums with 3 contents each, one of them without tracks, splits that add up or not, 2 edits; 2.9M states |
| `cli_faults` | all four faults, two URLs with one key file: a readable log is always a chain with authorised rotations (`ReadableLogIsChain`), a success always binds its pair (`SuccessBindsPair`), and as long as manifest.json has not been removed the log on the disk is only extended (`LogOnlyGrows`) | 2 URLs, 3 keys, 2 edits; 1.5M |
| `crawl_pair` | a manifest with a headHash is never indexed beside a log of another revision or owner (`HeadedPairMatches`); the row of an identity that nobody disputes shows a rejection until an accepted manifest is written, and no error after that (`RowTellsVerdict`) | 1 host under 2 URLs, poller and submission, take-over, restarts; 1.8M |
| `crawl_two_hosts` | a host cannot change what is indexed of another by claiming its URL, with or without a trailing slash (`RowFromOwnHost`); the error on the row it can | 2 hosts under 3 URLs, one that merges slashes, poller and submission, restarts, database errors; 3.6M |
| `crawl_live` | what is indexed of a host that stays healthy is brought up to its last pair and stays so, also when the other fails for ever or claims its URL (`HealthyIsMirrored`); its last_error is not covered | 2 hosts that fail, one with false claims, liveness; 548k |
| `reads` | album answers never mix manifests (`AlbumPartsOfOneManifest`); each verdict on a split or an affiliation, pending and unverified included, is what the rule gives for manifests current during the query (`SplitVerdictHasGrounds`, `RosterVerdictHasGrounds`); only a party that says two things about an album may be disputed although it confirms | 2 identities, 3 upserts each; 1.6M |
| `server_life` | each migration takes effect once (`AppliedExactlyOnce`), polls and requests run only once all migrations of their server's build have taken effect (`WorksOnItsSchema`; a newer build may have added others, under a server that goes on), servers that start together do not block each other (`StartDecides`), and a signal ends a server whatever it was doing (`SignalEnds`) | 2 servers, 2 builds, 1 failure, any number of starts, signals, ticks and requests; 260k |
| `artist_site` | a stopped spinner has no goroutine left, leaves a blank line if the lines drawn were alike (`LineIsBlankAfterStop`) and never keeps its user waiting (`StopEnds`); a failed import leaves the source, one whose write fails leaves that or a cut file, a successful one touches one album (`SourceKept`); the local files that a page offers are that page's, slugs shared or not (`AssetsMatchSource`); what is pushed and served is the pair and all declared files as they are on the machine (`PushedIsLocalSite`), a success has served the manifest it read (`SuccessIsServed`), and no half-done publish makes a later one diverge (`RerunFastForwards`) | 2 pages with one id, one with a track above 200 MB and one with a track without a stream, an album by hand, lines of unequal excess, 2 imports, 2 faults, 2 revisions, 1 lost directory; 1.6M |
| `web` | the page shows what was asked for its route (`PageShowsRoute`) and does not stay in loading (`PageSettles`); the audio element holds the track that is shown, or the first one if Play came before the player read the address (`PlaysWhatIsShown`) | 2 albums and the list, 5 moves; 72k |

Why these bounds: what can go wrong needs at most two of each thing. Two
rotations make `checkKeyRotationChain` walk over a key that is neither first nor
last. Two edits let an album be added, changed and removed across generates.
Two threads are enough for a race on one row, since a third would race the same
two writes. Three upserts let an album be indexed, replaced and removed during
one query. Two builds, one with a migration in the middle, are the case that a
"latest version" scheme gets wrong. Two imports are the least with a stale file,
and of pages with one id; two faults let a publish fail, and its rerun fail
elsewhere, before a third succeeds. Five moves lead away from a page, back to it
and away again while its first answer is still under way.

`CHECK_DEADLOCK FALSE` stands where the model may rightly stop: the tool when
edits and keys are used up, the poller of an empty index, an artist whose imports and
revisions are used up, a reader at rest on a page without a player.

Every property of a passing run has a mutant: a change of one definition as a
plausible bug would make it, kept in the module before the definition it changes
and named in `PROJECT.json`. TLC finds the property violated under each.

### Fairness

`Crawler!FairSpec` assumes weak fairness of the poller and of time. The code
justifies both: `RunLoop`'s ticker fires until the context ends, each GET ends
within the client's timeout of 10 seconds, `PollDue` goes on after a failed
identity, and statements of the database return. Hosts, administrators and
restarts are under no fairness. `ServerLife!LifeSpec` assumes that a started
process runs on and that Postgres ends each statement; strong fairness of a
process, since the row it waits for may be freed and taken again by servers that
come and go, and Postgres serves those who wait in turn. Nothing is assumed to
start a process, to send a signal or to end a handler. `Publish!Spec` assumes
that the two goroutines of a Stop are scheduled: a closed channel stays ready, so
Go's select takes it sooner or later although ticks keep coming. It assumes
nothing of downloads, which have no timeout: one that stalls holds the import
forever. `AlbumPage!Spec` assumes that React runs effects, those of the page and of
the player, and that requests end. The latter is the browser's guarantee, not the
code's: graphqlClient.js sets no timeout. The reader is under no fairness.

## Disagreements

Each of these runs checks one property, quoted in `PROJECT.json` with the line
that states it, and TLC shows how the code breaks it.

| Run | What happens |
|---|---|
| `cli_torn_rotation` | rotate dies between key and log; the stored key is authorised by nothing and the old one is gone |
| `crawl_race` | of two polls of one identity the older fetch commits last |
| `reads_torn` | an upsert during an album query leaves the answer without tracks, links or splits |

Others were met while reading. They need no interleaving to see, since the code
simply has no such guard, so no run is kept for them; the modules behave as the
code does.

| Source | What the code does | What is said |
|---|---|---|
| cli/internal/generate/generate.go:329 | an album that was removed and is added again starts at version 1 again | KB/0003-manifest.md:470: albumVersion only ever increases |
| generate.go:159 | after a crash between the two files the next generate sees no change, and the log lacks the entries | KB/0004-endonend-artist-cli.md:23 |
| generate.go:180-222 | generate accepts sources whose manifest the validator rejects: an album without tracks, a version of another form, URLs that are none, splits that do not add up (validate.go:206-247, 250-303, 391-420) | KB/0004-endonend-artist-cli.md:12: "valid per this tool" and "valid per the platform" can never drift apart |
| protocol/signing/signing.go:55 | two URLs with one `Slug` share a key file: a rotation for one takes the other's key | signing.go:50: a file name for each identity.url |
| generate.go:71 | without its key, generate makes a new one and continues the old log with it | cli/cmd/menu.go:273: a lost key means a new identity |
| generate.go:226 | without manifest.json, the log is overwritten with a new one | KB/0003-manifest.md:206: never rewritten |
| api/internal/crawler/crawler.go:49 | an invalid manifest puts its error on the row of whatever URL it claims | crawler.go:44-47: on the row of the last successful crawl |
| crawler.go:49, protocol/validate/validate.go:337 | at a host that merges slashes, submitting its URL with a trailing slash fetches its healthy manifest, fails `checkFetchLocation`, and puts that error on the healthy row | |
| crawler.go:39 | the error of a failed fetch is recorded under the manifest's URL, a key that no row has | api/internal/store/store.go:201-203: records why the most recent crawl attempt failed |
| crawler.go:55 | the error of a manifest that the database refuses is not recorded | api/internal/store/store.go:201-203 |
| store.go:69 | new keys replace the old ones without a rotation | KB/0002-architecture.md:99: the first key is pinned |
| api/internal/crawler/poller.go:21 | an identity.url with a trailing slash is accepted when it is submitted without one, and polled at a path with two slashes from then on | poller.go:18-20 |
| store.go:78 | the declared TTL is stored as it is | api/internal/store/query.go:131-135: already clamped |
| query.go:383 | of a party's two roles in one album, one may be compared with the other's row and shown as disputed | query.go:368-371 |
| query.go:214 | references are compared as identity URLs, so an affiliation stated by manifest URLs on both sides stays pending | KB/0003-manifest.md:85: the label's manifest URL |
| api/cmd/server/main.go:76 | `ListenAndServe` returns when `Shutdown` begins, so the process exits while requests that hold no connection are still in flight | main.go:70-71: only the timeout cuts them off |
| cli/cmd/import_cmd.go:93 | a refused import returns without `sp.Stop()`, and the menu goes on beside a spinner that draws | spinner.go:99-101 |
| import_cmd.go:89 | a source that does not parse counts as missing and is replaced: the albums in it are gone | KB/0005-bandcamp-import.md:45 |
| import_cmd.go:114 | all titles without a Latin letter or digit become the album "album", and each import replaces the last | KB/0005-bandcamp-import.md:45 |
| import_cmd.go:143 | when the write of the source fails after the file was truncated, a failed import leaves neither the old source nor the new one | |
| import_cmd.go:217 | a track without a stream is declared but not downloaded: publish fails at it or, when another page with the same slug has left a file of that name, publishes that page's audio | |
| import_cmd.go:237, 242 | a download that breaks off has truncated the file of an earlier import, and publish stages what is left; one of more than 200 MB is cut without an error | |
| cli/internal/spinner/spinner.go:116 | the width is the number of bytes: with letters outside ASCII a shorter line can leave part of the longer one | spinner.go:112-114: visible bytes |
| cli/internal/ghpublish/publish.go:32 | inside another work tree there is no `git init`: that repository's origin is replaced and all its files are added | stage.go:26-28: unrelated local files can't end up published |
| stage.go:93 | with a path in identity.url beyond the repository, the site is served beside the place it must be | stage.go:22-23 |
| stage.go:48 | files of albums that were removed stay in the directory and are published again | stage.go:24-28 |
| publish_cmd.go:64 | the pair is published as it is, also when a crash of generate left one that does not belong together, or a history.json that does not parse | |
| publish.go:77 | Pages that serve another branch count as enabled | |
| web/src/AlbumPlayer.jsx:226 | an album without tracks (see `reads_torn`) takes the whole client down | |
| AlbumPlayer.jsx:89-106, 135 | a Play between the player's first picture and its effect starts the first track, and the page then shows the one of ?song as current | |
| AlbumPlayer.jsx:121, 138 | the button shows a track as playing although the browser refused or paused it | |
| AlbumPlayer.jsx:94 | colours of one album stay for the next that sets none | |
| web/src/AdminConsole.jsx:104, 133 | a claim with a trailing slash shows "Indexed" without a name; a verdict stays beside a text edited since | |
| api/internal/graphqlapi/types.go:146 | one artist who is not indexed nulls the whole roster | KB/0003-manifest.md:94: one-sided claims are not hidden |

## Proofs

TLAPS checks these for every value of the constants that meets the named
assumptions, so for any number of hosts, servers, threads, albums, edits and
faults. Every safety property of a passing run is among them; what has a hypothesis
of its own is named below the table. TLC evaluates the assumptions on every run.

| Module | Theorem | States | Inductive invariant |
|---|---|---|---|
| `ArtistCLIProofs` | `TypeCorrect` | `Spec => []TypeOK` | `TypeInv` = `TypeOK` and `WorkOK`: what `work` holds at each `pc` |
| | `LogIsChain` | `Spec => []ReadableLogIsChain` | `LogInv`: the log in memory is sound too, since it is what the next write puts on the disk |
| | `SuccessIsBound` | `Spec => []SuccessBindsPair` | `BindInv`: while it saves, the command's manifest and log are bound to each other, and the files it has filled are those in memory |
| | `LogGrows` | `Spec => []LogOnlyGrows` | `GrowInv`: as long as manifest.json has not been removed, a readable log implies a manifest that exists, so that loadPrevious never starts anew |
| `ArtistCLIPairProofs` | `PairIsValid`, `KeyIsAtHand` | `Spec => []CleanPairValid`, `Spec => []KeyInStore` | `CleanInv`: without incidents, the pair on the disk (while a command saves, the one in memory too) is one that `validateBytes` accepts where the source was in order (`GoodPair`), its log belongs to the manifest's key (`OwnedBy`), and that key is in the store or about to be |
| | `ToolImplementsLog` | `Faults = {} /\ Spec => ImplementsSignedLog` | `MemoryInv`, `Quiet` with `CleanInv`: only a command that saves has a pair in memory |
| | `LogTellsCatalog` | `Spec => []LogAccountsForCatalog` | `AccountInv`: the pair on the disk, and the one about to be written, fit: the log replays to the catalog |
| `CrawlerProofs` | `TypeCorrect` | `Spec => []TypeOK` | `TypeInv` = `TypeOK` and `JobOK`: what a thread holds at each `pc` |
| | `HeadedPairs` | `Spec => []HeadedPairMatches` | `PairInv`: only what the validator has accepted waits to be written |
| | `OwnRows` | `Spec => []RowFromOwnHost` | `OwnInv`: what a thread has fetched is no newer than what its host serves now |
| | `RowsTellVerdicts` | `~DBErrors /\ Spec => []RowTellsVerdict` | `VerdictInv`: a manifest that is served or held by a thread claims an undisputed URL exactly if it came from there (`Honest`), so that each verdict is written where it belongs |
| `CatalogProofs` | `TablesTypeCorrect` | `Spec => []TypeOK` | `RowsInv`: the rows are what the manifest indexed last puts there, one per album; `ReaderInv`: what the reader holds at each `pc` |
| | `SplitsAreJudged` | `Spec => []SplitVerdictHasGrounds` | `SplitInv`: the verdicts given so far, in an album under way or in the answer, are those that `SplitRule` gives (`JudgedSoFar`) |
| | `RosterIsJudged` | `Spec => []RosterVerdictHasGrounds` | `RosterInv`: the entries still to do were on the roster during the query, those in the answer have the verdict that `RosterRule` gives |
| | `OneManifestPerAlbum` | `Spec => []AlbumPartsOfOneManifest` | `ReadInv`: each row is of the manifest indexed last, keys are never used again, and each part that was read is the album's, or empty and then the row is gone |
| `ServerLifeProofs` | `LifeTypeCorrect` | `LifeSpec => []LifeTypeOK` | `LifeKinds`: with it, that a list of migrations is a sequence of versions of a build |
| | `MigratesOnce` | `LifeSpec => []AppliedExactlyOnce` | `LifeInv`, `HoldsKey`: a server about to commit is the only one, and nobody has recorded its version |
| | `ServesItsSchema` | `LifeSpec => []WorksOnItsSchema` | `LifeInv`, `Covered`: what a build needs is recorded or still ahead of its server; `OpenFirst`: only a server that has migrated listens and works |
| `PublishProofs` | `PublishTypeCorrect` | `Spec => []TypeOK` | `SourceInv`, `SpinnerKinds`, `PublishKinds` |
| | `SourceIsKept` | `Spec => []SourceKept` | `SourceInv`, in it `Kept`: until the source is truncated it is the one from before, and the one in memory differs from it in its own album; a write that fails leaves the one or a cut file |
| | `FilesAreTheSources` | `Spec => []AssetsMatchSource` | `SourceInv`, in it `Matching`: the offered files already downloaded are of the page at work (`Saved`), those of other albums are not touched |
| | `LineIsCleared` | `Spec => []LineIsBlankAfterStop` | `LineInv`: if the lines drawn are alike, what the goroutine believes to be on its line is what is there (`KnowsLine`), and it has gone before Stop returns |
| | `PublishedIsServed` | `Spec => []SuccessIsServed` | `PublishInv`, `OnItsWay`: the manifest that was read is the one in the directory, then in the commit, then on GitHub |
| | `RerunIsAccepted` | `Spec => []RerunFastForwards` | `PublishInv`, `Behind`: the log on GitHub is a prefix of the local one |
| | `PushesAreSites` | `Spec => []PushedIsLocalSite` | `SiteInv`: while publish runs nobody else changes the pair or the files, and what it has still to stage and what is staged as it is here (`Staged`) are together all that the manifest declares |
| `AlbumPageProofs` | `PageTypeCorrect` | `Spec => []TypeOK` | `PageKinds`: the current track is one of the album on the page (`Current`) |
| | `ShowsOwnRoute` | `Spec => []PageShowsRoute` | `PageInv`, `ShowsEffect`: what is shown is the page of the effect that ran last |
| | `PlaysShownTrack` | `Spec => []PlaysWhatIsShown` | `PageInv`, `PlaysCurrent`: before the player's effect nothing plays, then the audio element has no file or that of the track shown, and a track chosen before the effect is the one that the effect finds in the address |

None of the properties is inductive as it stands. Each speaks of files, rows or
pages, and whether a step keeps it depends on what a command, thread or query
under way holds in its memory; the invariants say what that is. In each module the
proof that a step preserves the invariant has one case per action of the
next-state relation.

Two theorems have hypotheses beside the specification. `ToolImplementsLog` is
about a machine without faults, since after a crash or a lost key the tool does
break the abstract log (`cli_torn_rotation`, Disagreements). `RowsTellVerdicts`
needs that the database does its statements, since PollOne drops its errors; that
the property speaks of undisputed identities only is due to the errors that false
claims put on the wrong row (Disagreements). The runs that check the two
properties meet these hypotheses. Other limits are in the properties themselves, where
the code has the case that they leave out: a source that is not in order
(`CleanPairValid`), a removed manifest (`LogOnlyGrows`), lines that are not alike and
orphaned spinners (`LineIsBlankAfterStop`), declared tracks without a stream
(`AssetsMatchSource`), a party that says two things (`SplitVerdictHasGrounds`), and a
Play before the player has read the address (`PlaysWhatIsShown`). The instances
contain each of these cases.

The refinement maps the files, and while a command saves the pair in its memory,
to the abstract log. `Build` and `Rotate`, which prepare the pair, are the steps
`Record` and `HandOver`; filling a file is a stutter, as is all else. What it takes is
that the tool extends the log of the owner with the owner's key, which is
`CleanInv`: the key in the store is the manifest's, and the manifest's is the one
that the validator's walk ends at. That walk (`KeyBefore`, `CheckKeyRotationChain`)
is what `ProtocolProofs` has lemmas about: entries signed by the last key keep a
log owned by it, and a rotation passes it on (`RotationOwned`).

Induction is left out of the proofs, or brought in as the least counterexample:
the naturals are well ordered (`LeastNumber`), so that a walk that fails, or a
sort that misses a version, fails at a first place. For the same reason the sorted
lists of the model (`loadMigrations`, `Streamed`) are chosen as the ascending
ones: the provers cannot see into the library's SortSeq and SelectSeq, which are
recursive inside.

In `ArtistCLIProofs`, `ChainSound` is the core: adding entries signed by one key
to a sound log, with rotations that retire that key, gives a sound log. In
`CrawlerProofs` it is that the fetched pair stays what the validator saw,
whatever hosts do after it. In `CatalogProofs` it is that a key which an album had
when the query found it belongs to that album or to none, since `lastPK` has
passed it. In `ServerLifeProofs` it is the wait for a key in an open transaction
(`Waits`) that keeps two servers from committing one version.

| Assumption | Says |
|---|---|
| `UnlistedAssumption` (`Protocol`), `CLIAssumption` (`ArtistCLI`) | the markers for missing and torn files are not data, and an album that is not listed is neither an album's contents nor a published album; the set of albums is finite, so that one diff has finitely many changes |
| `FieldAssumption` (`Protocol`) | every content has its track ids, every check of the validator the values that fail it |
| `CrawlerAssumption` | the URLs are finite in number; a manifest URL, the identity's with a file name after it, is no identity URL and determines its own; the hosts that merge slashes are hosts |
| `CatalogAssumption` | published manifests are manifests; no identity is named like the query for albums; the mark for no row is no identity, no split and no row |
| `MigrationsAssumption` (`Migrations`) | builds are finite sets of positive versions |
| `PageAssumption` (`AlbumPage`) | the list is no album; an album's tracks are a sequence without repetition |
| `SpinnerAssumption` (`Spinner`) | a line has at least the column of its frame, and no fewer bytes than columns |
| `ImportAssumption` (`Import`), `PublishAssumption` (`Publish`) | the files are finite in number; the marks for missing and torn files are no page and no source; an album written by hand is filed under its id; there is a page, and the tracks of each are a sequence; the messages of an import are among those a line can have; a bound is a number |

Model-checked only, and out of the prover's reach for good: the liveness
properties `HealthyIsMirrored`, `StartDecides`, `SignalEnds`, `StopEnds` and
`PageSettles`, and whatever needs ENABLED. The three properties of the violation
runs are false. What a definition over an arbitrary sequence computes is proved
only as far as the theorems need it: that the walk over the keys ends at the
manifest's, and that each new entry keeps a replay in step with the catalog.

## Not modelled

- Syntax: what makes a URL, a picture or a version well formed (the checks are
  there, over sets of values that fail them), JSON canonicalisation, paragraph forms, GraphQL wording and argument defaults. No state, and unit
  tests reach them.
- Cryptography and collisions, see Protocol.
- `MerchForIdentity`, `ListArtists`, `ListLabels`: one statement each. Paging of
  `ListAlbums` by a date without a tie-break is a hazard no client meets yet.
- The admin token and the HTTP layer.
- `AdminConsole`: two forms without a shared state; `validate` of the tool and
  `validateManifest` of the server: a call of the validator and its report.
- The answer of `submitManifestUrl`: one more statement after a poll, whose
  result is a row that `Crawler` has at that moment.
- Publishing from a directory inside another work tree, or to a repository that
  serves another branch, see Disagreements. GitHub Pages' own delay.
- Seeking, lyrics, colours and the reader's other browser tabs.
- Git hooks, container files and CI: nothing that runs with the program.

## Plan

All parts with state are modelled. What is left, in order of weight:

1. Refinements that join the modules: `Publication`, the tool's pair, published by
   `Publish` or uploaded file by file, on a host of `Crawler`, so that
   `Protocol!Validates` takes the place of revisions; an abstract index that maps
   a URL to the last valid pair its host served.
2. An abstract publisher, whose GitHub goes from one whole site to the next, that
   `Publish` implements; `PushesAreSites` and `PublishedIsServed` are its parts.
