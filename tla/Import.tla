------------------------------- MODULE Import -------------------------------
(***************************************************************************)
(* endonend-artist-cli import bandcamp (cli/cmd/import_cmd.go), as a       *)
(* command and from the menu: it fetches an album page, puts the album     *)
(* into the source file and downloads the album's files, with a spinner    *)
(* while it works.                                                         *)
(*                                                                         *)
(* Of a page only what decides is kept: its title, its tracks and which of *)
(* them have a stream, and whether it has cover art.  An album in a        *)
(* catalog is the page it was made from; one the artist wrote by hand is a *)
(* page too.                                                               *)
(***************************************************************************)
EXTENDS Sequences, FiniteSets, SequencesExt, Spinner

CONSTANTS
  Pages,       \* records: title, art, and tracks, a sequence of [name, stream]
  Slugify,     \* Slugify[t]: the id a title turns into, "" when no letter or digit is left
  Handwritten, \* the source files an artist may have written by hand
  NoFile, Torn,
  Oversized,   \* the files of pages, as <<page, file>>, that are larger than 200 MB
  MaxImports,  \* bound: imports
  MaxFaults    \* bound: crashes, and downloads, writes and commands that fail

AlbumID(p) == IF Slugify[p.title] = "" THEN "album" ELSE Slugify[p.title]

\* The files that an album declares under identity.url, as <<directory, name>>.
Declared(p) == {<<AlbumID(p), n>> : n \in {"cover"} \cup {p.tracks[i].name : i \in DOMAIN p.tracks}}

\* The tracks of a page that have a stream, in the page's order.
Streamed(p) ==
  LET with == {i \in DOMAIN p.tracks : p.tracks[i].stream}
  IN  CHOOSE q \in [1 .. Cardinality(with) -> with] : \A i, j \in DOMAIN q : i < j => q[i] < q[j]

\* Mutant: the local directory is named for the title.
DownloadsByTitle(p) ==
  [i \in DOMAIN Streamed(p) |-> <<p.title, p.tracks[Streamed(p)[i]].name>>]

\* Those that its page offers, in the order of downloadAlbumAssets.
Downloads(p) ==
  (IF p.art THEN <<<<AlbumID(p), "cover">>>> ELSE <<>>)
  \o [i \in DOMAIN Streamed(p) |-> <<AlbumID(p), p.tracks[Streamed(p)[i]].name>>]

AlbumIDs == {AlbumID(p) : p \in Pages} \cup UNION {DOMAIN s.catalog : s \in Handwritten}
AllPages == Pages \cup UNION {Range(s.catalog) : s \in Handwritten}
Files == UNION {Declared(p) : p \in AllPages}

\* The source files that can be read.
SourceFiles ==
  [hasURL : BOOLEAN, catalog : UNION {[ids -> AllPages] : ids \in SUBSET AlbumIDs}]

ASSUME ImportAssumption ==
  /\ MaxImports \in Nat /\ MaxFaults \in Nat
  /\ IsFiniteSet(Files) /\ {NoFile, Torn} \cap AllPages = {} /\ NoFile # Torn
  /\ {NoFile, Torn} \cap SourceFiles = {} /\ Handwritten \subseteq SourceFiles
  /\ \A s \in Handwritten : \A a \in DOMAIN s.catalog : AlbumID(s.catalog[a]) = a
  /\ Pages # {} /\ \A p \in AllPages : p.tracks \in Seq(Range(p.tracks)) /\ p.art \in BOOLEAN
  /\ {"fetching", "fetched", "downloading"} \subseteq Messages

VARIABLES
  sourceFile,  \* endonend.source.json: [hasURL, catalog]
  assets,      \* the download directory: the page that each file was taken from
  pc, work, exit,
  orphans,     \* the messages of spinners that the menu has left running
  settled,     \* the albums whose last import wrote all their files and the source
  imports, faults

importVars ==
  <<sourceFile, assets, pc, work, exit, orphans, settled, imports, faults, spinnerVars>>

-----------------------------------------------------------------------------
Readable(f) == f \notin {NoFile, Torn}

Idle == [page |-> CHOOSE p \in Pages : TRUE, skip |-> TRUE, ident |-> FALSE, menu |-> FALSE,
         before |-> NoFile, source |-> NoFile, todo |-> <<>>]

ImportInit ==
  /\ sourceFile \in Handwritten \cup {NoFile}
  /\ assets = [f \in Files |->
       IF Readable(sourceFile) /\ f[1] \in DOMAIN sourceFile.catalog
          /\ f \in Declared(sourceFile.catalog[f[1]])
       THEN sourceFile.catalog[f[1]] ELSE NoFile]
  /\ pc = "idle" /\ work = Idle /\ exit = "none"
  /\ orphans = {} /\ settled = {}
  /\ imports = 0 /\ faults = 0
  /\ SpinnerInit

files == <<sourceFile, assets>>
ghosts == <<settled, imports, faults>>

\* importBandcamp is called.  The menu asks for an identity when there is no source
\* to read; a command ends the menu, and what the menu left running.
Begin ==
  /\ pc = "idle" /\ imports < MaxImports
  /\ \E p \in Pages, skip, ident, menu \in BOOLEAN :
       /\ menu => (ident <=> ~Readable(sourceFile))
       /\ work' = [Idle EXCEPT !.page = p, !.skip = skip, !.ident = ident, !.menu = menu,
                               !.before = sourceFile]
       /\ orphans' = IF menu THEN orphans ELSE {}
  /\ pc' = "fetch" /\ exit' = "running"
  /\ imports' = imports + 1
  /\ New("fetching")
  /\ UNCHANGED <<files, settled, faults>>

\* sp.Stop() is called: it waits for the goroutine.
Stopping(status) ==
  /\ pc' = "stopping" /\ exit' = status
  /\ CallStop

\* bandcamp.Fetch fails: no answer, another status, no album or no track on the page.
FetchFails ==
  /\ pc = "fetch"
  /\ Stopping("failed")
  /\ UNCHANGED <<files, work, orphans, ghosts>>

\* loadSourceFile, or a new source; a source that does not parse counts as none.
Existing == IF Readable(sourceFile) THEN sourceFile
            ELSE [hasURL |-> FALSE, catalog |-> <<>>]

\* An identity is needed for a new source, and for one without identity.url.
Refused == ~work.ident /\ ~Existing.hasURL

\* It returns without sp.Stop(): the process exits, or the menu goes on beside the spinner.
Refuse ==
  /\ pc = "fetch" /\ Refused
  /\ pc' = "idle" /\ exit' = "refused"
  /\ orphans' = IF work.menu THEN orphans \cup {"fetched"} ELSE {}
  /\ Exit
  /\ UNCHANGED <<files, work, ghosts>>

\* Mutant: the album becomes the catalog.
upsertAlbumFresh(catalog, p) == AlbumID(p) :> p

upsertAlbum(catalog, p) ==
  [a \in DOMAIN catalog \cup {AlbumID(p)} |-> IF a = AlbumID(p) THEN p ELSE catalog[a]]

Fetched ==
  /\ pc = "fetch" /\ ~Refused
  /\ work' = [work EXCEPT
       !.source = [hasURL |-> TRUE, catalog |-> upsertAlbum(Existing.catalog, work.page)],
       !.todo = IF work.skip THEN <<>> ELSE Downloads(work.page)]
  /\ pc' = "download"
  /\ Update("fetched")
  /\ UNCHANGED <<files, exit, orphans, ghosts>>

\* Mutant: a file that is there already is not downloaded again.
CreateMissing ==
  /\ pc = "download" /\ work.todo # <<>>
  /\ IF assets[Head(work.todo)] = NoFile
     THEN /\ assets' = [assets EXCEPT ![Head(work.todo)] = Torn]
          /\ pc' = "copy" /\ UNCHANGED work
     ELSE /\ work' = [work EXCEPT !.todo = Tail(@)]
          /\ UNCHANGED <<assets, pc>>
  /\ settled' = settled \ {AlbumID(work.page)}
  /\ Update("downloading")
  /\ UNCHANGED <<sourceFile, exit, orphans, imports, faults>>

\* What downloadFile makes of the file f of p: io.LimitReader ends a file that is too large
\* without an error.
Saved(p, f) == IF <<p, f>> \in Oversized THEN Torn ELSE p

\* downloadFile has its answer and truncates the file.
Create ==
  /\ pc = "download" /\ work.todo # <<>>
  /\ assets' = [assets EXCEPT ![Head(work.todo)] = Torn]
  /\ pc' = "copy"
  /\ settled' = settled \ {AlbumID(work.page)}
  /\ Update("downloading")
  /\ UNCHANGED <<sourceFile, work, exit, orphans, imports, faults>>

Copy ==
  /\ pc = "copy"
  /\ assets' = [assets EXCEPT ![Head(work.todo)] = Saved(work.page, Head(work.todo))]
  /\ work' = [work EXCEPT !.todo = Tail(@)]
  /\ pc' = "download"
  /\ UNCHANGED <<sourceFile, exit, orphans, ghosts, spinnerVars>>

\* A stream has expired, or the body breaks off.
DownloadFails ==
  /\ pc \in {"download", "copy"} /\ work.todo # <<>> /\ faults < MaxFaults
  /\ faults' = faults + 1
  /\ Stopping("failed")
  /\ UNCHANGED <<files, work, orphans, settled, imports>>

Downloaded ==
  /\ pc = "download" /\ work.todo = <<>>
  /\ Stopping("running")
  /\ UNCHANGED <<files, work, orphans, ghosts>>

\* Mutant: Stop does not wait for the goroutine.
StopReturnsAtOnce ==
  /\ pc = "stopping"
  /\ pc' = IF exit = "running" THEN "truncate" ELSE "idle"
  /\ UNCHANGED <<files, work, exit, orphans, ghosts, spinnerVars>>

StopReturns ==
  /\ pc = "stopping" /\ done
  /\ pc' = IF exit = "running" THEN "truncate" ELSE "idle"
  /\ UNCHANGED <<files, work, exit, orphans, ghosts, spinnerVars>>

TruncateSource ==
  /\ pc = "truncate"
  /\ sourceFile' = Torn
  /\ pc' = "fill"
  /\ UNCHANGED <<assets, work, exit, orphans, ghosts, spinnerVars>>

FillSource ==
  /\ pc = "fill"
  /\ sourceFile' = work.source
  /\ settled' = IF work.skip THEN settled \ {AlbumID(work.page)}
                ELSE settled \cup {AlbumID(work.page)}
  /\ pc' = "idle" /\ exit' = "imported"
  /\ UNCHANGED <<assets, work, orphans, imports, faults, spinnerVars>>

\* writeSourceFile returns an error: the file cannot be opened, or its write breaks off
\* after the old contents are gone.
WriteFails ==
  /\ pc \in {"truncate", "fill"} /\ faults < MaxFaults
  /\ faults' = faults + 1
  /\ pc' = "idle" /\ exit' = "unwritten"
  /\ UNCHANGED <<files, work, orphans, settled, imports, spinnerVars>>

\* The process is killed.
Crash ==
  /\ pc \in {"fetch", "download", "copy", "stopping", "truncate", "fill"}
  /\ faults < MaxFaults
  /\ faults' = faults + 1
  /\ pc' = "idle" /\ exit' = "crashed"
  /\ orphans' = {}
  /\ Exit
  /\ UNCHANGED <<files, work, settled, imports>>

\* The goroutine of the spinner in use.
SpinnerTicks == Tick /\ UNCHANGED <<files, pc, work, exit, orphans, ghosts>>
SpinnerEnds == Finish /\ UNCHANGED <<files, pc, work, exit, orphans, ghosts>>

\* A tick of one that the menu has left running, on the line the cursor is in.
OrphanTicks ==
  /\ \E m \in orphans : screen' = IF Columns[m] > screen THEN Columns[m] ELSE screen
  /\ UNCHANGED <<files, pc, work, exit, orphans, ghosts, message, stop, done, lastLen, drawn>>

importBandcamp ==
  \/ FetchFails \/ Refuse \/ Fetched \/ Create \/ Copy \/ DownloadFails \/ Downloaded
  \/ StopReturns \/ TruncateSource \/ FillSource \/ WriteFails

ImportNext == Begin \/ importBandcamp \/ Crash \/ SpinnerTicks \/ SpinnerEnds \/ OrphanTicks

-----------------------------------------------------------------------------
\* Properties.

ImportTypeOK ==
  /\ Readable(sourceFile) => sourceFile \in SourceFiles
  /\ assets \in [Files -> AllPages \cup {NoFile, Torn}]
  /\ work.todo \in Seq(Files)
  /\ orphans \subseteq Messages /\ settled \subseteq AlbumIDs
  /\ message \in Messages /\ drawn \subseteq Messages
  /\ stop \in BOOLEAN /\ done \in BOOLEAN /\ lastLen \in Nat /\ screen \in Nat
  /\ imports \in 0 .. MaxImports /\ faults \in 0 .. MaxFaults

\* When Stop has returned, its goroutine draws no more, in whichever order the tick and the
\* stop were seen, and it has left the line blank if the lengths in bytes could tell which of
\* the lines drawn was longer.  That is as long as no spinner of an earlier import is left
\* running.  (spinner.go:76-78, 99-122)
LineIsBlankAfterStop ==
  stop /\ pc # "stopping" /\ orphans = {} => done /\ (Alike(drawn) => screen = 0)

\* The albums of a source file; one that does not parse counts as none.
CatalogOf(f) == IF Readable(f) THEN f.catalog ELSE <<>>

\* An import that fails before it writes, or is refused, leaves the source as it was.  One
\* that succeeds leaves one that can be read, with its page under its id and every album
\* of another id that could be read before.  When the write fails the source is as before
\* or cut, never another catalog.  (import_cmd.go:81-145, KB/0005-bandcamp-import.md:45)
SourceKept ==
  pc = "idle" =>
    /\ exit \in {"failed", "refused"} => sourceFile = work.before
    /\ exit = "unwritten" => sourceFile \in {work.before, Torn}
    /\ exit = "imported" =>
         /\ Readable(sourceFile)
         /\ DOMAIN sourceFile.catalog = DOMAIN CatalogOf(work.before) \cup {AlbumID(work.page)}
         /\ sourceFile.catalog[AlbumID(work.page)] = work.page
         /\ \A a \in DOMAIN CatalogOf(work.before) \ {AlbumID(work.page)} :
              sourceFile.catalog[a] = CatalogOf(work.before)[a]

\* After an import with downloads each file that its page offers is that page's, or the
\* beginning of it when it is too large, until the next import of an album with that id
\* touches the files: what an earlier import, of this page or of another with the same slug,
\* has left under the same names is gone.  A declared track that the page has no stream for
\* keeps whatever file was there.  (import_cmd.go:199-244)
AssetsMatchSource ==
  Readable(sourceFile) => \A a \in DOMAIN sourceFile.catalog \cap settled :
    \A f \in ToSet(Downloads(sourceFile.catalog[a])) : assets[f] = Saved(sourceFile.catalog[a], f)

\* Stop comes back: it is not left waiting for a goroutine that never sees the stop.
\* (spinner.go:31-38, 99-110)
StopEnds == pc = "stopping" ~> pc # "stopping"
=============================================================================
