------------------------------ MODULE Protocol ------------------------------
(***************************************************************************)
(* The signed data of the endonend protocol: the history log and its hash  *)
(* chain (protocol/history), the manifest (protocol/manifest) and the part *)
(* of the shared validator (protocol/validate) that relates the two.       *)
(*                                                                         *)
(* Names, split terms, album contents and keys are opaque values; what the *)
(* validator finds wrong in one of them by itself is given by a constant.  *)
(* A signature is the key whose private half made it: the tools sign what  *)
(* they have just built, with ed25519, so it verifies exactly under that   *)
(* key.  A SHA-256 hash covers an entry and, through previousHash,         *)
(* everything before it; taking hashes to be free of collisions, a digest  *)
(* IS the sequence of signed payloads it commits to.  Timestamps are left  *)
(* out: entries written within one second do not differ by them.           *)
(***************************************************************************)
EXTENDS Integers, Sequences, FiniteSets

CONSTANTS
  Urls,      \* values of identity.url
  Keys,      \* ed25519 keypairs
  Profiles,  \* (identity.name, identity.contactEmail)
  Labels,    \* values of the manifest's label object, its absence included
  Albums,    \* album ids
  Contents,  \* everything about an album but its id and version
  Extras,    \* the manifest's other fields, which no log entry speaks of: manifestVersion,
             \* refresh, contributions, beacon, merch, presentation
  Tracks,    \* Tracks[c]: the track ids of the content c
  Fails,     \* Fails[check]: the values above that fail that check of the validator
  Unlisted   \* what a catalog holds for an album that is not in it

-----------------------------------------------------------------------------
\* The log.

IdentityUpdated == [type : {"identity_updated"}, old : Profiles, new : Profiles]
SplitChanged    == [type : {"split_changed"}, old : Labels, new : Labels]
ReleaseAdded    == [type : {"release_added"}, album : Albums]
ReleaseUpdated  == [type : {"release_updated"}, album : Albums, old : Nat, new : Nat]
ReleaseRemoved  == [type : {"release_removed"}, album : Albums, version : Nat]
KeyRotated      == [type : {"key_rotated"}, old : Keys, new : Keys]

\* The types of entry that generate derives from a changed source.
CatalogChanges == ReleaseAdded \cup ReleaseUpdated \cup ReleaseRemoved
SourceChanges  == IdentityUpdated \cup SplitChanged \cup CatalogChanges
Changes        == SourceChanges \cup KeyRotated

Signed  == [data : Changes, signer : Keys]
Digests == Seq(Signed)
Entries == [data : Changes, signer : Keys, prev : Digests]

Hash(e) == Append(e.prev, [data |-> e.data, signer |-> e.signer])

HeadHash(h) == IF h = <<>> THEN <<>> ELSE Hash(h[Len(h)])

\* Every entry's previousHash is the hash of the entry before it, and empty on
\* the genesis entry.
VerifyChain(h) ==
  \A i \in DOMAIN h : h[i].prev = IF i = 1 THEN <<>> ELSE Hash(h[i - 1])

\* Mutant of Chain: the first new entry forgets the entry before it.
ChainFromGenesis(h, cs, k) ==
  LET signed == [j \in DOMAIN cs |-> [data |-> cs[j], signer |-> k]]
  IN  h \o [j \in DOMAIN cs |->
              [data |-> cs[j], signer |-> k, prev |-> SubSeq(signed, 1, j - 1)]]

\* The log h with the changes cs signed by k and chained onto it.
Chain(h, cs, k) ==
  LET signed == [j \in DOMAIN cs |-> [data |-> cs[j], signer |-> k]]
  IN  h \o [j \in DOMAIN cs |->
              [data |-> cs[j], signer |-> k,
               prev |-> HeadHash(h) \o SubSeq(signed, 1, j - 1)]]

-----------------------------------------------------------------------------
\* The manifest.

PublishedAlbum == [content : Contents, version : Nat]

FieldChecks == {"version", "urls", "images", "splits"}

ASSUME UnlistedAssumption == Unlisted \notin Contents /\ Unlisted \notin PublishedAlbum

ASSUME FieldAssumption == DOMAIN Tracks = Contents /\ DOMAIN Fails = FieldChecks

Listed(catalog) == {a \in DOMAIN catalog : catalog[a] # Unlisted}

Manifests ==
  [url : Urls, type : {"artist", "label"}, key : Keys, profile : Profiles,
   label : Labels, extra : Extras, catalog : [Albums -> PublishedAlbum \cup {Unlisted}],
   head : Digests, signer : Keys]

-----------------------------------------------------------------------------
\* The validator's view of a manifest m next to a log h.

Rotations(h) == {i \in DOMAIN h : h[i].data.type = "key_rotated"}

IsFirst(i, S) == i \in S /\ \A j \in S : i <= j

\* The key the walk over the log starts with: what the first rotation retires,
\* or the manifest's own key when the log holds none.
InitialKey(h, pk) ==
  IF Rotations(h) = {} THEN pk
  ELSE h[CHOOSE i \in Rotations(h) : IsFirst(i, Rotations(h))].data.old

\* The key in effect when entry i was written: the new key of the last
\* rotation before it.
KeyBefore(h, pk, i) ==
  LET earlier == {j \in Rotations(h) : j < i}
  IN  IF earlier = {} THEN InitialKey(h, pk)
      ELSE h[CHOOSE j \in earlier : \A l \in earlier : l <= j].data.new

CheckKeyRotationChain(m, h) ==
  h # <<>> =>
    /\ \A i \in DOMAIN h :
         IF i \in Rotations(h)
           THEN /\ h[i].data.old = KeyBefore(h, m.key, i)
                /\ h[i].signer = h[i].data.old
           ELSE h[i].signer = KeyBefore(h, m.key, i)
    /\ KeyBefore(h, m.key, Len(h) + 1) = m.key

CheckHistory(m, h) ==
  /\ VerifyChain(h)
  /\ m.head # <<>> => m.head = HeadHash(h)
  /\ CheckKeyRotationChain(m, h)

CheckSignature(m) == m.signer = m.key

\* The contents of a manifest's albums, as a source has them.
ContentOf(m) ==
  [a \in DOMAIN m.catalog |->
     IF m.catalog[a] = Unlisted THEN Unlisted ELSE m.catalog[a].content]

\* Names, the address, the e-mail, the ttl and history.url are not empty: generate makes sure.
CheckRequiredFields(m) ==
  /\ m.extra \notin Fails["version"]
  /\ m.type = "artist" => Listed(m.catalog) # {}
  /\ \A a \in Listed(m.catalog) : Tracks[ContentOf(m)[a]] # {}

\* No part of the manifest is one of the values S.
Without(m, S) ==
  /\ {m.url, m.label, m.extra} \cap S = {}
  /\ \A a \in Listed(m.catalog) : ContentOf(m)[a] \notin S

CheckURLFields(m)      == Without(m, Fails["urls"])
CheckSplitsSumTo100(m) == Without(m, Fails["splits"])

\* The pictures of the contents of a catalog.
Pictured(contents) == \A a \in Listed(contents) : contents[a] \notin Fails["images"]

CheckImages(m) == Pictured(ContentOf(m))

\* No track id twice in the contents of a catalog; its album ids are distinct as it is
\* a function of them.
UniqueTracks(contents) ==
  \A a, b \in Listed(contents) : a # b => Tracks[contents[a]] \cap Tracks[contents[b]] = {}

CheckUniqueIDs(m) == UniqueTracks(ContentOf(m))

\* validateBytes, without --deep, of two files that were read from the disk, with no
\* failure to report.
Validates(m, h) ==
  /\ CheckRequiredFields(m)
  /\ CheckURLFields(m)
  /\ CheckImages(m)
  /\ CheckSignature(m)
  /\ CheckSplitsSumTo100(m)
  /\ CheckUniqueIDs(m)
  /\ CheckHistory(m, h)
=============================================================================
