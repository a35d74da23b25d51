----------------------------- MODULE AlbumPage -----------------------------
(***************************************************************************)
(* The web client's pages (web/src): the reader moves between the list of  *)
(* albums and the pages of albums, each of which asks the catalog for what *)
(* it shows (BrowseList.jsx, AlbumPage.jsx); an album's page has a player  *)
(* (AlbumPlayer.jsx).                                                      *)
(*                                                                         *)
(* React renders a new route with the old state, then runs the clean-up of *)
(* the old effect and the new effect: these are two steps here, with       *)
(* anything in between.  So are the player's first picture, which shows    *)
(* the first track, and its effect, which reads the query parameter song:  *)
(* a click may come in between.  The render that a click asks for runs the *)
(* effects that are due first, so at most one does.  An audio element that *)
(* leaves the page is gone.                                                *)
(***************************************************************************)
EXTENDS Integers, Sequences, FiniteSets

CONSTANTS
  Routes,   \* the pages of albums
  Home,     \* the list
  Tracks,   \* Tracks[r]: the answers that the catalog may give for r, sequences of track numbers
  None,
  MaxMoves  \* bound: moves to another page

Numbers == UNION {{t[i] : i \in DOMAIN t} : t \in UNION {Tracks[r] : r \in Routes}}

ASSUME PageAssumption ==
  /\ Home \notin Routes
  /\ MaxMoves \in Nat
  /\ \A r \in Routes : \A t \in Tracks[r] :
       /\ t \in Seq({t[i] : i \in DOMAIN t})
       /\ \A i, j \in DOMAIN t : i # j => t[i] # t[j]

VARIABLES
  route,    \* the page in the address bar
  song,     \* the query parameter song, or None
  effect,   \* the page whose effect ran last, and the number of that run
  pending,  \* the requests without an answer, by that number
  page,     \* the page's state: "loading", "error", "list", "player" or "crashed"
  player,   \* the player: its page, its tracks, the current one, the audio element, whether
            \* its effect has run; and, for the properties, whether the play began before that
  moves

vars == <<route, song, effect, pending, page, player, moves>>

NoPlayer == [route |-> None, tracks |-> <<>>, current |-> 1, isPlaying |-> FALSE, src |-> None,
             effect |-> "ran", began |-> "after"]

Init ==
  /\ route = Home /\ song = None
  /\ effect = [route |-> Home, run |-> 0]
  /\ pending = {effect}
  /\ page = "loading" /\ player = NoPlayer
  /\ moves = 0

-----------------------------------------------------------------------------
\* The reader follows a link or uses the browser's buttons; a link may name a track.
Move ==
  /\ moves < MaxMoves /\ page # "crashed" /\ player.effect # "next"
  /\ \E r \in (Routes \cup {Home}) \ {route}, n \in Numbers \cup {None} :
       route' = r /\ song' = n
  /\ moves' = moves + 1
  /\ UNCHANGED <<effect, pending, page, player>>

\* The effect of the new route: the old one's answers are cancelled, the player goes.
RunEffect ==
  /\ effect.route # route /\ page # "crashed" /\ player.effect = "ran"
  /\ effect' = [route |-> route, run |-> moves]
  /\ pending' = pending \cup {effect'}
  /\ page' = "loading" /\ player' = NoPlayer
  /\ UNCHANGED <<route, song, moves>>

\* Mutant: the answer does not look at the flag.
NeverCancelled(q) == FALSE

\* Mutant: one flag for all the effects of a page, set by the first clean-up.
CancelledForGood(q) == effect.run > 0

Cancelled(q) == q # effect

AnswerCancelled ==
  /\ \E q \in pending : Cancelled(q) /\ pending' = pending \ {q}
  /\ UNCHANGED <<route, song, effect, page, player, moves>>

\* The answer is an album: the player is rendered, and fails on one without tracks.
AnswerAlbum ==
  /\ \E q \in pending :
       /\ ~Cancelled(q) /\ q.route # Home
       /\ pending' = pending \ {q}
       /\ \E t \in Tracks[q.route] :
            /\ page' = IF t = <<>> THEN "crashed" ELSE "player"
            /\ player' = IF t = <<>> THEN NoPlayer
                         ELSE [NoPlayer EXCEPT !.route = q.route, !.tracks = t, !.effect = "due"]
  /\ UNCHANGED <<route, song, effect, moves>>

\* The list, or the news that there is no such album or no catalog.
AnswerOther ==
  /\ \E q \in pending :
       /\ ~Cancelled(q)
       /\ pending' = pending \ {q}
       /\ page' \in IF q.route = Home THEN {"list", "error"} ELSE {"error"}
  /\ UNCHANGED <<route, song, effect, player, moves>>

-----------------------------------------------------------------------------
\* The player.

\* Mutant: findIndex's -1 is taken for a track.
TrackOfRaw(tracks, n, i) ==
  IF \E j \in DOMAIN tracks : tracks[j] = n
  THEN CHOOSE j \in DOMAIN tracks : tracks[j] = n ELSE 0

\* findIndex of the track that the query names; without one track i stays.
TrackOf(tracks, n, i) ==
  IF \E j \in DOMAIN tracks : tracks[j] = n
  THEN CHOOSE j \in DOMAIN tracks : tracks[j] = n ELSE i

\* The player's effect moves to the track that the address names by now.
PlayerEffect ==
  /\ player.effect # "ran"
  /\ player' = [player EXCEPT !.current = TrackOf(player.tracks, song, @), !.effect = "ran"]
  /\ UNCHANGED <<route, song, effect, pending, page, moves>>

\* What a click leaves the player's effect in: it runs next if it has not run.
AfterClick == IF player.effect = "ran" THEN "ran" ELSE "next"

\* Mutant: the audio element keeps the file that it has.
playTrackKept(i) ==
  /\ i \in DOMAIN player.tracks
  /\ player' = [player EXCEPT !.current = i, !.isPlaying = TRUE, !.effect = AfterClick,
                              !.src = IF @ = None THEN player.tracks[i] ELSE @, !.began = "after"]
  /\ song' = player.tracks[i]

playTrack(i) ==
  /\ i \in DOMAIN player.tracks
  /\ player' = [player EXCEPT !.current = i, !.isPlaying = TRUE, !.effect = AfterClick,
                              !.src = player.tracks[i], !.began = "after"]
  /\ song' = player.tracks[i]

PlayTrack == \E i \in DOMAIN player.tracks : playTrack(i)

prevTrack == playTrack(IF player.current = 1 THEN Len(player.tracks) ELSE player.current - 1)

\* The button, and the end of the track that is playing.
nextTrack == playTrack((player.current % Len(player.tracks)) + 1)

togglePlay ==
  /\ player' = IF player.isPlaying THEN [player EXCEPT !.isPlaying = FALSE]
               ELSE [player EXCEPT !.isPlaying = TRUE, !.effect = AfterClick,
                       !.src = IF @ = None THEN player.tracks[player.current] ELSE @,
                       !.began = IF player.src # None THEN @
                                 ELSE IF player.effect = "due" THEN "before" ELSE "after"]
  /\ UNCHANGED song

Play ==
  /\ page = "player" /\ player.effect # "next"
  /\ PlayTrack \/ prevTrack \/ nextTrack \/ togglePlay
  /\ UNCHANGED <<route, effect, pending, page, moves>>

Answer == AnswerCancelled \/ AnswerAlbum \/ AnswerOther

Next == Move \/ RunEffect \/ Answer \/ PlayerEffect \/ Play

\* React runs effects; a request is answered or fails, as far as the browser sees to it.
Spec ==
  Init /\ [][Next]_vars /\ WF_vars(RunEffect) /\ WF_vars(PlayerEffect) /\ WF_vars(Answer)

-----------------------------------------------------------------------------
\* Properties.

TypeOK ==
  /\ route \in Routes \cup {Home} /\ song \in Numbers \cup {None}
  /\ effect.route \in Routes \cup {Home} /\ effect.run \in 0 .. moves
  /\ page \in {"loading", "error", "list", "player", "crashed"}
  /\ player.current \in DOMAIN player.tracks \/ player = NoPlayer
  /\ player.src \in Numbers \cup {None}
  /\ player.effect \in {"due", "next", "ran"} /\ player.began \in {"before", "after"}
  /\ moves \in 0 .. MaxMoves

\* Once its effect has run a page shows what was asked for its own route, in whatever
\* order the answers come.  (AlbumPage.jsx:29-61, BrowseList.jsx:22-34)
PageShowsRoute ==
  effect.route = route =>
    /\ page = "player" => player.route = route
    /\ page = "list" => route = Home

\* The file in the audio element is that of the track which the page shows as the current
\* one, however the reader came here, what the other album played, and whether the player
\* has read the address yet.  One case is left: who presses Play on the first picture,
\* before the effect has moved to the track that the link names, hears the first track
\* until a track is chosen.  (AlbumPlayer.jsx:83-152)
PlaysWhatIsShown ==
  page = "player" /\ player.effect # "next" /\ player.src # None =>
    player.src = player.tracks[IF player.began = "before" THEN 1 ELSE player.current]

\* A page does not stay in loading: when the reader rests, an answer to the request of
\* the page in the address bar is shown, or an album without tracks took the client
\* down.  (AlbumPage.jsx:29-53)
PageSettles == page = "loading" ~> page = "crashed" \/ (page # "loading" /\ effect.route = route)
=============================================================================
