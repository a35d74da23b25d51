-------------------------- MODULE AlbumPageProofs --------------------------
(***************************************************************************)
(* Theorems about AlbumPage, for any albums and tracks, any number of      *)
(* moves and any number of requests that are open at a time.               *)
(***************************************************************************)
EXTENDS AlbumPage, TLAPS

\* The player's fields, and no others.
IsPlayer ==
  /\ player = [route |-> player.route, tracks |-> player.tracks, current |-> player.current,
            isPlaying |-> player.isPlaying, src |-> player.src,
            effect |-> player.effect, began |-> player.began]
  /\ player.effect \in {"due", "next", "ran"} /\ player.began \in {"before", "after"}

\* The page follows the effect that ran last, which lags behind the address bar.
ShowsEffect ==
  /\ page = "player" => player.route = effect.route
  /\ page = "list" => effect.route = Home

\* The file that should be in the audio element, wherever the reader has moved on to.
Shown == player.tracks[IF player.began = "before" THEN 1 ELSE player.current]

\* Before the effect nothing plays, and the first track is the current one.  A click
\* before it leaves its track in the address too, where the effect finds it.
PlaysCurrent ==
  page = "player" =>
    /\ player.effect = "due" => player.src = None /\ player.current = 1
    /\ player.src # None => player.src = Shown
    /\ player.effect = "next" /\ player.began = "after" => player.src = song

PageInv == IsPlayer /\ ShowsEffect /\ PlaysCurrent

LEMMA AnswerStep ==
  ASSUME PageInv, Answer
  PROVE  PageInv'
<1>1. CASE AnswerCancelled
  BY <1>1 DEF AnswerCancelled, PageInv, IsPlayer, ShowsEffect, PlaysCurrent, Shown
<1>2. CASE AnswerOther
  BY <1>2 DEF AnswerOther, Cancelled, PageInv, IsPlayer, ShowsEffect, PlaysCurrent, Shown
<1>3. CASE AnswerAlbum
  <2>1. PICK t \in Tracks[effect.route] :
          /\ page' = IF t = <<>> THEN "crashed" ELSE "player"
          /\ player' = IF t = <<>> THEN NoPlayer
                       ELSE [NoPlayer EXCEPT !.route = effect.route, !.tracks = t,
                                             !.effect = "due"]
          /\ effect' = effect
    BY <1>3 DEF AnswerAlbum, Cancelled
  <2>2. CASE t = <<>>
    BY <2>1, <2>2 DEF NoPlayer, PageInv, IsPlayer, ShowsEffect, PlaysCurrent, Shown
  <2>3. CASE t # <<>>
    <3>1. player' = [route |-> effect.route, tracks |-> t, current |-> 1,
                     isPlaying |-> FALSE, src |-> None, effect |-> "due", began |-> "after"]
      BY <2>1, <2>3 DEF NoPlayer
    <3>2. page' = "player" /\ effect' = effect
      BY <2>1, <2>3
    <3>3. QED  BY <3>1, <3>2 DEF PageInv, IsPlayer, ShowsEffect, PlaysCurrent, Shown
  <2>4. QED  BY <2>2, <2>3
<1>4. QED  BY <1>1, <1>2, <1>3 DEF Answer

\* What a click leaves, when it chooses track i, and when it is the play button.
LEMMA Chosen ==
  ASSUME PageInv, NEW i, playTrack(i)
  PROVE  /\ i \in DOMAIN player.tracks /\ song' = player.tracks[i]
         /\ player' = [route |-> player.route, tracks |-> player.tracks, current |-> i,
                       isPlaying |-> TRUE, src |-> player.tracks[i],
                       effect |-> AfterClick, began |-> "after"]
BY DEF playTrack, PageInv, IsPlayer

LEMMA Toggled ==
  ASSUME PageInv, togglePlay
  PROVE  /\ song' = song
         /\ \/ /\ player.isPlaying
               /\ player' = [route |-> player.route, tracks |-> player.tracks,
                             current |-> player.current, isPlaying |-> FALSE,
                             src |-> player.src, effect |-> player.effect,
                             began |-> player.began]
            \/ /\ ~player.isPlaying
               /\ player' = [route |-> player.route, tracks |-> player.tracks,
                             current |-> player.current, isPlaying |-> TRUE,
                             src |-> IF player.src = None THEN player.tracks[player.current]
                                     ELSE player.src,
                             effect |-> AfterClick,
                             began |-> IF player.src # None THEN player.began
                                       ELSE IF player.effect = "due" THEN "before"
                                       ELSE "after"]
BY DEF togglePlay, PageInv, IsPlayer

LEMMA PlayStep ==
  ASSUME PageInv, Play
  PROVE  PageInv'
<1>1. page = "player" /\ page' = page /\ effect' = effect /\ player.effect \in {"due", "ran"}
  BY DEF Play, PageInv, IsPlayer
<1>2. AfterClick = (IF player.effect = "due" THEN "next" ELSE "ran")
  BY <1>1 DEF AfterClick
<1>3. ASSUME NEW i, playTrack(i) PROVE PageInv'
  <2>1. /\ player'.route = player.route /\ player'.tracks = player.tracks
        /\ player'.current = i /\ player'.src = player.tracks[i] /\ song' = player.tracks[i]
        /\ player'.effect = AfterClick /\ player'.began = "after"
    BY <1>3, Chosen
  <2>2. IsPlayer'
    BY <1>2, <1>3, Chosen DEF IsPlayer
  <2>3. PlaysCurrent'
    BY <1>1, <1>2, <2>1 DEF PlaysCurrent, Shown
  <2>4. QED  BY <1>1, <2>1, <2>2, <2>3 DEF PageInv, ShowsEffect
<1>4. CASE togglePlay
  <2>1. CASE player.isPlaying
    <3>1. /\ player'.route = player.route /\ player'.tracks = player.tracks
          /\ player'.current = player.current /\ song' = song
          /\ player'.src = player.src /\ player'.effect = player.effect
          /\ player'.began = player.began
      BY <1>4, <2>1, Toggled
    <3>2. IsPlayer'
      BY <1>4, <2>1, Toggled DEF PageInv, IsPlayer
    <3>3. QED  BY <1>1, <3>1, <3>2 DEF PageInv, ShowsEffect, PlaysCurrent, Shown
  <2>2. CASE ~player.isPlaying
    <3>1. /\ player'.route = player.route /\ player'.tracks = player.tracks
          /\ player'.current = player.current /\ song' = song
          /\ player'.effect = AfterClick
          /\ player'.src = IF player.src = None THEN player.tracks[player.current]
                           ELSE player.src
          /\ player'.began = IF player.src # None THEN player.began
                             ELSE IF player.effect = "due" THEN "before" ELSE "after"
      BY <1>4, <2>2, Toggled
    <3>2. IsPlayer'
      <4>1. player'.effect \in {"due", "next", "ran"} /\ player'.began \in {"before", "after"}
        BY <1>2, <3>1 DEF PageInv, IsPlayer
      <4>2. QED  BY <1>4, <2>2, <4>1, Toggled DEF IsPlayer
    <3>3. QED  BY <1>1, <1>2, <3>1, <3>2 DEF PageInv, ShowsEffect, PlaysCurrent, Shown
  <2>3. QED  BY <2>1, <2>2
<1>5. QED  BY <1>3, <1>4 DEF Play, PlayTrack, prevTrack, nextTrack

\* findIndex gives the track named, or leaves the current one.
LEMMA TrackNamed ==
  ASSUME NEW t, NEW n, NEW i, i \in DOMAIN t
  PROVE  /\ TrackOf(t, n, i) \in DOMAIN t
         /\ TrackOf(t, n, i) = i \/ t[TrackOf(t, n, i)] = n
BY DEF TrackOf

LEMMA EffectStep ==
  ASSUME PageInv, PlayerEffect
  PROVE  PageInv'
<1> DEFINE k == TrackOf(player.tracks, song, player.current)
<1>1. player' = [route |-> player.route, tracks |-> player.tracks, current |-> k,
                 isPlaying |-> player.isPlaying, src |-> player.src, effect |-> "ran",
                 began |-> player.began]
  BY DEF PlayerEffect, PageInv, IsPlayer
<1>2. k = player.current \/ player.tracks[k] = song
  BY DEF TrackOf
<1>3. player.effect \in {"due", "next"} /\ UNCHANGED <<song, effect, page>>
  BY DEF PlayerEffect, PageInv, IsPlayer
<1> HIDE DEF k
<1>4. QED  BY <1>1, <1>2, <1>3 DEF PageInv, IsPlayer, ShowsEffect, PlaysCurrent, Shown

LEMMA PageInit == Init => PageInv
BY DEF Init, NoPlayer, PageInv, IsPlayer, ShowsEffect, PlaysCurrent, Shown

LEMMA PageStep ==
  ASSUME PageInv, [Next]_vars
  PROVE  PageInv'
<1>1. CASE Move
  BY <1>1 DEF Move, PageInv, IsPlayer, ShowsEffect, PlaysCurrent, Shown
<1>2. CASE RunEffect
  BY <1>2 DEF RunEffect, NoPlayer, PageInv, IsPlayer, ShowsEffect, PlaysCurrent, Shown
<1>3. CASE UNCHANGED vars
  BY <1>3 DEF vars, PageInv, IsPlayer, ShowsEffect, PlaysCurrent, Shown
<1>4. QED  BY <1>1, <1>2, <1>3, AnswerStep, EffectStep, PlayStep DEF Next

-----------------------------------------------------------------------------
\* The player's current track is one of its own, and what it plays is a track's file.

Current ==
  /\ player.tracks \in Seq(Numbers)
  /\ player.current \in DOMAIN player.tracks

PageKinds ==
  /\ route \in Routes \cup {Home} /\ song \in Numbers \cup {None}
  /\ effect \in [route : Routes \cup {Home}, run : 0 .. moves]
  /\ page \in {"loading", "error", "list", "player", "crashed"}
  /\ player.src \in Numbers \cup {None}
  /\ player.effect \in {"due", "next", "ran"} /\ player.began \in {"before", "after"}
  /\ Current \/ (player = NoPlayer /\ page # "player")
  /\ moves \in 0 .. MaxMoves

LEMMA AlbumTracks ==
  ASSUME NEW r \in Routes, NEW t \in Tracks[r], t # <<>>
  PROVE  t \in Seq(Numbers) /\ 1 \in DOMAIN t
<1> DEFINE S == {t[i] : i \in DOMAIN t}
<1>1. t \in Seq(S)
  BY PageAssumption
<1>2. S \subseteq Numbers
  BY DEF Numbers
<1> HIDE DEF S
<1>3. t \in Seq(Numbers)
  BY <1>1, <1>2
<1>4. QED  BY <1>1, <1>3

LEMMA KindsAnswered ==
  ASSUME PageKinds, AnswerAlbum
  PROVE  PageKinds'
<1>1. PICK t \in Tracks[effect.route] :
        /\ page' = IF t = <<>> THEN "crashed" ELSE "player"
        /\ player' = IF t = <<>> THEN NoPlayer
                     ELSE [NoPlayer EXCEPT !.route = effect.route, !.tracks = t,
                                           !.effect = "due"]
        /\ effect.route # Home
        /\ UNCHANGED <<route, song, effect, moves>>
  BY DEF AnswerAlbum, Cancelled
<1>2. effect.route \in Routes
  BY <1>1 DEF PageKinds
<1>3. CASE t = <<>>
  BY <1>1, <1>3 DEF PageKinds, NoPlayer
<1>4. CASE t # <<>>
  <2>1. player' = [route |-> effect.route, tracks |-> t, current |-> 1,
                   isPlaying |-> FALSE, src |-> None, effect |-> "due", began |-> "after"]
    BY <1>1, <1>4 DEF NoPlayer
  <2>2. t \in Seq(Numbers) /\ 1 \in DOMAIN t
    BY <1>2, <1>4, AlbumTracks
  <2>3. Current' /\ player'.src = None /\ player'.effect = "due" /\ player'.began = "after"
    BY <2>1, <2>2 DEF Current
  <2>4. QED  BY <1>1, <1>4, <2>3 DEF PageKinds
<1>5. QED  BY <1>3, <1>4

LEMMA KindsPlayed ==
  ASSUME PageInv, PageKinds, Play
  PROVE  PageKinds'
<1>1. page = "player" /\ UNCHANGED <<route, effect, page, moves>>
  BY DEF Play
<1>2. Current
  BY <1>1 DEF PageKinds
<1>3. \A i \in DOMAIN player.tracks : player.tracks[i] \in Numbers
  BY <1>2 DEF Current
<1>4. AfterClick \in {"next", "ran"}
  BY DEF AfterClick
<1>5. ASSUME NEW i, playTrack(i) PROVE PageKinds'
  <2>1. Current' /\ player'.src \in Numbers /\ song' \in Numbers
    BY <1>2, <1>3, <1>5, Chosen DEF Current
  <2>2. player'.effect \in {"due", "next", "ran"} /\ player'.began \in {"before", "after"}
    <3>1. player'.effect = AfterClick /\ player'.began = "after"
      BY <1>5, Chosen
    <3>2. QED  BY <1>4, <3>1
  <2>3. QED  BY <1>1, <2>1, <2>2 DEF PageKinds
<1>6. CASE togglePlay
  <2>1. song' = song /\ Current' /\ player'.src \in Numbers \cup {None}
    BY <1>2, <1>3, <1>6, Toggled DEF Current, PageKinds
  <2>2. player'.effect \in {"due", "next", "ran"}
    BY <1>4, <1>6, Toggled DEF PageKinds
  <2>3. player'.began \in {"before", "after"}
    BY <1>6, Toggled DEF PageKinds
  <2>4. QED  BY <1>1, <2>1, <2>2, <2>3 DEF PageKinds
<1>7. QED  BY <1>5, <1>6 DEF Play, PlayTrack, prevTrack, nextTrack

LEMMA KindsMoved ==
  ASSUME PageInv, PageKinds, PlayerEffect
  PROVE  PageKinds'
<1>1. UNCHANGED <<route, song, effect, page, moves>> /\ Current
  BY DEF PlayerEffect, PageKinds, NoPlayer
<1>2. player' = [route |-> player.route, tracks |-> player.tracks,
                 current |-> TrackOf(player.tracks, song, player.current),
                 isPlaying |-> player.isPlaying, src |-> player.src, effect |-> "ran",
                 began |-> player.began]
  BY DEF PlayerEffect, PageInv, IsPlayer
<1>3. Current'
  BY <1>1, <1>2, TrackNamed DEF Current
<1>4. player'.src = player.src /\ player'.effect = "ran" /\ player'.began = player.began
  BY <1>2
<1>5. QED  BY <1>1, <1>3, <1>4 DEF PageKinds

LEMMA KindsInit == Init => PageKinds
BY PageAssumption DEF Init, NoPlayer, PageKinds

LEMMA KindsStep ==
  ASSUME PageInv, PageKinds, [Next]_vars
  PROVE  PageKinds'
<1>0. MaxMoves \in Nat
  BY PageAssumption
<1>1. CASE Move
  <2>1. /\ route' \in Routes \cup {Home} /\ song' \in Numbers \cup {None}
        /\ moves < MaxMoves /\ moves' = moves + 1 /\ UNCHANGED <<effect, page, player>>
    BY <1>1 DEF Move
  <2>2. moves' \in 0 .. MaxMoves /\ 0 .. moves \subseteq 0 .. moves'
    BY <1>0, <2>1 DEF PageKinds
  <2>3. effect' \in [route : Routes \cup {Home}, run : 0 .. moves']
    BY <2>1, <2>2 DEF PageKinds
  <2>4. QED  BY <2>1, <2>2, <2>3 DEF PageKinds, Current
<1>2. CASE RunEffect
  <2>1. /\ effect' = [route |-> route, run |-> moves] /\ page' = "loading"
        /\ player' = NoPlayer /\ UNCHANGED <<route, song, moves>>
    BY <1>2 DEF RunEffect
  <2>2. player'.src = None /\ player'.effect = "ran" /\ player'.began = "after"
    BY <2>1 DEF NoPlayer
  <2>3. effect' \in [route : Routes \cup {Home}, run : 0 .. moves'] /\ moves' \in 0 .. MaxMoves
    BY <1>0, <2>1 DEF PageKinds
  <2>4. QED  BY <2>1, <2>2, <2>3 DEF PageKinds
<1>3. CASE AnswerCancelled \/ AnswerOther
  BY <1>3 DEF AnswerCancelled, AnswerOther, PageKinds, Current
<1>4. CASE UNCHANGED vars
  BY <1>4 DEF vars, PageKinds, Current
<1>5. QED  BY <1>1, <1>2, <1>3, <1>4, KindsAnswered, KindsMoved, KindsPlayed DEF Next, Answer

\* The current track of a player is always one of its album's, whatever track the link
\* named and however the reader skips, and what plays is a track's file.
THEOREM PageTypeCorrect == Spec => []TypeOK
<1>1. Init => PageInv /\ PageKinds
  BY PageInit, KindsInit
<1>2. PageInv /\ PageKinds /\ [Next]_vars => (PageInv /\ PageKinds)'
  BY PageStep, KindsStep
<1>3. PageKinds => TypeOK
  BY DEF PageKinds, Current, TypeOK
<1>4. QED  BY <1>1, <1>2, <1>3, PTL DEF Spec

\* In whatever order answers come and however the reader moves, a page shows what was
\* asked for its own route.
THEOREM ShowsOwnRoute == Spec => []PageShowsRoute
<1>1. Spec => []PageInv
  BY PageInit, PageStep, PTL DEF Spec
<1>2. PageInv => PageShowsRoute
  BY DEF PageInv, ShowsEffect, PageShowsRoute
<1>3. QED  BY <1>1, <1>2, PTL

\* The file that plays is the one of the track shown as current, or the first when Play
\* was pressed before the player had read the address.
THEOREM PlaysShownTrack == Spec => []PlaysWhatIsShown
<1>1. Spec => []PageInv
  BY PageInit, PageStep, PTL DEF Spec
<1>2. PageInv => PlaysWhatIsShown
  BY DEF PageInv, PlaysCurrent, Shown, PlaysWhatIsShown
<1>3. QED  BY <1>1, <1>2, PTL
=============================================================================
