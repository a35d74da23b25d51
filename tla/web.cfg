\* A reader moves five times between the list and two albums, and plays tracks.
\* When the moves are used up on a page without a player nothing is left to do.
CONSTANTS
  Routes = {"a", "b"}
  Home = "/"
  Tracks <- TwoAlbums
  None = None
  MaxMoves = 5
SPECIFICATION Spec
INVARIANTS
  TypeOK
  PageShowsRoute
  PlaysWhatIsShown
PROPERTIES
  PageSettles
CHECK_DEADLOCK FALSE
