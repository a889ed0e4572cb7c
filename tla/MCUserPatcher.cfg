SPECIFICATION MCSpec
CONSTANTS
  Cells = {0, 1}
  PageCells = 4
  MatchNum = 4
  NumMods = 2
  Pages = 2
  Patches <- TwoBinaries
  Behind = 3
  Procs = {p1, p2}
  Slides = {0, 1}
  Sites = {site}
  None = none
  p1 = p1
  p2 = p2
  site = site
INVARIANTS PlacesAsTold PagesServed  SlideGiven ProcessServed
CHECK_DEADLOCK FALSE
