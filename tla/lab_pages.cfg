SPECIFICATION FairSpec
CONSTANTS
  None = None
  Inputs = {1, 2, 3}
  Default = 1
  TooFew = {3}
  MaxEdits = 3
  MaxPoints = 3
  LastFrame = 2
  NPaths = 2
  InfoButtons = {"form", "figures"}
  FigureButtons = {"figures"}
INVARIANTS
  LabTypeOK
  OneLiveCall
  LastEditIsAsked
  StaleOnlyFromOvertaking
  SegmentsCoverPoints
  ScrollFollowsModal
  OneReplayAtATime
  CountMatchesCanvas
  SurfaceSpins
PROPERTIES
  GuardedPagesShowTheAnswer
  BusyEnds
