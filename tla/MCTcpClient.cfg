CONSTANTS
  Main = Main
  Listener = Listener
  Apps <- AllApps
  MaxFrames = 3
  MaxWire = 2
SPECIFICATION FairSpec
INVARIANTS NoUndefinedBehaviour
PROPERTIES LinkSpec MainEnds FrameShown
