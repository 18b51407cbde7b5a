CONSTANTS
  Thread = {Main, t1, t2}
  Main = Main
  Frame = {f1}
  NoFrame = NoFrame
  MaxValues = 2
SPECIFICATION FairSpec
INVARIANT CollectedIsDestroyed
CHECK_DEADLOCK FALSE
