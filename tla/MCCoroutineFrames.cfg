CONSTANTS
  Thread = {Main, t1, t2}
  Main = Main
  Frame = {f1, f2, f3}
  NoFrame = NoFrame
  MaxValues = 2
SPECIFICATION FairSpec
INVARIANTS NeverBroken BodiesNest ValuesInOrder ArgumentAnchored
PROPERTY AbandonedIsDestroyed
CHECK_DEADLOCK FALSE
