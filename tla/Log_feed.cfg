\* Resent bodies, a replay after a redeploy, dropped connections, one follower.
SPECIFICATION FeedSpec
CONSTANTS
  Event <- MCEvent
  Unreadable <- MCUnreadable
  BodyMax = 2
  CatchupMax = 1
  PageMax = 1
  ReplayWindow = 2
  MaxPosts = 3
  MaxDrops = 2
INVARIANTS
  NoGapNoRepeat
PROPERTIES
  ReplayRecovers
  FollowerCatchesUp
CHECK_DEADLOCK FALSE
