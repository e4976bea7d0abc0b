\* One session, two stories, two requests and two runs of the cron that overlap, one failure.
SPECIFICATION FairSpec
CONSTANTS
  StoryIds = {s1, s2}
  Sessions = {n1}
  Requests = {r1, r2}
  Publishers = {k1, k2}
  Never = Never
  MaxTime = 1
  MaxBegun = 2
  MaxFailures = 1
INVARIANTS SilenceIsExplained AnnouncedBounded
PROPERTY DueIsPublished
CHECK_DEADLOCK FALSE
