SPECIFICATION FairSpec
CONSTANTS
  Topic = {t1, t2}
  CleanSession = FALSE
  MaxLinks = 3
  MaxCommands = 2
INVARIANTS TypeOK FlagTracksLink NoSubscriptionForgotten UnsubscribedIsGone
PROPERTY RecordedIsSubscribed
CHECK_DEADLOCK FALSE
