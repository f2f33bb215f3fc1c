\* Two overlapping runs of the sender.
SPECIFICATION Spec
CONSTANTS
  Senders = {timer, manual}
  Timer = timer
  Conditions = {"healthy", "warning"}
  Interval <- MCInterval
  MaxClock = 3
  MaxBacks = 1
  timer = timer
  manual = manual
PROPERTY RecordedWasReceived
PROPERTY RemindersApart
PROPERTY RecoveryFollowsAlarm
