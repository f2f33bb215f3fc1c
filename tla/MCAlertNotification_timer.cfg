\* The timer's runs alone, with every condition.
SPECIFICATION FairSpec
CONSTANTS
  Senders = {timer}
  Timer = timer
  Conditions = {"not_initialized", "healthy", "warning", "critical"}
  Interval <- MCInterval
  MaxClock = 2
  MaxBacks = 1
  timer = timer
PROPERTY EventuallyTold
