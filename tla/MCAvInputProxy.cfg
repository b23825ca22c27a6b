SPECIFICATION ProxySpec
CONSTANTS
  Configs <- MCConfigs
  MaxAttempts = 2
  MaxSessions = 1
INVARIANTS InfoMatchesInput EofSeenOnce RetryBudget
PROPERTIES CallsReturn
CHECK_DEADLOCK FALSE
