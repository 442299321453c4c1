SPECIFICATION Spec
CONSTANTS
  Error = Error
  Nothing = Nothing
  W32 = 65536
  W64 = 1073741824
  HoursPerDay = 3
  MinutesPerHour = 2
  SecondsPerMinute = 2
  MicrosPerSecond = 3
  NanosPerMicro = 2
  DURATION_MAX_SECONDS = 40
  MAX_DEPTH = 4
  Years = {1, 4, 100, 400, 1900, 1969, 1970, 1999, 2000, 2001, 2004, 2100, 9999}
  Given <- MCGiven
  Received <- MCReceived
INVARIANTS
  RefusesExactly
  RoundTrips
  TimesReadExactly
  ReadsAgain
