SPECIFICATION Spec
CONSTANTS
  sys = sys
  power = power
  radio = radio
  Leds = {sys, power, radio}
  SystemLed = sys
  LedPatterns <- shortPatterns
  BadPatterns = {4}
  MaxWrites = 3
INVARIANTS LastWriteCounts PatternHasTimer UnloadedIsDark
CHECK_DEADLOCK FALSE
