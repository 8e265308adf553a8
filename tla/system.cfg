SPECIFICATION SystemSpec
CONSTANT Reports = {a, b}
INVARIANTS NothingInFlight TakeTurns
PROPERTIES PartsOfOneReport Recovers DisplayFollows
