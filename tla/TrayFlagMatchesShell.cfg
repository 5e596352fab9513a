CONSTANT MaxCalls = 24

SPECIFICATION Spec

INVARIANT FlagMatchesShell

\* A behaviour ends once MaxCalls calls have been made.
CHECK_DEADLOCK FALSE
