CONSTANTS
  Buttons <- MCButtons
  MaxEvents = 7

SPECIFICATION Spec

PROPERTY QuitStopsApp

\* A behaviour ends once MaxEvents signals have been handled or the
\* application has shut down.
CHECK_DEADLOCK FALSE
