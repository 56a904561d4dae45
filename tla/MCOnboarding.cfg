SPECIFICATION Spec
CONSTANTS
  first = first
  second = second
  none = none
  Flow = {first, second}
  NoFlow = none
  MaxRetries = 3
  InitialLeft <- OneLeft
INVARIANT SuccessIsTrue
PROPERTIES OnboardingEnds NavigationSettles
CHECK_DEADLOCK FALSE
