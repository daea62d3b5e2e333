SPECIFICATION Spec
CONSTANTS
  Ranks = {0, 1}
  Items <- TheItems
  Place <- ThePlace
  Path <- ThePath
  Time <- TheTime
  Splits = {"split"}
  MIN_QUEUE_ELEMS = 2
  MaxSamples <- OneSample
  TRACKING_LEVEL = 1
  Mantissa = 3
INVARIANTS QueuesApart AllProfiled StatisticsComplete SampledOnce
           TimesWithinRounding
PROPERTY StopReturns
CHECK_DEADLOCK FALSE
