SPECIFICATION FeedSpec
CONSTANTS
  MaxLines = 4
  MaxRetained = 4
  Torn = TRUE
  Nowhere = Nowhere
INVARIANT LossIsUnknown
