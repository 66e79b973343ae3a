SPECIFICATION FeedSpec
CONSTANTS
  MaxLines = 4
  MaxRetained = 4
  Torn = FALSE
  Nowhere = Nowhere
PROPERTY SilenceIsHealthy
