\* Three exchanges, each with or without radiation and a write.
SPECIFICATION StreamsSpec
CONSTANTS
  MaxExchanges = 3
INVARIANTS AsIfSynchronous
