\* A buffer of four slots, so three keys fill it, and six keys, so that both
\* indices wrap around.
CONSTANTS
  Size = 4
  Scancodes = {a, b}
  Prefix = prefix
  NoKey = nokey
  MaxKeys = 6
SPECIFICATION FairSpec
INVARIANTS TypeOK LoadedKeyIsOldest NothingLost
PROPERTIES ImplementsFifo EveryKeyRead
