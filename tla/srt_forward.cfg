CONSTANTS
  tagged = tagged
  stripped = stripped
  Lines <- MCLines
  Strip <- MCStrip
  Times <- MCTimes4
  Never <- MCNever
  HeadNodes <- MCHeadNodes
  MaxPerStart = 2
  MaxPictures = 9
SPECIFICATION ForwardSpec
INVARIANTS StoreConsistent CacheFromStore PicturesMatchCount FirstLineShown
PROPERTY ImplementsContract
CHECK_DEADLOCK FALSE
