SPECIFICATION UnitsSpec
CONSTANTS
  MaxReconnects = 3
  Objects <- MCObjects
  Gaps <- MCGaps
  MaxSent = 3
  MaxBytes = 8
  Corpora <- MCCorpora
  Sessions = {s1, s2, s3}
  Keys = {"a", "b"}
  KeyOf <- MCKeyOf
  s1 = s1
  s2 = s2
  s3 = s3
CHECK_DEADLOCK FALSE
INVARIANTS FramingIsExact BracesAreExact DeclarationsAreExact LookupIsTrue
PROPERTIES SilentAfterStop UrlIsFollowed RetryEnds SourcesStop RunEnds
