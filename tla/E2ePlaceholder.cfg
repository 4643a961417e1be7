SPECIFICATION Spec
CONSTANTS
  Fps = {f1, f2}
  Handles = {h1, h2}
  Channels = {c}
  NoFp = NoFp
  NoHandle = NoHandle
  MaxNotices = 1
  MaxPending = 0
INVARIANT PlaceholderNeverTrusted
