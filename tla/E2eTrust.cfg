SPECIFICATION Spec
CONSTANTS
  Fps = {f1, f2}
  Handles = {h1, h2}
  Channels = {c}
  NoFp = NoFp
  NoHandle = NoHandle
  MaxNotices = 2
  MaxPending = 1
SYMMETRY Symm
CONSTRAINT FewOpen
INVARIANT TypeOK
INVARIANT OneKeyPerHandle
INVARIANT RowsBound
INVARIANT RecipientsCurrent
PROPERTY MovesByConsent
PROPERTY OneDecisionAtATime
PROPERTY MovingKeysSurvive
