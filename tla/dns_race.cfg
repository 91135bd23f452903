SPECIFICATION FairSpec
CONSTANTS
  Servers = {v1, v2}
  AIps <- MCAIps
  HIps <- MCHIps
  Waiting = Waiting
  Failed = Failed
INVARIANTS NoFalseFailure
PROPERTIES AnswerIsEnough EverybodyEnds
