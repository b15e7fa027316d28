CONSTANTS
  HeadBytes = 2
  RequestBytes = 2
  BlockBytes = {1, 3}
  MaxPlans = 3
  MayDie = {1, 2}
SPECIFICATION Spec
INVARIANTS TakenAsSent SuccessIsUnpacked HangsOnlyByLoss
CHECK_DEADLOCK FALSE
