SPECIFICATION Spec
CONSTANTS
  UserBatches = 2
  LogBatches = 2
INVARIANTS SchemaAsVersionSays HeadMatchesModels LogsComeAfterUsers
