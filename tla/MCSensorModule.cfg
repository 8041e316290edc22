SPECIFICATION Spec
CONSTANTS
  UpdateMessages = 2
  ControlMessages = 2
  NumGroups = 2
  ControlTopic <- MCTopics
  topic1 = topic1
  topic2 = topic2
  NoTopic = NoTopic
  Handles <- MCHandles
  MaxSweeps = 3
  MaxCommands = 3
INVARIANTS
  NoLossWithoutBurst
PROPERTIES
  FreshInOrder
  EffectsNeverRevert
  PendingCommandIsTaken
  EffectIsPublished
