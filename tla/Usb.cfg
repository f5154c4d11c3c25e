SPECIFICATION MCSpec
CONSTANTS
  Keys = {0, 4}
  PlugLooks = 2
  PullLooks = 2
  Disturbances = {}
  Replies = {5, 34}
INVARIANTS ListsCarriedOut KeyboardByteInPlace
PROPERTIES PluggedIsConfigured
