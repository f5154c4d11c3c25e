CONSTANTS
  Keys = {0, 4}
  PlugLooks = 1
  PullLooks = 1
  Disturbances = {"fault", "pull", "bounce", "message"}
SPECIFICATION UsbSpec
PROPERTIES OnlyReportedCommands OwnAnswer
