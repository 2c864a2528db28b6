SPECIFICATION Spec
CONSTANTS
  Null = Null
  str = str xfer = xfer idx = idx conf = conf raw = raw hello = hello bye = bye
  Requests <- AllRequests
  Kind <- KindOf
  Texts <- RecordTexts
  Payloads <- RecordPayloads
  Failures <- RecordFailures
  Statuses <- RecordStatuses
  Hardware <- RecordHardware
  Capabilities <- RecordCapabilities
  Report <- RecordReport
  Class <- VendorClass
  Length = 1
  Identity <- RecordIdentity
  SaveEvents = TRUE
  Plans <- HidPlans
CHECK_DEADLOCK FALSE
INVARIANT HidWhole
