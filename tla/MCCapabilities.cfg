SPECIFICATION Spec
CONSTANTS
  Systems <- MCSystems
  MaxProfiles = 11
  MaxAttributes = 2
  EnableVP9 = TRUE
  ConfigIds <- MCConfigIds
  Requests <- MCRequests
INVARIANTS ConfigsUsable ContextDecodesProfile FormatFound DescriptorsHeld ClosedAtEnd CapableDevices
\* The driver ends, or the process does.
CHECK_DEADLOCK FALSE
