SPECIFICATION Spec
CONSTANTS
  Systems <- RK3399
  MaxProfiles = 11
  MaxAttributes = 2
  EnableVP9 = TRUE
  ConfigIds <- MCConfigIds
  Requests <- MCRequests
INVARIANTS AdvertisesAll
CHECK_DEADLOCK FALSE
