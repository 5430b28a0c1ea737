SPECIFICATION Spec
CONSTANTS
  Link <- MCLink
  Group <- MCGroup
  GroupOf <- MCGroupOf
  LmfcPeriod = 2
PROPERTIES ActiveFaultStays
