SPECIFICATION TFairSpec
CONSTANTS
  Link <- MCLink
  Group <- MCGroup
  GroupOf <- MCGroupOf
  LmfcPeriod = 6
INVARIANTS TypeOK ReleaseMatchesState BoundedLatency SamePhase Lockstep
PROPERTIES ImplementsGate FlagsOnlyOnDrop DropRecorded GroupComesUp
