\* The lane, run until it gives a package, with two things coming between.
CONSTANTS
  Builds <- MCBuilds
  Patches <- MCPatches
  Places = {1, 2}
  TermSets <- MCTermSets
  ProtocolRole = "shipping-candidate"
  ManifestRoles = {"shipping-candidate", "excluded"}
  MaxTrouble = 2
SPECIFICATION FairSpec
INVARIANTS EligibleWasReviewed CarriesWhatWasAdmitted RuntimeIsReviewed EveryPackageCredited
PROPERTIES EventuallyPackaged
CHECK_DEADLOCK TRUE
