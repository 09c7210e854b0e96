CONSTANTS
  BootKinds = {"Casper", "DebianLive", "FedoraLive", "ArchIso", "Alpine", "WindowsPE", "Unknown"}
  Locations <- MCLocations
  Menus <- MCMenus
  ArchiveNames = {0, 12}
SPECIFICATION PatchSpec
INVARIANTS
  Fits
  LongPathOnly
  EntriesReady
CHECK_DEADLOCK FALSE
