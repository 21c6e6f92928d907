SPECIFICATION FairSpec
CONSTANTS
  NoPath = NoPath
  Path <- MCPath
  Disk <- MCDisk
  Programs <- MCPrograms
  Cpus = 2
INVARIANTS
  TypeOK
  OkFilesIntact
  DiesOnlyOnConflict
PROPERTY EveryCallEnds
