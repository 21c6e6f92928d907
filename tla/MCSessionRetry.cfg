SPECIFICATION Spec
CONSTANTS
  NoPath = NoPath
  Path <- MCPath
  Disk <- MCDisk
  Programs <- RetryOnly
  Cpus = 2
INVARIANT RetryIsWritten
