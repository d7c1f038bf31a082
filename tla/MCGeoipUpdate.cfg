\* Two editions that share a file, one pod, a midnight and one fault.
CONSTANTS
  asn = asn
  city = city
  f1 = f1
  f2 = f2
  p1 = p1
  Editions = {asn, city}
  Files = {f1, f2}
  FilesOf <- MCFilesOf
  Pods = {p1}
  Uris <- MCUris
  MaxDay = 2
  MaxFaults = 1
SPECIFICATION MCSpec
INVARIANTS
  RestartAfterUpload
  LatestNotEmpty
PROPERTIES
  NeverBack
  UpdateEnds
