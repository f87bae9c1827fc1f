\* Two processes, two release modules and one with debug symbols, one archive.
CONSTANTS
  keyA = keyA  keyB = keyB  keyC = keyC
  digX = digX  digY = digY  digZ = digZ  digS = digS
  Process = {w1, w2}
  Key = {keyA, keyB, keyC}
  Digest = {digX, digY, digZ, digS}
  DigestOf <- MCDigestOf
  Debug = {keyC}
  StrippedOf <- MCStrippedOf
  Output = {o1}
  Nobody = Nobody  NoKey = NoKey  NoArchive = NoArchive
  MaxRequests = 3
  MaxDamage = 1
SPECIFICATION FairSpec
INVARIANTS
  RecordsKept
  NamesStored
PROPERTIES
  DeclaredArchivesSurvive
  RequestsEnd
CHECK_DEADLOCK FALSE
