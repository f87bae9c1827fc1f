\* Two processes, a release module and one with debug symbols, one archive.
CONSTANTS
  keyA = keyA  keyB = keyB  keyC = keyC
  digX = digX  digY = digY  digZ = digZ  digS = digS
  Process = {w1, w2}
  Key = {keyA, keyC}
  Digest = {digX, digZ, digS}
  DigestOf <- MCDigestOf
  Debug = {keyC}
  StrippedOf <- MCStrippedOf
  Output = {o1}
  Nobody = Nobody  NoKey = NoKey  NoArchive = NoArchive
  MaxRequests = 3
  MaxDamage = 1
SPECIFICATION Spec
PROPERTIES
  IsolatedNeverHits
CHECK_DEADLOCK FALSE
