CONSTANTS
  d1 = d1
  d2 = d2
  DAG_CBOR = DAG_CBOR
  RAW = RAW
  Blake2b256 = Blake2b256
  Sha2_256 = Sha2_256
  Unknown = Unknown
  Data <- MCData
  Codecs <- MCCodecs
  HashCodes <- MCHashCodes
  KnownCodes <- MCKnownCodes
  SyscallCodes <- MCSyscallCodes

SPECIFICATION Spec

INVARIANT TypeOK
PROPERTY PutKeyedRetrievable
