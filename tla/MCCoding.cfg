SPECIFICATION CodingSpec
CONSTANTS
  VicOffsets <- MCOffsets
  Characters <- MCCharacters
  NameBytes <- MCNameBytes
  Octets <- MCOctets
  MaxText = 4
  MaxName = 4
  MaxBytes = 4
  DefaultDoc <- MCDefaultDoc
  DefMime <- MCDefMime
  CharSigned = TRUE
  Beyond = 65
INVARIANTS
  VicRecovers
  Base64Recovers
  LinksLeadBack
CHECK_DEADLOCK FALSE
