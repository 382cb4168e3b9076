SPECIFICATION Spec
CONSTANTS
  Files = {1, 2, 3}
  Base <- SharedBase
  SubDirs = 2
  Static = {1}
  PerPage = 2
  MaxEdits = 2
  MaxLoads = 1
  NoKey = NoKey
INVARIANTS
  TypeOK
  ScanWithinArray
  LostOnlyToNewcomers
  OnlyListedKeysChange
  PublishedMatchesDirectory
  PagesPartitionListing
  MoreChain
  ListingAgreesWithPosts
