SPECIFICATION AddressSpec
CONSTANTS
  Bytes = 2
  Hosts <- HostsTwo
  Suffixes <- SuffixesAll
INVARIANTS
  MatchesPrefix
  RoundTrip
  RejectedIsHost
