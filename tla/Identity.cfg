SPECIFICATION Spec
CONSTANTS
  Providers <- MCProviders
  Subjects <- MCSubjects
  Tokens <- MCTokens
  Assertions <- MCAssertions
  Configurations <- MCConfigurations
  Calls <- MCCalls
  Absent = Absent
  Opaque = Opaque
  Garbled = Garbled
  SessionCookie = SessionCookie
  NoLogin = NoLogin
  DevLogin = DevLogin
  DevUser = DevUser
  Nobody = Nobody
  Off = Off
  NoRequest = NoRequest
INVARIANTS
  AmbientNeedsOwnPage
  NoFallThrough
  PeerTokenIsNoCredential
  PeerIsTheUser
PROPERTIES
  OnlyOwnPageSignsOut
  UsersAreServed
  PageAndApiAgree
