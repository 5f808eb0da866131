SPECIFICATION SocialSpec
CONSTANTS
  CallsAtOnce = 2
  Users = {ann, bob, cat}
  Founder = ann
  Watched = bob
  MaxMembers = 2
  ann = ann
  bob = bob
  cat = cat
INVARIANTS SocialTypeOK GroupFits
PROPERTY VerdictsConverge
