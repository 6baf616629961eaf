\* Two commands at a time, for two wallets, and one node, which an
\* older version may have left in the file.
CONSTANTS
  None = None
  Procs = {p1, p2}
  Wallets = {w1, w2}
  Users = {u1, u2, u3}
  Keen = p1
  KeenWallet = w1
  Nodes = {n1}
SPECIFICATION FairSpec
INVARIANTS TypeOK SavedUserRegistered NodeOfUser SessionOfOwner
PROPERTIES OldFileKept FileRepaired
