SPECIFICATION Spec
CONSTANTS
    Providers = {"github", "google", "gitlab", "microsoft"}
    Users = {u1, u2}
    NoName = NoName
    g1 = g1
    g2 = g2
    Groups = {g1, g2}
    NoGroup = NoGroup
    Inside <- MCInside
    Unset = Unset
    MaxChanges = 1
INVARIANTS
    YesIsEarned
    AdmitsUnlessIgnored
