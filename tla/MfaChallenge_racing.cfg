\* Three concurrent requests on two challenges, with a store that loses commands.
SPECIFICATION Spec
CONSTANTS
    Users = {u1, u2}
    NoUser = NoUser
    Challenges = {c1, c2}
    Requests = {r1, r2, r3}
    Outages = TRUE
    MaxUses = 2
SYMMETRY Symmetry
INVARIANTS UsesAreProven SingleUseUndisturbed
