\* One provider, one address, two flows and two requests at a time.
SPECIFICATION Spec
CONSTANTS
    Providers = {p}
    Emails = {e}
    Settings <- OpenOrClosed
    Ids = {i1, i2}
    Flows = {s1, s2}
    Handoffs = {h1, h2}
    Requests = {r1, r2}
    MaxSessions = 2
SYMMETRY Symmetry
INVARIANTS AddressesDistinct LinksDistinct OneSessionPerFlow
