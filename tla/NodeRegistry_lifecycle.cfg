\* Two nodes, two requests at an await, a Vault that fails and loses answers.
SPECIFICATION Spec
CONSTANTS
    Nodes = {n1, n2}
    Requests = {r1, r2}
    MaxTokens = 2
    MaxCerts = 2
SYMMETRY Symmetry
INVARIANTS TokensOnce CertsRecorded RemovedHasNoCert
PROPERTIES RemovedByName
