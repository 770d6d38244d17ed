CONSTANTS
    Keys = {k1, k2}
    Msgs = {m1, m2}
    Foreign = foreign
    NoKey = NoKey
SPECIFICATION Spec
INVARIANTS
    SignaturesVerify
    BuildsAgree
