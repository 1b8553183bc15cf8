\* MultiUserMap with UUID users, whose identity and auth keys coincide.
CONSTANTS
    Users = {u1, u2, u3, u4}
    IdIsAuth = TRUE
SPECIFICATION Spec
INVARIANT MapsAgree
PROPERTY RegistrySpec
