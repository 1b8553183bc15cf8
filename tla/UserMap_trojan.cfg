\* MultiUserMap with Trojan (or user/password) users, whose identity and auth keys differ.
CONSTANTS
    Users = {u1, u2, u3, u4}
    IdIsAuth = FALSE
SPECIFICATION Spec
PROPERTY RegistrySpec
