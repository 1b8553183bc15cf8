------------------------------- MODULE UserMap -------------------------------
(***************************************************************************)
(* utils.MultiUserMap (utils/user.go): users kept in two maps, IDMap keyed *)
(* by identity and AuthMap keyed by auth string, both written and read    *)
(* under one RWMutex, so every operation is one atomic step.              *)
(*                                                                         *)
(* Keys are abstracted: whether the map stores the string or the bytes     *)
(* form of a key (StoreKeyByStr) is a bijective conversion applied alike  *)
(* on store and on lookup.  What matters is whether a user's identity and *)
(* auth keys coincide: they do for a UUID user (V2rayUser), they do not   *)
(* for a user/password pair or a Trojan password (plain text vs hash).    *)
(***************************************************************************)
EXTENDS FiniteSets, Functions, TLC

CONSTANTS
    Users,      \* users that may be added
    IdIsAuth    \* IdentityStr() = AuthStr() for these users

ASSUME IdIsAuth \in BOOLEAN

VARIABLES
    idMap,      \* IDMap
    authMap,    \* AuthMap
    lastOp      \* history: the call of the last step

vars == <<idMap, authMap, lastOp>>

IdentityStr(u) == <<"id", u>>
AuthStr(u)     == IF IdIsAuth THEN IdentityStr(u) ELSE <<"auth", u>>

(* The map after m[k] = u, and after delete(m, k).                        *)
Put(m, k, u) == (k :> u) @@ m
Delete(m, k) == Restrict(m, DOMAIN m \ {k})

Init == idMap = << >> /\ authMap = << >> /\ lastOp = <<"none">>

(* AddUser_nolock                                                          *)
AddUserNoLock(u) ==
    /\ idMap' = Put(idMap, IdentityStr(u), u)
    /\ authMap' = Put(authMap, AuthStr(u), u)

(* AddUser: AddUser_nolock under the write lock.                          *)
AddUser(u) == AddUserNoLock(u) /\ lastOp' = <<"add", u>>

(* Mutant: the auth entry left behind on delete.                          *)
DelUserIdOnly(u) ==
    /\ idMap' = Delete(idMap, IdentityStr(u))
    /\ UNCHANGED authMap
    /\ lastOp' = <<"del", u>>

(* DelUser: under the write lock, deletes IDMap[AuthStr] and             *)
(* AuthMap[IdentityStr], as the code writes it.                           *)
DelUser(u) ==
    /\ idMap' = Delete(idMap, AuthStr(u))
    /\ authMap' = Delete(authMap, IdentityStr(u))
    /\ lastOp' = <<"del", u>>

(* Mutant: LoadUsers replacing the maps instead of adding to them.       *)
LoadUsersReplace(us) ==
    /\ idMap' = [k \in {IdentityStr(u) : u \in us} |->
                    CHOOSE u \in us : IdentityStr(u) = k]
    /\ authMap' = [k \in {AuthStr(u) : u \in us} |->
                    CHOOSE u \in us : AuthStr(u) = k]
    /\ lastOp' = <<"load", us>>

(* LoadUsers: AddUser_nolock for each user of the slice, in order, under *)
(* one write lock.                                                         *)
LoadUsers(us) ==
    /\ idMap' = [k \in DOMAIN idMap \cup {IdentityStr(u) : u \in us} |->
                    IF \E u \in us : IdentityStr(u) = k
                      THEN CHOOSE u \in us : IdentityStr(u) = k ELSE idMap[k]]
    /\ authMap' = [k \in DOMAIN authMap \cup {AuthStr(u) : u \in us} |->
                    IF \E u \in us : AuthStr(u) = k
                      THEN CHOOSE u \in us : AuthStr(u) = k ELSE authMap[k]]
    /\ lastOp' = <<"load", us>>

(* The lookups, under the read lock.  NoUser stands for nil.              *)
NoUser == "nil"
HasUserByBytes(k) == IF k \in DOMAIN idMap THEN idMap[k] ELSE NoUser
AuthUserByStr(k)  == IF k \in DOMAIN authMap THEN authMap[k] ELSE NoUser

Next == \E u \in Users : AddUser(u) \/ DelUser(u)
        \/ \E us \in SUBSET Users : us # {} /\ LoadUsers(us)

Spec == Init /\ [][Next]_vars

-----------------------------------------------------------------------------
(* The users an authentication finds: the registry the maps implement.   *)
Authenticated == {u \in Users : AuthUserByStr(AuthStr(u)) = u}

Registry == INSTANCE UserRegistry WITH registered <- Authenticated, lastOp <- lastOp

(* Every sequence of AddUser, DelUser and LoadUsers behaves on the auth  *)
(* lookup as adding to and deleting from one set of users: in particular *)
(* AuthUserByStr(u.AuthStr()) finds nothing after DelUser(u).            *)
RegistrySpec == Registry!Spec

(* The two maps hold the same users: a user is found by its identity     *)
(* exactly when it is found by its auth string.                          *)
MapsAgree ==
    \A u \in Users : (HasUserByBytes(IdentityStr(u)) = u) <=> (u \in Authenticated)
=============================================================================
