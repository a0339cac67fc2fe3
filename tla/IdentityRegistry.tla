-------------------------- MODULE IdentityRegistry --------------------------
(***************************************************************************)
(* What the account service promises about identities, without rows,       *)
(* caches, bot links or handlers in flight: a key leads to one account     *)
(* until it is released, only keys of some kinds ever are, and whoever     *)
(* proves a key is let into the account it leads to at that moment.  For   *)
(* a key that was released, or that an account was founded with and that   *)
(* does not lead to it, nothing is promised any more: it is waived.        *)
(* Accounts implements this specification (proof in AccountsProofs).       *)
(***************************************************************************)

CONSTANTS Account, Key, Revocable, NoAccount

VARIABLES
    holder,    \* holder[k]: the account key k leads to, or NoAccount
    entered,   \* entered[k]: the accounts let in for a proof of k
    waived     \* the keys nothing is promised for

registryVars == <<holder, entered, waived>>

RegistryInit ==
    /\ holder = [k \in Key |-> NoAccount]
    /\ entered = [k \in Key |-> {}]
    /\ waived = {}

\* All of the keys, or none.
Bind(keys, a) ==
    /\ \A k \in keys : holder[k] \in {NoAccount, a}
    /\ holder' = [k \in Key |-> IF k \in keys THEN a ELSE holder[k]]
    /\ UNCHANGED <<entered, waived>>

\* An account that one key leads to and the other need not.
Found(k, a, other) ==
    /\ holder[k] = NoAccount
    /\ holder' = [holder EXCEPT ![k] = a]
    /\ waived' = waived \cup {other}
    /\ UNCHANGED entered

Release(k) ==
    /\ holder[k] # NoAccount
    /\ holder' = [holder EXCEPT ![k] = NoAccount]
    /\ waived' = waived \cup {k}
    /\ UNCHANGED entered

Admit(keys, a) ==
    /\ \A k \in keys : k \in waived \/ holder[k] = a
    /\ entered' = [k \in Key |-> IF k \in keys THEN entered[k] \cup {a} ELSE entered[k]]
    /\ UNCHANGED <<holder, waived>>

RegistryNext ==
    \/ \E keys \in SUBSET Key, a \in Account : Bind(keys, a) \/ Admit(keys, a)
    \/ \E k, other \in Key, a \in Account : Found(k, a, other)
    \/ \E k \in Revocable : Release(k)

RegistrySpec == RegistryInit /\ [][RegistryNext]_registryVars
=============================================================================
