---------------------------- MODULE MCAccounts ----------------------------
(* Model checking of Accounts. *)
EXTENDS Accounts, TLC

AccountsSymmetry == Permutations(Account) \cup Permutations(Request)
                    \cup Permutations(Email)
=============================================================================
