---------------------------- MODULE MCAccounts ----------------------------
EXTENDS Accounts, TLC

Symmetry == Permutations(Requests) \union Permutations(Subs) \union Permutations(Passwords)

EveryOperation == Operations
PasswordWorkload == {"login", "changePassword", "createUser", "removeUser"}
=============================================================================
