------------------------------ MODULE MCAccounts ------------------------------
(* A small instance of Accounts.                                              *)
EXTENDS Accounts, TLC

CONSTANTS r1, r2, s1, s2, e1, e2, t1, t2, k1, k2

MCSeededRole == s1 :> "supervisor" @@ s2 :> "alchemist"

\* None of the properties tells two of them apart.
Symmetry == Permutations(Registrations) \cup Permutations(Addresses) \cup Permutations(Tabs) \cup Permutations(Tokens)
=============================================================================
