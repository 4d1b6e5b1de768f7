----------------------------- MODULE MCAccounts -----------------------------
(* An instance of Accounts for TLC.                                        *)
EXTENDS Accounts, TLC

CONSTANTS u1, u2, u3, admin, sam, t1, t2, k1, k2, one, two

ThreeUsers == {u1, u2, u3}
Names      == {admin, sam}
Roles      == {"admin", "write"}
Tokens     == {t1, t2}
Keys       == {k1, k2}
TwoActors  == {one, two}

\* What is random is interchangeable, and so are the requests.
Symmetry == Permutations(ThreeUsers) \cup Permutations(Tokens) \cup Permutations(Keys)
            \cup Permutations(TwoActors)
=============================================================================
