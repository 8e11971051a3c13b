------------------------------ MODULE MCAccess ------------------------------
(***************************************************************************)
(* Small instances of Access for TLC.                                      *)
(***************************************************************************)
EXTENDS Access, TLC

CONSTANTS root, ann, mail

\* Many guesses or many changes.
MCBound == {u \in [Event -> 0..6] : u["change"] <= 3 /\ u["guess"] + 2 * u["change"] <= 8}

\* No worker is special, and only invariants are checked.
MCSymmetry == Permutations(Worker)

MCFile(n, c, r) == [name |-> n, cred |-> c, allow |-> [s \in SsoName |-> r]]
MCBoot == MCFile(root, 1, "operator")
MCEnv  == {MCBoot, MCFile(root, 2, "none"), MCFile(ann, 2, "operator")}
=============================================================================
