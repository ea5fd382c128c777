----------------------------- MODULE MCFileBank -----------------------------
(* Model of the file-bank pallet for TLC: two users, one miner, one      *)
(* scheduler, one file hash and two filler ids, up to symmetry.          *)
EXTENDS FileBank

CONSTANTS u1, u2, m1, s1, h1, f1, f2

MCUsers == {u1, u2}

MCHashes == {h1}
MCFillerIds == {f1, f2}

\* users, hashes and filler ids are interchangeable: the code never
\* compares them except for equality
MCSymmetry == Permutations(MCUsers) \cup Permutations(MCHashes)
                \cup Permutations(MCFillerIds)

=============================================================================
