----------------------------- MODULE MCSampler -----------------------------
(* Oracles for the sampler: every function from a window of six seeds to  *)
(* five values (zero, which generate_random_number skips, and four that    *)
(* collide or differ modulo small pool lengths), and a fixed oracle of     *)
(* large values for pools longer than 256 blocks.                         *)
EXTENDS Sampler

MCOracles == [Slots -> {0, 1, 2, 5, 9}]

\* distinct values 257 + k for seeds BlockNumber + k
MCLinearOracle == {[s \in Slots |-> 256 + s - BlockNumber]}

\* no File records: the pool-length runs draw from Lengths alone
MCNoFiles == {<<>>}

\* File maps of nine records, all active or with one pending record first,
\* second, in the middle or last, so that get_random_file draws two indices
\* (8 * 138 / 1000 + 1 = 9 * 138 / 1000 + 1 = 2) past or around it
MCFilePools == {[i \in 1..9 |-> i # j] : j \in {0, 1, 2, 5, 9}}

\* a FillerMap of three fillers of 2, 3 and 5 blocks: one is sampled
MCFillerPools == {<<2, 3, 5>>}

\* the miner of record 4 re-registered under a new id, the miner of record
\* 7 is gone from pallet_sminer, every other miner is unchanged
MCMinerStates ==
    {[i \in 1..9 |-> CASE i = 4 -> "stale" [] i = 7 -> "gone" [] OTHER -> "current"]}

=============================================================================
