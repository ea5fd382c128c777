------------------------------ MODULE Sampler ------------------------------
(***************************************************************************)
(* The index sampler of the file-bank audit (get_random_numberlist and     *)
(* generate_random_number) and the block list get_random_challenge_data    *)
(* builds from it.  The randomness collaborator T::MyRandomness is a       *)
(* deterministic function of the seed; the state of this module is that   *)
(* function, `rand`, over a window of SlotLimit seeds after the block      *)
(* number, one behaviour per possible oracle.  A computation that needs a *)
(* seed outside the window yields Exhausted (the loop would go on).      *)
(* The loops are RECURSIVE operators translated from the code, checked     *)
(* against a declarative reference over every oracle of the window.        *)
(***************************************************************************)
EXTENDS Naturals, Sequences, FiniteSets, SequencesExt, FiniteSetsExt, TLC

CONSTANTS
    BlockNumber,  \* frame_system block number, the first seed
    SlotLimit,    \* seeds after BlockNumber the oracle is given for
    Oracles,      \* candidate randomness functions over Slots
    Lengths,      \* pool lengths get_random_numberlist may be called with
    Types,        \* random_type arguments (1 fillers/blocks, 2 files)
    FilePools,    \* File maps in iteration order: TRUE for an active record
    FillerPools,  \* FillerMap in iteration order: block_num of each filler
    MinerStates,  \* per File record: its miner's id "current", "stale" or "gone"
    FileBlocks,   \* block_num of every File record
    Exhausted,    \* model value: the computation needs a seed past the window
    Overflow,     \* model value: Error::<T>::Overflow
    NoMinerId     \* model value: the error of T::MinerControl::get_miner_id

\* TLC's integers stop at 2^31 - 1, so u32 limits appear as the largest
\* operand a checked product accepts: floor((2^32 - 1) / rate).
U32MaxDiv(rate) == CASE rate = 46 -> 93368854 [] rate = 138 -> 31122951

\* the failures a computation of this module can end in
Failures == {Exhausted, Overflow, NoMinerId}

\* seeds the oracle is defined on: BlockNumber + 1 .. BlockNumber + SlotLimit.
\* The window stays far below u32::MAX, so the checked seed increment and
\* the unchecked `seed + counter` never wrap inside it.
Slots == BlockNumber + 1 .. BlockNumber + SlotLimit

VARIABLES
    rand,     \* the randomness collaborator over Slots
    poolLength, \* the pool length get_random_numberlist is called with
    rtype,      \* its random_type
    fileActive, \* File in iteration order, TRUE where file_state is active
    fillerBlocks, \* FillerMap in iteration order, block_num of each record
    fileMiner   \* per File record: does get_miner_id(miner_acc) equal the
                \* recorded miner_id ("current"), differ ("stale"), or fail ("gone")

vars == <<rand, poolLength, rtype, fileActive, fillerBlocks, fileMiner>>

Init ==
    /\ rand \in Oracles
    /\ poolLength \in Lengths
    /\ rtype \in Types
    /\ fileActive \in FilePools
    /\ fillerBlocks \in FillerPools
    /\ fileMiner \in MinerStates

\* the oracle and the arguments are fixed for the whole computation
Next == UNCHANGED vars

Spec == Init /\ [][Next]_vars

-----------------------------------------------------------------------------
(* generate_random_number: ask the oracle for seed + counter until it     *)
(* returns a non-zero u32.                                                 *)
RECURSIVE GenerateRandomNumber(_, _)
GenerateRandomNumber(seed, counter) ==
    LET s == seed + counter
    IN  IF s \notin Slots THEN Exhausted
        ELSE IF rand[s] # 0 THEN rand[s]
        ELSE GenerateRandomNumber(seed, counter + 1)

\* required count: length * 46 (or 46 * 3) / 1000 + 1, checked u32 products
NumRequired(length, type) ==
    LET rate == IF type = 2 THEN 46 * 3 ELSE 46
    IN  IF length > U32MaxDiv(rate) THEN Overflow
        ELSE (length * rate) \div 1000 + 1

\* sort without the dedup
SortOnly(list) == SortSeq(list, <)

\* number_list.sort(); number_list.dedup(): dedup drops every element equal
\* to the one before it
SortDedup(list) ==
    FoldLeft(LAMBDA acc, x : IF acc # <<>> /\ Last(acc) = x THEN acc ELSE Append(acc, x),
             <<>>, SortSeq(list, <))

\* one pass of the loop of get_random_numberlist: seed is incremented
\* (checked), the list is sorted and deduplicated once it is long enough,
\* and the loop ends when the deduplicated list is; otherwise a new draw
\* reduced modulo length is pushed
RECURSIVE NumberLoop(_, _, _, _)
NumberLoop(seed, list, num, length) ==
      LET s == seed + 1
          full == Len(list) >= num
          l == IF full THEN SortDedup(list) ELSE list
          r == GenerateRandomNumber(s, 0)
      IN  IF full /\ Len(l) >= num THEN l
          ELSE IF r \in Failures THEN r
          ELSE NumberLoop(s, Append(l, r % length), num, length)

GetRandomNumberList(length, type) ==
    IF length = 0 THEN <<>>
    ELSE IF NumRequired(length, type) \in Failures THEN Overflow
    ELSE NumberLoop(BlockNumber, <<>>, NumRequired(length, type), length)

\* get_random_challenge_data: `*i as u8` for every drawn block index
BlockList(numberList) == [i \in DOMAIN numberList |-> numberList[i] % 256]

\* get_file_map_length: the number of active records
ActiveCount(pool) == Cardinality({p \in DOMAIN pool : pool[p]})

\* the inner loop of get_random_file with the counter advanced on every
\* record, active or not
RECURSIVE PickCountingAll(_, _, _, _)
PickCountingAll(pool, i, pos, counter) ==
    IF pos > Len(pool) THEN 0
    ELSE IF pool[pos] /\ counter = i THEN pos
    ELSE PickCountingAll(pool, i, pos + 1, counter + 1)

\* the inner loop of get_random_file: walk File::iter(), counting active
\* records only, and return the position of the i-th active one (0: the
\* walk ends without one and nothing is pushed)
RECURSIVE PickActive(_, _, _, _)
PickActive(pool, i, pos, counter) ==
    IF pos > Len(pool) THEN 0
    ELSE IF ~pool[pos] THEN PickActive(pool, i, pos + 1, counter)
    ELSE IF counter = i THEN pos
    ELSE PickActive(pool, i, pos + 1, counter + 1)

\* get_random_file: positions in File of the sampled records
GetRandomFile(pool) ==
    LET nl == GetRandomNumberList(ActiveCount(pool), 2)
    IN  IF nl \in Failures THEN nl
        ELSE SelectSeq([k \in DOMAIN nl |-> PickActive(pool, nl[k], 1, 0)],
                       LAMBDA p : p # 0)

\* get_fillermap_length: the number of FillerMap records, all of them
FillerMapLength(fillers) == Len(fillers)

\* get_random_filler: the inner loop counts every record and stops at the
\* i-th one, so index i names position i + 1
GetRandomFiller(fillers) ==
    LET nl == GetRandomNumberList(FillerMapLength(fillers), 1)
    IN  IF nl \in Failures THEN nl
        ELSE [k \in DOMAIN nl |-> nl[k] + 1]

\* one loop of get_random_challenge_data over sampled records of one kind
\* (1 fillers, 2 files): a file whose miner has no id aborts the round, a
\* file whose miner's id changed is skipped, and every other record gets
\* its own block draw, cast to u8, pushed as (kind, position, block_list)
RECURSIVE Challenges(_, _, _)
Challenges(kind, picks, acc) ==
    IF picks = <<>> THEN acc
    ELSE LET p == Head(picks)
             nl == GetRandomNumberList(IF kind = 1 THEN fillerBlocks[p] ELSE FileBlocks, 1)
         IN  IF kind = 2 /\ fileMiner[p] = "gone" THEN NoMinerId
             ELSE IF kind = 2 /\ fileMiner[p] = "stale" THEN Challenges(kind, Tail(picks), acc)
             ELSE IF nl \in Failures THEN nl
             ELSE Challenges(kind, Tail(picks), Append(acc, <<kind, p, BlockList(nl)>>))

\* get_random_challenge_data: the filler entries, all of them built before
\* get_random_file runs, then the file entries; the first error ends it
GetRandomChallengeData ==
    LET fl == GetRandomFiller(fillerBlocks)
        fd == IF fl \in Failures THEN fl ELSE Challenges(1, fl, <<>>)
        pf == GetRandomFile(fileActive)
    IN  IF fd \in Failures THEN fd
        ELSE IF pf \in Failures THEN pf
        ELSE Challenges(2, pf, fd)

-----------------------------------------------------------------------------
(* Reference: the k-th draw is the first non-zero oracle value at or after *)
(* seed BlockNumber + k; the result is the sorted set of the residues of   *)
(* the shortest run of draws holding `num` distinct residues.             *)
\* the elements of a finite set of numbers in increasing order
RECURSIVE Ascending(_)
Ascending(S) == IF S = {} THEN <<>> ELSE <<Min(S)>> \o Ascending(S \ {Min(S)})

ReferenceNumberList(length, type) ==
    LET num == NumRequired(length, type)
        D(k) == GenerateRandomNumber(BlockNumber + k, 0)
        Got(k) == {D(j) % length : j \in 1..k}
        Ks == {k \in 1..SlotLimit :
                 (\A j \in 1..k : D(j) \notin Failures) /\ Cardinality(Got(k)) = num}
    IN  IF length = 0 THEN <<>>
        ELSE IF num \in Failures THEN Overflow
        ELSE IF Ks = {} THEN Exhausted
        ELSE Ascending(Got(Min(Ks)))

-----------------------------------------------------------------------------
(* Properties *)

\* For every oracle, pool length and random_type, get_random_numberlist
\* returns the sorted, duplicate-free set of the first num distinct draws,
\* num long and every index below length, or runs past the window exactly
\* when that set does not exist in it: the in-place sort+dedup inside the
\* loop and the length test before the next draw neither lose nor repeat
\* an index.
NumberListMatchesReference ==
    GetRandomNumberList(poolLength, rtype) = ReferenceNumberList(poolLength, rtype)

\* get_random_file challenges one active record for every index the
\* sampler drew, each record once: its counter must advance on active
\* records only, the same ones get_file_map_length counts.
SampledFilesActiveAndDistinct ==
    LET nl == GetRandomNumberList(ActiveCount(fileActive), 2)
        picked == GetRandomFile(fileActive)
    IN  picked \notin Failures =>
            /\ Len(picked) = Len(nl)
            /\ \A k \in DOMAIN picked : fileActive[picked[k]]
            /\ \A j, k \in DOMAIN picked : j # k => picked[j] # picked[k]

\* Every block index get_random_challenge_data sends to a miner is an
\* index the sampler drew: the `*i as u8` conversion keeps it.
BlockListNamesDrawnBlocks ==
    LET nl == GetRandomNumberList(poolLength, 1)
    IN  nl \notin Failures => BlockList(nl) = nl

=============================================================================
