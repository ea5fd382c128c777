---------------------------- MODULE FileRegistry ----------------------------
(***************************************************************************)
(* What the file registry of file-bank promises, without the quota, the    *)
(* held-file index, the fillers or the outbox: a content hash is declared  *)
(* by its first owner, gains owners one declaration at a time, is          *)
(* committed once to a miner with its size, loses owners one deletion at a *)
(* time and is forgotten with its last owner or by the audit's clear.      *)
(* `owners` maps every stored hash to its set of owners; `stored` maps     *)
(* every committed hash to the miner and size it was committed with.       *)
(***************************************************************************)
EXTENDS FiniteSets

CONSTANTS Users, Miners, Hashes, FileSizes

VARIABLES owners, stored

regVars == <<owners, stored>>

TypeOK ==
    /\ DOMAIN owners \subseteq Hashes
    /\ \A h \in DOMAIN owners : owners[h] \subseteq Users
    /\ DOMAIN stored \subseteq DOMAIN owners
    /\ \A h \in DOMAIN stored : stored[h] \in [miner : Miners, size : FileSizes]

\* the empty map
NoEntries == [h \in {} |-> {}]

Init ==
    /\ owners = NoEntries
    /\ stored = NoEntries

\* upload_declaration: a new hash with its first owner, or one more owner
Declare(a, h) ==
    /\ \/ /\ h \notin DOMAIN owners
          /\ owners' = [x \in DOMAIN owners \cup {h} |-> IF x = h THEN {a} ELSE owners[x]]
       \/ /\ h \in DOMAIN owners /\ a \notin owners[h]
          /\ owners' = [owners EXCEPT ![h] = @ \cup {a}]
    /\ UNCHANGED stored

\* upload: a declared, uncommitted hash is committed to a miner with a size
Commit(h, m, size) ==
    /\ h \in DOMAIN owners /\ h \notin DOMAIN stored
    /\ stored' = [x \in DOMAIN stored \cup {h} |->
                    IF x = h THEN [miner |-> m, size |-> size] ELSE stored[x]]
    /\ UNCHANGED owners

\* the hash leaves the registry with everything recorded for it
Forget(h) ==
    /\ owners' = [x \in DOMAIN owners \ {h} |-> owners[x]]
    /\ stored' = [x \in DOMAIN stored \ {h} |-> stored[x]]

\* delete_file: an owner leaves; the last owner takes the hash with it
Leave(a, h) ==
    /\ h \in DOMAIN owners /\ a \in owners[h]
    /\ IF owners[h] = {a} THEN Forget(h)
       ELSE /\ owners' = [owners EXCEPT ![h] = @ \ {a}]
            /\ UNCHANGED stored

\* clear_file of the audit pallets: the hash is dropped whoever owns it
Discard(h) ==
    /\ h \in DOMAIN owners
    /\ Forget(h)

Next ==
    \/ \E a \in Users, h \in Hashes : Declare(a, h) \/ Leave(a, h)
    \/ \E h \in Hashes, m \in Miners, size \in FileSizes : Commit(h, m, size)
    \/ \E h \in Hashes : Discard(h)

Spec == Init /\ [][Next]_regVars

=============================================================================
