------------------------------ MODULE TeeWorker ------------------------------
(***************************************************************************)
(* The tee-worker pallet: registration of scheduler (TEE worker) accounts, *)
(* the PoDR2 public key taken from the first registration, the mr_enclave *)
(* whitelist, and the ScheduleFind queries the file-bank pallet uses.      *)
(* A registration is checked against the staking pallet's bonded ledger,   *)
(* which changes under bond, set_controller and a full unbond; those three *)
(* are modelled from the staking interface, since that pallet is not part  *)
(* of this repository.  Extrinsics are transactional, so a failed call is  *)
(* a stutter and each action is the success path of its call.              *)
(***************************************************************************)
EXTENDS Naturals, Sequences, FiniteSets

CONSTANTS
    Controllers,    \* accounts that sign regist_scheduler
    Stashes,        \* stash accounts of the staking pallet
    Podr2Keys,      \* PoDR2 public keys a worker may submit
    Enclaves,       \* mr_enclave values root may whitelist
    MaxWhitelist,   \* T::MaxWhitelist
    PunishBound,    \* cap on the punishments recorded for one stash
    NoKey           \* TeePodr2Pk before its first put

ASSUME NoKey \notin Podr2Keys

VARIABLES
    bonded,     \* pallet_cess_staking Bonded: stash -> controller
    workers,    \* TeeWorkerMap: controller -> stash_account of its info
    podr2,      \* TeePodr2Pk
    whitelist,  \* MrEnclaveWhitelist
    punished    \* punishments slash_scheduler and T::CreditCounter recorded per stash

vars == <<bonded, workers, podr2, whitelist, punished>>

TypeOK ==
    /\ DOMAIN bonded \subseteq Stashes /\ \A s \in DOMAIN bonded : bonded[s] \in Controllers
    /\ DOMAIN workers \subseteq Controllers
    /\ \A c \in DOMAIN workers : workers[c] \in Stashes
    /\ podr2 \in Podr2Keys \cup {NoKey}
    /\ whitelist \in Seq(Enclaves) /\ Len(whitelist) <= MaxWhitelist
    /\ punished \in [Stashes -> 0..PunishBound]

Put(f, k, v) == [x \in DOMAIN f \cup {k} |-> IF x = k THEN v ELSE f[x]]
Del(f, k) == [x \in DOMAIN f \ {k} |-> f[x]]

Init ==
    /\ bonded = <<>>
    /\ workers = <<>>
    /\ podr2 = NoKey
    /\ whitelist = <<>>
    /\ punished = [s \in Stashes |-> 0]

(***************************************************************************)
(* Staking ledger (modelled from the staking interface): a controller      *)
(* controls at most one stash, so bond and set_controller refuse a         *)
(* controller that is already paired.                                      *)
(***************************************************************************)
Paired(c) == \E s \in DOMAIN bonded : bonded[s] = c

Bond(s, c) ==
    /\ s \notin DOMAIN bonded /\ ~Paired(c)
    /\ bonded' = Put(bonded, s, c)
    /\ UNCHANGED <<workers, podr2, whitelist, punished>>

SetController(s, c) ==
    /\ s \in DOMAIN bonded /\ ~Paired(c)
    /\ bonded' = [bonded EXCEPT ![s] = c]
    /\ UNCHANGED <<workers, podr2, whitelist, punished>>

Unbond(s) ==
    /\ s \in DOMAIN bonded
    /\ bonded' = Del(bonded, s)
    /\ UNCHANGED <<workers, podr2, whitelist, punished>>

(***************************************************************************)
(* regist_scheduler                                                        *)
(***************************************************************************)
\* the PoDR2 key is put only when TeeWorkerMap::count() == 0
Podr2After(key) == IF workers = <<>> THEN key ELSE podr2

\* NotBond, NotController, AlreadyRegistration in the code's order; a failed
\* certificate check is a stutter like any other failure
RegistError(sender, s) ==
    IF s \notin DOMAIN bonded THEN "NotBond"
    ELSE IF bonded[s] # sender THEN "NotController"
    ELSE IF sender \in DOMAIN workers THEN "AlreadyRegistration"
    ELSE "Ok"

RegistScheduler(sender, s, key) ==
    /\ RegistError(sender, s) = "Ok"
    /\ podr2' = Podr2After(key)
    /\ workers' = Put(workers, sender, s)
    /\ UNCHANGED <<bonded, whitelist, punished>>

(***************************************************************************)
(* update_whitelist: try_push(..).unwrap() panics on a full list; only the *)
(* push that fits changes state.                                           *)
(***************************************************************************)
\* update_whitelist with push in place of the bounded try_push
UpdateWhitelistErrorUnbounded == "Ok"

UpdateWhitelistError == IF Len(whitelist) >= MaxWhitelist THEN "Panic" ELSE "Ok"

UpdateWhitelist(e) ==
    /\ UpdateWhitelistError = "Ok"
    /\ whitelist' = Append(whitelist, e)
    /\ UNCHANGED <<bonded, workers, podr2, punished>>

(***************************************************************************)
(* ScheduleFind, read by the file-bank pallet                              *)
(***************************************************************************)
contains_scheduler(acc) == acc \in DOMAIN workers

\* the controller registered with stash acc, or acc itself when none is;
\* TeeWorkerMap::iter() may meet matching entries in any order
get_controller_acc(acc) ==
    LET found == {c \in DOMAIN workers : workers[c] = acc}
    IN IF found = {} THEN {acc} ELSE found

\* punish_scheduler(acc), called by the audit pallets: NonTeeWorker unless
\* acc is a registered controller; otherwise the stash recorded at
\* registration is slashed and a punishment recorded against it, whatever
\* the staking ledger says of that stash now
PunishScheduler(acc) ==
    /\ acc \in DOMAIN workers
    /\ punished[workers[acc]] < PunishBound
    /\ punished' = [punished EXCEPT ![workers[acc]] = @ + 1]
    /\ UNCHANGED <<bonded, workers, podr2, whitelist>>

\* get_first_controller: the first key TeeWorkerMap::iter() meets, any of
\* them, or NonTeeWorker when the map is empty
get_first_controller ==
    IF workers = <<>> THEN {"NonTeeWorker"} ELSE DOMAIN workers

\* get_controller_list: every registered controller, in iteration order
get_controller_list == DOMAIN workers

Next ==
    \/ \E s \in Stashes, c \in Controllers : Bond(s, c) \/ SetController(s, c)
    \/ \E s \in Stashes : Unbond(s)
    \/ \E c \in Controllers, s \in Stashes, k \in Podr2Keys : RegistScheduler(c, s, k)
    \/ \E e \in Enclaves : UpdateWhitelist(e)
    \/ \E c \in Controllers : PunishScheduler(c)

Spec == Init /\ [][Next]_vars

(***************************************************************************)
(* Properties                                                              *)
(***************************************************************************)

\* No two registered TEE workers share a stash account, so that
\* get_controller_acc(stash) and punish_scheduler name one worker.
StashRegisteredOnce ==
    \A c1, c2 \in DOMAIN workers : c1 # c2 => workers[c1] # workers[c2]

\* A root call to update_whitelist never panics: the list always has room
\* for the next try_push(..).unwrap().
WhitelistPushNeverPanics == UpdateWhitelistError # "Panic"

=============================================================================
