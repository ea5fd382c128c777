------------------------------ MODULE FileBank ------------------------------
(***************************************************************************)
(* The file-bank pallet (src/c-pallets/file-bank/src/lib.rs): the file     *)
(* registry (File), the per-account quota packages (PurchasedPackage), the *)
(* per-account held-file index (UserHoldFileList), the miners' filler      *)
(* placeholders (FillerMap) and the per-miner invalid-file outbox          *)
(* (InvalidFile).  Every extrinsic is one atomic step.  A call that        *)
(* returns an error leaves every storage item as it was, so it is a        *)
(* stuttering step: each action is the successful path of its extrinsic,   *)
(* guarded by `<Call>Error(...) = "Ok"`, where <Call>Error returns the      *)
(* first error the code's checks raise, in the code's order.  A panic      *)
(* (an `unwrap` on None) is the error "Panic".  The power and space       *)
(* counters of the miner-capacity collaborator (pallet_sminer) are part of *)
(* the state because upload, upload_filler and delete write them.          *)
(*                                                                         *)
(* Sizes are in units of M_BYTE (1 MiB).  Text fields (file names, miner   *)
(* endpoints) are left out: no branch of the code reads them.              *)
(***************************************************************************)
EXTENDS Naturals, Sequences, FiniteSets, SequencesExt, FiniteSetsExt, Functions, TLC

CONSTANTS
    Users,          \* accounts that declare, own and delete files
    Miners,         \* storage miners (pallet_sminer accounts)
    Schedulers,     \* accounts for which T::Scheduler::contains_scheduler holds
    Hashes,         \* file hashes (model values)
    FillerIds,      \* filler ids (model values)
    FileSizes,      \* sizes a scheduler may report for an uploaded file
    Tiers,          \* package_type arguments of buy_package
    Counts,         \* count arguments of buy_package
    SeededAccounts, \* accounts holding a package written before this runtime
    GByte, TByte,   \* G_BYTE and T_BYTE in units of M_BYTE
    StringLimit,    \* T::StringLimit: bound of user lists, outboxes, Members
    ItemLimit,      \* T::ItemLimit: bound of UserHoldFileList entries
    PowerBound      \* cap on a miner's power, keeps upload_filler finite

Accounts == Users \cup Miners \cup Schedulers

ASSUME /\ Schedulers \subseteq Accounts
       /\ SeededAccounts \subseteq Users
       /\ Hashes \cap FillerIds = {}

VARIABLES
    file,     \* File: hash -> FileInfo, DOMAIN is the set of stored keys
    package,  \* PurchasedPackage: account -> PackageDetails
    hold,     \* UserHoldFileList: account -> Seq of [hash, size]
    filler,   \* FillerMap: miner -> set of filler ids
    invalid,  \* InvalidFile: account -> Seq of hashes / filler ids
    power,    \* pallet_sminer power of each account
    space,    \* pallet_sminer space of each account
    exited    \* miners whose pallet_sminer state is "exit"

vars == <<file, package, hold, filler, invalid, power, space, exited>>

-----------------------------------------------------------------------------
(* Constants of the code *)

\* 8 * M_BYTE of power per filler (upload_filler)
FillerPower == 8

\* at most 10 fillers in one upload_filler call
FillerBatchLimit == 10

FileRec == [size : Nat, miner : Accounts, state : {"pending", "active"},
            users : Seq(Users)]

PackageRec == [space : Nat, used : Nat, remaining : Nat, ptype : 1..5,
               state : {"normal", "frozen"}]

HoldRec == [hash : Hashes, size : Nat]

ObjectIds == Hashes \cup FillerIds

TypeOK ==
    /\ DOMAIN file \subseteq Hashes
    /\ \A h \in DOMAIN file : file[h] \in FileRec
    /\ DOMAIN package \subseteq Users
    /\ \A a \in DOMAIN package : package[a] \in PackageRec
    /\ hold \in [Users -> Seq(HoldRec)]
    /\ filler \in [Miners -> SUBSET FillerIds]
    /\ invalid \in [Accounts -> Seq(ObjectIds)]
    /\ power \in [Accounts -> Nat]
    /\ space \in [Accounts -> Nat]
    /\ exited \subseteq Miners

-----------------------------------------------------------------------------
(* Helpers *)

\* a storage map with key k inserted or overwritten
Put(f, k, v) == (k :> v) @@ f

\* a storage map with key k removed
Del(f, k) == [x \in DOMAIN f \ {k} |-> f[x]]

\* update_user_space(acc, 1, size): the error it returns, or "Ok".
\* `space - used_space` is an unchecked u128 subtraction: when used_space
\* exceeds space it wraps to a value no size exceeds.
CreditError(a, size) ==
    IF a \notin DOMAIN package THEN "NotPurchasedPackage"
    ELSE IF package[a].state = "frozen" THEN "LeaseFreeze"
    ELSE IF package[a].used <= package[a].space
            /\ size > package[a].space - package[a].used
         THEN "InsufficientStorage"
    ELSE IF package[a].remaining < size THEN "Overflow"
    ELSE "Ok"

Credited(a, size) ==
    [package[a] EXCEPT !.used = @ + size, !.remaining = @ - size]

\* variant: used_space decreased without checked_sub
DebitErrorUnchecked(a, size) ==
    IF a \notin DOMAIN package THEN "Panic" ELSE "Ok"

\* update_user_space(acc, 2, size): `s_opt.as_mut().unwrap()` panics when
\* the account has no package.
DebitError(a, size) ==
    IF a \notin DOMAIN package THEN "Panic"
    ELSE IF package[a].used < size THEN "Overflow"
    ELSE IF package[a].space < package[a].used - size THEN "Overflow"
    ELSE "Ok"

Debited(a, size) ==
    [package[a] EXCEPT !.used = @ - size,
                       !.remaining = package[a].space - (package[a].used - size)]

\* variant: the replace count not rounded up
ReplaceNumNoRoundUp(size) == size \div 8

\* replace_file: number of fillers a file of `size` replaces
ReplaceNum(size) == size \div 8 + 1

\* the loop over FillerMap::iter_prefix stops after replace_num fillers
ReplaceCount(m, size) == Min({ReplaceNum(size), Cardinality(filler[m])})

\* replace_file: the error it returns, or "Ok".  The space check is made
\* after add_space(miner, file_size) has already raised the space.
ReplaceError(m, size) ==
    LET sp == space[m] + size
    IN  IF ~(power[m] > sp) THEN "Overflow"
        ELSE IF power[m] - sp < size THEN "MinerPowerInsufficient"
        ELSE IF ReplaceCount(m, size) > StringLimit THEN "StorageLimitReached"
        ELSE IF Len(invalid[m]) + ReplaceCount(m, size) > StringLimit
             THEN "StorageLimitReached"
        ELSE "Ok"

\* add_user_hold_fileslice: push (hash, size) onto the user's
\* UserHoldFileList (its ItemLimit check is part of the callers' errors)
HoldPush(a, h, size) == [hold EXCEPT ![a] = Append(@, [hash |-> h, size |-> size])]

-----------------------------------------------------------------------------
Init ==
    /\ file = <<>>
    /\ package = [a \in SeededAccounts |->
                    [space |-> 10 * GByte, used |-> 0, remaining |-> 10 * GByte,
                     ptype |-> 1, state |-> "normal"]]
    /\ hold = [a \in Users |-> <<>>]
    /\ filler = [m \in Miners |-> {}]
    /\ invalid = [a \in Accounts |-> <<>>]
    /\ power = [a \in Accounts |-> 0]
    /\ space = [a \in Accounts |-> 0]
    /\ exited = {}

-----------------------------------------------------------------------------
(* Extrinsics *)

\* variant: no Declarated check
DeclarationErrorNoDedup(a, h) ==
    IF h \notin DOMAIN file THEN "Ok"
    ELSE IF CreditError(a, file[h].size) # "Ok" THEN CreditError(a, file[h].size)
    ELSE IF Len(hold[a]) >= ItemLimit THEN "StorageLimitReached"
    ELSE IF Len(file[h].users) >= StringLimit THEN "StorageLimitReached"
    ELSE "Ok"

\* upload_declaration: the first declarer creates a pending record and is
\* charged nothing; a later declarer is charged the recorded size.
DeclarationError(a, h) ==
    IF h \notin DOMAIN file THEN "Ok"
    ELSE IF Contains(file[h].users, a) THEN "Declarated"
    ELSE IF CreditError(a, file[h].size) # "Ok" THEN CreditError(a, file[h].size)
    ELSE IF Len(hold[a]) >= ItemLimit THEN "StorageLimitReached"
    ELSE IF Len(file[h].users) >= StringLimit THEN "StorageLimitReached"
    ELSE "Ok"

UploadDeclaration(a, h) ==
    /\ DeclarationError(a, h) = "Ok"
    /\ \/ /\ h \notin DOMAIN file
          /\ file' = Put(file, h, [size |-> 0, miner |-> a, state |-> "pending",
                                   users |-> <<a>>])
          /\ UNCHANGED <<package, hold>>
       \/ /\ h \in DOMAIN file
          /\ package' = Put(package, a, Credited(a, file[h].size))
          /\ hold' = HoldPush(a, h, file[h].size)
          /\ file' = [file EXCEPT ![h].users = Append(@, a)]
    /\ UNCHANGED <<filler, invalid, power, space, exited>>

\* upload: a scheduler reports the stored file; the user is charged, the
\* record becomes active, and the miner's fillers are replaced.
UploadError(s, h, size, m, u) ==
    IF s \notin Schedulers THEN "ScheduleNonExistent"
    ELSE IF h \notin DOMAIN file THEN "FileNonExistent"
    ELSE IF CreditError(u, size) # "Ok" THEN CreditError(u, size)
    ELSE IF ~Contains(file[h].users, u) THEN "UserNotDeclared"
    ELSE IF file[h].state = "active" THEN "FileExistent"
    ELSE IF Len(hold[u]) >= ItemLimit THEN "StorageLimitReached"
    ELSE ReplaceError(m, size)

\* replace_file, after its checks: the fillers taken from the miner (in the
\* storage iteration order, here any choice) go to the miner's outbox
ReplaceFillers(m, size) ==
    \E taken \in kSubset(ReplaceCount(m, size), filler[m]) :
        /\ filler' = [filler EXCEPT ![m] = @ \ taken]
        /\ invalid' = [invalid EXCEPT ![m] = @ \o SetToSeq(taken)]

Upload(s, h, size, m, u) ==
    /\ UploadError(s, h, size, m, u) = "Ok"
    /\ package' = Put(package, u, Credited(u, size))
    /\ file' = [file EXCEPT ![h].size = size, ![h].miner = m,
                            ![h].state = "active"]
    /\ hold' = HoldPush(u, h, size)
    /\ space' = [space EXCEPT ![m] = @ + size]
    /\ ReplaceFillers(m, size)
    /\ UNCHANGED <<power, exited>>

\* upload_filler: a scheduler registers a batch of fillers of a positive
\* miner and raises the miner's power by 8 MiB per filler
UploadFillerError(s, m, batch) ==
    IF Cardinality(batch) > FillerBatchLimit THEN "LengthExceedsLimit"
    ELSE IF s \notin Schedulers THEN "ScheduleNonExistent"
    ELSE IF m \in exited THEN "NotQualified"
    ELSE IF batch \cap filler[m] # {} THEN "FileExistent"
    ELSE "Ok"

UploadFiller(s, m, batch) ==
    /\ UploadFillerError(s, m, batch) = "Ok"
    /\ power[m] + FillerPower * Cardinality(batch) <= PowerBound
    /\ filler' = [filler EXCEPT ![m] = @ \cup batch]
    /\ power' = [power EXCEPT ![m] = @ + FillerPower * Cardinality(batch)]
    /\ UNCHANGED <<file, package, hold, invalid, space, exited>>

\* delete_file / clear_user_file: the owner is debited; a co-owned record
\* loses that owner, a solely owned record is removed, its hash sent to the
\* recorded miner's outbox and the miner's power and space reduced.
DeleteError(a, h) ==
    IF h \notin DOMAIN file THEN "FileNonExistent"
    ELSE IF ~Contains(file[h].users, a) THEN "NotOwner"
    ELSE IF DebitError(a, file[h].size) # "Ok" THEN DebitError(a, file[h].size)
    ELSE IF Len(file[h].users) = 1
            /\ Len(invalid[file[h].miner]) >= StringLimit
         THEN "StorageLimitReached"
    ELSE IF Len(file[h].users) = 1 /\ power[file[h].miner] < file[h].size
         THEN "Overflow"
    ELSE IF Len(file[h].users) = 1 /\ space[file[h].miner] < file[h].size
         THEN "Overflow"
    ELSE "Ok"

\* clear_user_file's last step: the user's UserHoldFileList keeps only the
\* entries of other files (`retain`)
DropHeldFirst(a, h) == [hold EXCEPT ![a] = RemoveFirstMatch(@, LAMBDA e : e.hash = h)]

DropHeld(a, h) == [hold EXCEPT ![a] = SelectSeq(@, LAMBDA e : e.hash # h)]

\* sub_power and sub_space of the miner the removed record names
ReleaseMinerCapacityNoSpace(m, size) ==
    /\ power' = [power EXCEPT ![m] = @ - size]
    /\ UNCHANGED space

ReleaseMinerCapacity(m, size) ==
    /\ power' = [power EXCEPT ![m] = @ - size]
    /\ space' = [space EXCEPT ![m] = @ - size]

\* variant: the co-owner branch taken whatever the number of owners
DeleteFileKeepsRecord(a, h) ==
    /\ DeleteError(a, h) = "Ok"
    /\ package' = Put(package, a, Debited(a, file[h].size))
    /\ hold' = DropHeld(a, h)
    /\ file' = [file EXCEPT ![h].users = RemoveFirst(@, a)]
    /\ UNCHANGED <<invalid, power, space, filler, exited>>

\* variant: update_user_space(.., 2, ..) dropped from clear_user_file
DeleteFileNoDebit(a, h) ==
    /\ DeleteError(a, h) = "Ok"
    /\ LET f == file[h] IN
       /\ hold' = DropHeld(a, h)
       /\ \/ /\ Len(f.users) > 1
             /\ file' = [file EXCEPT ![h].users = RemoveFirst(@, a)]
             /\ UNCHANGED <<invalid, power, space>>
          \/ /\ Len(f.users) = 1
             /\ file' = Del(file, h)
             /\ invalid' = [invalid EXCEPT ![f.miner] = Append(@, h)]
             /\ ReleaseMinerCapacity(f.miner, f.size)
    /\ UNCHANGED <<package, filler, exited>>

DeleteFile(a, h) ==
    /\ DeleteError(a, h) = "Ok"
    /\ LET f == file[h] IN
       /\ package' = Put(package, a, Debited(a, f.size))
       /\ hold' = DropHeld(a, h)
       /\ \/ /\ Len(f.users) > 1
             /\ file' = [file EXCEPT ![h].users = RemoveFirst(@, a)]
             /\ UNCHANGED <<invalid, power, space>>
          \/ /\ Len(f.users) = 1
             /\ file' = Del(file, h)
             /\ invalid' = [invalid EXCEPT ![f.miner] = Append(@, h)]
             /\ ReleaseMinerCapacity(f.miner, f.size)
    /\ UNCHANGED <<filler, exited>>

\* buy_package.  The guard `ensure!(contains_key(&sender), PurchasedPackage)`
\* admits only accounts that already hold a package; the new record
\* overwrites the old one with used_space and remaining_space both 0.
\* get_price (IsZero when the network's total space is 0) and the currency
\* transfer may fail; such a call changes nothing.
TierSpace(tier, count) ==
    CASE tier = 1 -> 10 * GByte
      [] tier = 2 -> 500 * GByte
      [] tier = 3 -> TByte
      [] tier = 4 -> TByte
      [] tier = 5 -> count * TByte

\* add_puchased_package: the new record, with used_space and remaining_space
\* both 0 (tenancy, start and deadline are left out: nothing reads them)
PurchasedRecord(tier, count) ==
    [space |-> TierSpace(tier, count), used |-> 0, remaining |-> 0,
     ptype |-> tier, state |-> "normal"]

BuyPackageError(a, tier, count) ==
    IF a \notin DOMAIN package THEN "PurchasedPackage"
    ELSE IF tier \notin 1..5 \/ (tier = 5 /\ count < 5) THEN "WrongOperation"
    ELSE "Ok"

\* variant: a re-purchase that keeps the old used_space
BuyPackageKeepUsage(a, tier, count) ==
    /\ BuyPackageError(a, tier, count) = "Ok"
    /\ package' = Put(package, a,
                      [space |-> TierSpace(tier, count), used |-> package[a].used,
                       remaining |-> 0, ptype |-> tier, state |-> "normal"])
    /\ UNCHANGED <<file, hold, filler, invalid, power, space, exited>>

BuyPackage(a, tier, count) ==
    /\ BuyPackageError(a, tier, count) = "Ok"
    /\ package' = Put(package, a, PurchasedRecord(tier, count))
    /\ UNCHANGED <<file, hold, filler, invalid, power, space, exited>>

\* clear_invalid_file: the miner reports an object deleted locally; every
\* occurrence leaves its outbox
ClearInvalidFile(a, x) ==
    /\ invalid' = [invalid EXCEPT ![a] = Remove(@, x)]
    /\ UNCHANGED <<file, package, hold, filler, power, space, exited>>

\* pallet_sminer: a miner leaves and its state becomes "exit"
MinerExit(m) ==
    /\ m \notin exited
    /\ exited' = exited \cup {m}
    /\ UNCHANGED <<file, package, hold, filler, invalid, power, space>>

\* clear_all_filler: an exited miner drops all its fillers
ClearAllFiller(m) ==
    /\ m \in exited
    /\ filler' = [filler EXCEPT ![m] = {}]
    /\ UNCHANGED <<file, package, hold, invalid, power, space, exited>>

-----------------------------------------------------------------------------
(* RandomFileList: calls made by the audit pallets *)

DeleteFiller(m, f) ==
    /\ f \in filler[m]
    /\ filler' = [filler EXCEPT ![m] = @ \ {f}]
    /\ UNCHANGED <<file, package, hold, invalid, power, space, exited>>

DeleteMinerAllFiller(m) ==
    /\ filler' = [filler EXCEPT ![m] = {}]
    /\ UNCHANGED <<file, package, hold, invalid, power, space, exited>>

ClearFile(h) ==
    /\ h \in DOMAIN file
    /\ file' = Del(file, h)
    /\ UNCHANGED <<package, hold, filler, invalid, power, space, exited>>

AddInvalidFile(m, x) ==
    /\ Len(invalid[m]) < StringLimit
    /\ invalid' = [invalid EXCEPT ![m] = Append(@, x)]
    /\ UNCHANGED <<file, package, hold, filler, power, space, exited>>

-----------------------------------------------------------------------------
\* the extrinsics signed by users, schedulers and miners
UserNext ==
    \/ \E a \in Users, h \in Hashes : UploadDeclaration(a, h)
    \/ \E s \in Accounts, h \in Hashes, size \in FileSizes, m \in Miners,
          u \in Users : Upload(s, h, size, m, u)
    \/ \E s \in Accounts, m \in Miners, batch \in SUBSET FillerIds :
          UploadFiller(s, m, batch)
    \/ \E a \in Users, h \in Hashes : DeleteFile(a, h)
    \/ \E a \in Users, tier \in Tiers, count \in Counts : BuyPackage(a, tier, count)
    \* (clearing an object not in the outbox changes nothing)
    \/ \E a \in Accounts : \E x \in ToSet(invalid[a]) : ClearInvalidFile(a, x)
    \/ \E m \in Miners : ClearAllFiller(m)
    \/ \E m \in Miners : MinerExit(m)

\* the RandomFileList calls of the audit pallets
AuditNext ==
    \/ \E m \in Miners, f \in FillerIds : DeleteFiller(m, f)
    \/ \E m \in Miners : DeleteMinerAllFiller(m)
    \/ \E h \in Hashes : ClearFile(h)
    \/ \E m \in Miners, x \in ObjectIds : AddInvalidFile(m, x)

Next == UserNext \/ AuditNext

UserSpec == Init /\ [][UserNext]_vars

Spec == Init /\ [][Next]_vars

-----------------------------------------------------------------------------
(* Properties *)

\* total size of the active files stored on miner m
ActiveSizeOn(m) ==
    MapThenSumSet(LAMBDA h : file[h].size,
                  {h \in DOMAIN file : file[h].state = "active" /\ file[h].miner = m})

\* total size of the files account a is listed as an owner of
OwnedSize(a) ==
    MapThenSumSet(LAMBDA h : file[h].size,
                  {h \in DOMAIN file : Contains(file[h].users, a)})

\* A package's used_space never exceeds its space.  update_user_space
\* computes `s.space - s.used_space` unchecked (lib.rs:627); this is what
\* keeps that subtraction from wrapping through credits, debits and
\* re-purchases by several owners.
UsedWithinSpace ==
    \A a \in DOMAIN package : package[a].used <= package[a].space

\* Every miner's power covers its space plus the 8 MiB of every filler it
\* still holds.  upload_filler adds 8 MiB of power per filler; replace_file
\* adds the file's size to the space and retires size / 8 + 1 fillers (or
\* all the miner has, after checking power against twice the size); the
\* audit pallets only retire fillers; clear_user_file subtracts power and
\* space by the same size.  So sub_power never underflows, and the power
\* a miner proves is never less than what it stores plus the placeholders
\* it still claims.
PowerCoversSpaceAndFillers ==
    \A a \in Accounts :
        space[a] + FillerPower * (IF a \in Miners THEN Cardinality(filler[a]) ELSE 0)
            <= power[a]

\* The space pallet_sminer counts for a miner is the total size of the
\* active files recorded on it: upload adds it, only the deletion by the
\* last owner subtracts it.
SpaceMatchesFiles ==
    \A m \in Miners : space[m] = ActiveSizeOn(m)

\* Every entry of a user's UserHoldFileList names a stored file that the
\* user owns: clear_user_file drops the deleting user's entries whatever
\* the number of co-owners.
HoldEntriesOwned ==
    \A a \in Users : \A i \in 1..Len(hold[a]) :
        /\ hold[a][i].hash \in DOMAIN file
        /\ Contains(file[hold[a][i].hash].users, a)

\* Every stored record has at least one owner and no owner twice
\* (upload_declaration's Declarated check, clear_user_file's removal of the
\* record with its last owner).
OwnerListWellFormed ==
    \A h \in DOMAIN file :
        /\ Len(file[h].users) >= 1
        /\ IsInjective(file[h].users)

\* The registry as FileRegistry sees it: the owner set of every stored
\* record, and the miner and size of every active one.
Registry == INSTANCE FileRegistry WITH
    owners <- [h \in DOMAIN file |-> ToSet(file[h].users)],
    stored <- [h \in {x \in DOMAIN file : file[x].state = "active"} |->
                 [miner |-> file[h].miner, size |-> file[h].size]]

\* Every step of file-bank is a step of the abstract registry or leaves it
\* alone: a declaration adds exactly its sender as an owner, an upload
\* commits a declared record once without touching its owners, a delete
\* removes exactly the deleting owner and forgets the record with the last
\* one, clear_file forgets it, and no quota, filler or outbox step changes
\* a record.
RegistrySpec == Registry!Spec

(***************************************************************************)
(* What the spec and the code's comments say, and the code does not keep. *)
(***************************************************************************)

\* An account is never charged more than the total size of the stored
\* files it owns: every unit of used_space can be given back by deleting
\* something it owns.  upload credits the user it names, a later declarer
\* is credited the recorded size, and delete_file debits the deleting owner
\* what it removes; spec 3 lets used_space fall only on a deletion debit.
\* clear_file (lib.rs:859), which the RandomFileList trait documents as
\* deleting "the next backup under the file" (lib.rs:852, 1006), removes
\* the whole record with every owner, debits no one, and leaves no record
\* through which an owner could get the charge back.
UsedWithinOwned ==
    \A a \in DOMAIN package : package[a].used <= OwnedSize(a)

\* Every owner of a file is charged its size: used_space of each package is
\* the total size of the files its account owns (spec 4.3: a later
\* declarer is charged the file's size, the committed account is charged on
\* upload, each deleting owner is debited the size).  upload_declaration
\* charges a co-owner the size recorded at declaration time (0 while the
\* file is pending) and upload charges only the one `user` it names.
OwnedSizeCharged ==
    \A a \in DOMAIN package : package[a].used = OwnedSize(a)

\* the account is listed as an owner of the stored record
IsOwner(a, h) == h \in DOMAIN file /\ Contains(file[h].users, a)

\* The actors a deletion waits for: an owner who keeps calling delete_file
\* (it is enabled only intermittently, while the miner's outbox has room,
\* hence strong fairness), and a miner that keeps clearing its outbox.
\* Nothing obliges anyone else to act: uploads, declarations, purchases and
\* fillers may stop at any time.
DeleteFairness ==
    /\ \A a \in Users, h \in Hashes : SF_vars(DeleteFile(a, h))
    /\ \A m \in Miners : WF_vars(\E x \in ToSet(invalid[m]) : ClearInvalidFile(m, x))

FairUserSpec == UserSpec /\ DeleteFairness

DeleteNeverPanics ==
    \A a \in Users, h \in Hashes : DeleteError(a, h) # "Panic"

\* A file hash waiting in a miner's invalid-file outbox is not the hash of
\* an active file stored on that miner: the miner deletes what its outbox
\* lists, so a live file listed there loses its data.  Files are content
\* addressed, and upload_declaration and upload check only File, never
\* the outbox, so deleted content declared and uploaded again to the same
\* miner before it cleared its outbox is listed as invalid.
OutboxHoldsNoLiveFile ==
    \A m \in Miners : \A x \in ToSet(invalid[m]) :
        ~(x \in DOMAIN file /\ file[x].state = "active" /\ file[x].miner = m)

=============================================================================
