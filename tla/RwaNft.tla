------------------------------- MODULE RwaNft -------------------------------
(***************************************************************************)
(* The RWA-NFT contract (contracts/rwa-nft/src/main.rs): one token per     *)
(* real-world asset, a KYC whitelist kept by the admin, single-token       *)
(* approvals and a capped supply.                                          *)
(*                                                                         *)
(* A contract call is one atomic transaction of the chain: an entry point  *)
(* that reverts leaves the state as it was, so every action below is a     *)
(* call that succeeds and its guard is the conjunction of the checks that  *)
(* would have reverted.  The contract's maps are total functions here:     *)
(* NoAccount stands for an absent key of `owners' and `approved', 0 for an *)
(* absent balance (or_insert(1) followed by saturating_sub(1) leaves 0,    *)
(* exactly what saturating_sub leaves of a recorded 0), and membership of  *)
(* the set kyc for a whitelist entry whose value is true.                  *)
(***************************************************************************)
EXTENDS Naturals, FiniteSets, Functions

CONSTANTS Accounts,     \* the 32-byte account hashes that may call
          Admin,        \* the account that installed the contract
          TokenIds,     \* the u64 token ids
          MaxSupply,    \* the installer's max_supply, a u64
          NoAccount     \* "no entry" in the maps from token to account

ASSUME AccountsAssumption  == IsFiniteSet(Accounts)
ASSUME AdminAssumption     == Admin \in Accounts
ASSUME TokenIdsAssumption  == IsFiniteSet(TokenIds)
ASSUME MaxSupplyAssumption == MaxSupply \in Nat
ASSUME NoAccountAssumption == NoAccount \notin Accounts

VARIABLES owners,       \* token -> owner
          balances,     \* account -> token count
          described,    \* the tokens that have a `metadata' entry
          approved,     \* token -> approved spender
          kyc,          \* the whitelisted accounts
          totalSupply,
          approvedBy    \* history: token -> the account that made the approval

vars == <<owners, balances, described, approved, kyc, totalSupply, approvedBy>>

-----------------------------------------------------------------------------
(* What the contract's helpers and queries compute.                        *)

Live == {t \in TokenIds : owners[t] # NoAccount}

Owned(a) == {t \in TokenIds : owners[t] = a}

\* u64::saturating_sub(1)
SatDec(n) == IF n = 0 THEN 0 ELSE n - 1

-----------------------------------------------------------------------------
(* The checks and updates of the entry points, some preceded by slips of   *)
(* it that the properties below must notice and no action uses.            *)

CreditOnce(bal, a) == [bal EXCEPT ![a] = 1]
Credit(bal, a) == [bal EXCEPT ![a] = @ + 1]

DebitNothing(bal, a) == bal
Debit(bal, a) == [bal EXCEPT ![a] = SatDec(@)]

IsKyc(a) == a \in kyc

HasRoom == totalSupply < MaxSupply

Described(t) == described \cup {t}

\* The removal of an approval, from the contract's map and from the history.
Kept(map, t) == map
Spent(map, t) == [map EXCEPT ![t] = NoAccount]

-----------------------------------------------------------------------------
Init ==
    /\ owners = [t \in TokenIds |-> NoAccount]
    /\ balances = [a \in Accounts |-> 0]
    /\ described = {}
    /\ approved = [t \in TokenIds |-> NoAccount]
    /\ kyc = {}
    /\ totalSupply = 0
    /\ approvedBy = [t \in TokenIds |-> NoAccount]

\* Nothing checks that the id is unused: a second mint of an id overwrites its
\* owner and leaves the former owner's balance and the approval in place.
Mint(caller, recipient, t) ==
    /\ IsKyc(caller)
    /\ IsKyc(recipient)
    /\ HasRoom
    /\ owners' = [owners EXCEPT ![t] = recipient]
    /\ described' = Described(t)
    /\ balances' = Credit(balances, recipient)
    /\ totalSupply' = totalSupply + 1
    /\ UNCHANGED <<approved, kyc, approvedBy>>

\* Only the recipient's whitelist entry is consulted.
Transfer(caller, from, to, t) ==
    /\ owners[t] = from
    /\ caller = from \/ approved[t] = caller
    /\ IsKyc(to)
    /\ owners' = [owners EXCEPT ![t] = to]
    /\ balances' = Credit(Debit(balances, from), to)
    /\ approved' = Spent(approved, t)
    /\ approvedBy' = Spent(approvedBy, t)
    /\ UNCHANGED <<described, kyc, totalSupply>>

Approve(caller, spender, t) ==
    /\ owners[t] = caller
    /\ approved' = [approved EXCEPT ![t] = spender]
    /\ approvedBy' = [approvedBy EXCEPT ![t] = caller]
    /\ UNCHANGED <<owners, balances, described, kyc, totalSupply>>

\* The token need not exist.
SetMetadata(caller, t) ==
    /\ caller = Admin
    /\ described' = Described(t)
    /\ UNCHANGED <<owners, balances, approved, kyc, totalSupply, approvedBy>>

SetKyc(caller, account, yes) ==
    /\ caller = Admin
    /\ kyc' = IF yes THEN kyc \cup {account} ELSE kyc \ {account}
    /\ UNCHANGED <<owners, balances, described, approved, totalSupply, approvedBy>>

\* The approval and the metadata of the token stay behind.
Burn(caller, t) ==
    /\ t \in Live
    /\ caller \in {owners[t], Admin}
    /\ owners' = [owners EXCEPT ![t] = NoAccount]
    /\ balances' = Debit(balances, owners[t])
    /\ totalSupply' = SatDec(totalSupply)
    /\ UNCHANGED <<described, approved, kyc, approvedBy>>

\* Every call but mint.
NextNoMint ==
    \/ \E c, from, to \in Accounts, t \in TokenIds : Transfer(c, from, to, t)
    \/ \E c, s \in Accounts, t \in TokenIds : Approve(c, s, t)
    \/ \E c \in Accounts, t \in TokenIds : SetMetadata(c, t)
    \/ \E c, a \in Accounts, yes \in BOOLEAN : SetKyc(c, a, yes)
    \/ \E c \in Accounts, t \in TokenIds : Burn(c, t)

Next ==
    \/ \E c, r \in Accounts, t \in TokenIds : Mint(c, r, t)
    \/ NextNoMint

Spec == Init /\ [][Next]_vars

-----------------------------------------------------------------------------
\* The types of the contract's cells.
TypeOK ==
    /\ owners \in [TokenIds -> Accounts \cup {NoAccount}]
    /\ balances \in [Accounts -> Nat]
    /\ described \subseteq TokenIds
    /\ approved \in [TokenIds -> Accounts \cup {NoAccount}]
    /\ kyc \subseteq Accounts
    /\ totalSupply \in Nat
    /\ approvedBy \in [TokenIds -> Accounts \cup {NoAccount}]

\* Whatever is minted twice, burnt or passed on, an account's balance never
\* falls below the number of tokens it owns: the saturating subtractions of
\* transfer and burn never hide a missing unit.
BalanceCoversOwned ==
    \A a \in Accounts : balances[a] >= Cardinality(Owned(a))

\* total_supply never undercounts the live tokens and never passes the cap
\* that mint enforces, although re-minting lets the two drift apart.
SupplyWithinCap ==
    /\ Cardinality(Live) <= totalSupply
    /\ totalSupply <= MaxSupply

\* The two ledgers that mint, transfer and burn keep separately agree: the
\* balances always add up to total_supply.
SupplyIsSumOfBalances == totalSupply = SumFunction(balances)

\* No call hands a token to an account that is not whitelisted at that moment:
\* neither mint to a third party nor an approved spender's transfer, whatever
\* revocation ran in between.
OwnershipNeedsKyc ==
    [][\A t \in TokenIds :
          owners'[t] \notin {owners[t], NoAccount} => owners'[t] \in kyc]_vars

\* An approval serves one transfer: when a token moves without a mint, the
\* approval it moved under is gone with it.
ApprovalSpentByTransfer ==
    [][\A t \in TokenIds :
          /\ owners[t] # owners'[t]
          /\ owners'[t] # NoAccount
          /\ totalSupply' = totalSupply
          => approved'[t] = NoAccount]_vars

\* main.rs:17 and :362 call balance_of the "token count for an account".
BalanceIsTokenCount ==
    \A a \in Accounts : balances[a] = Cardinality(Owned(a))

\* main.rs:235 lets only a token's owner approve a spender: an approval in
\* force on a live token was given by the account that owns it.
ApprovalFromOwner ==
    \A t \in Live : approved[t] # NoAccount => approvedBy[t] = owners[t]
=============================================================================
