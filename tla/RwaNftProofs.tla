---------------------------- MODULE RwaNftProofs ----------------------------
(***************************************************************************)
(* Proofs about the RWA-NFT contract, for any number of accounts and token *)
(* ids, any cap and any order of calls.  The second half assumes fresh     *)
(* token ids (RwaNftFresh): then the counters are exact, approvals come    *)
(* from owners, and the contract implements the abstract ledger.           *)
(***************************************************************************)
EXTENDS RwaNftFresh, Sums

(***************************************************************************)
(* How the token sets Live and Owned(a), and their sizes, change when the  *)
(* owner of one token does.                                                *)
(***************************************************************************)
\* Adding a token to, or taking it from, a set of tokens.
LEMMA TokenCount ==
    ASSUME NEW S \in SUBSET TokenIds, NEW t \in TokenIds
    PROVE  /\ Cardinality(S) \in Nat
           /\ Cardinality(S \cup {t}) \in Nat
           /\ Cardinality(S \ {t}) \in Nat
           /\ t \in S => /\ Cardinality(S \cup {t}) = Cardinality(S)
                         /\ Cardinality(S) = Cardinality(S \ {t}) + 1
                         /\ Cardinality(S) > 0
           /\ t \notin S => /\ Cardinality(S \cup {t}) = Cardinality(S) + 1
                            /\ Cardinality(S \ {t}) = Cardinality(S)
<1>1. IsFiniteSet(S)
  BY TokenIdsAssumption, FS_Subset
<1>2. IsFiniteSet(S \cup {t}) /\ IsFiniteSet(S \ {t})
  BY <1>1, FS_AddElement, FS_RemoveElement
<1>3. /\ Cardinality(S) \in Nat
      /\ Cardinality(S \cup {t}) \in Nat
      /\ Cardinality(S \ {t}) \in Nat
  BY <1>1, <1>2, FS_CardinalityType
<1>4. Cardinality(S \cup {t}) = IF t \in S THEN Cardinality(S) ELSE Cardinality(S) + 1
  BY <1>1, FS_AddElement
<1>5. Cardinality(S \ {t}) = IF t \in S THEN Cardinality(S) - 1 ELSE Cardinality(S)
  BY <1>1, FS_RemoveElement
<1> QED
  BY <1>3, <1>4, <1>5

\* Giving token t to r (an account, or nobody) takes it from whoever had it.
LEMMA OwnedAfterUpdate ==
    ASSUME TypeOK, NEW t \in TokenIds, NEW r \in Accounts \cup {NoAccount},
           owners' = [owners EXCEPT ![t] = r], NEW a \in Accounts
    PROVE  /\ Cardinality(Owned(a)) \in Nat
           /\ Cardinality(Owned(a)') \in Nat
           /\ a = r /\ owners[t] = a => Cardinality(Owned(a)') = Cardinality(Owned(a))
           /\ a = r /\ owners[t] # a => Cardinality(Owned(a)') = Cardinality(Owned(a)) + 1
           /\ a # r /\ owners[t] # a => Cardinality(Owned(a)') = Cardinality(Owned(a))
           /\ a # r /\ owners[t] = a => Cardinality(Owned(a)) = Cardinality(Owned(a)') + 1
           /\ owners[t] = a => Cardinality(Owned(a)) > 0
<1>1. Owned(a) \in SUBSET TokenIds /\ (t \in Owned(a) <=> owners[t] = a)
  BY DEF Owned
<1>2. a = r => Owned(a)' = Owned(a) \cup {t}
  BY DEF Owned, TypeOK
<1>3. a # r => Owned(a)' = Owned(a) \ {t}
  BY DEF Owned, TypeOK
<1> QED
  BY <1>1, <1>2, <1>3, TokenCount

\* The same for the live tokens.
LEMMA LiveAfterUpdate ==
    ASSUME TypeOK, NEW t \in TokenIds, NEW r \in Accounts \cup {NoAccount},
           owners' = [owners EXCEPT ![t] = r]
    PROVE  /\ Cardinality(Live) \in Nat
           /\ Cardinality(Live') \in Nat
           /\ r # NoAccount /\ owners[t] # NoAccount => Cardinality(Live') = Cardinality(Live)
           /\ r # NoAccount /\ owners[t] = NoAccount => Cardinality(Live') = Cardinality(Live) + 1
           /\ r = NoAccount /\ owners[t] # NoAccount => Cardinality(Live) = Cardinality(Live') + 1
<1>1. Live \in SUBSET TokenIds /\ (t \in Live <=> owners[t] # NoAccount)
  BY DEF Live
<1>2. r # NoAccount => Live' = Live \cup {t}
  BY DEF Live, TypeOK
<1>3. r = NoAccount => Live' = Live \ {t}
  BY DEF Live, TypeOK
<1> QED
  BY <1>1, <1>2, <1>3, TokenCount

-----------------------------------------------------------------------------
\* Saturating subtraction stays in the naturals.
LEMMA SatDecNat ==
    ASSUME NEW n \in Nat
    PROVE  /\ SatDec(n) \in Nat
           /\ n > 0 => SatDec(n) = n - 1
BY DEF SatDec

(***************************************************************************)
(* Type correctness.                                                       *)
(***************************************************************************)
LEMMA TypeStep == TypeOK /\ [Next]_vars => TypeOK'
<1> SUFFICES ASSUME TypeOK, [Next]_vars PROVE TypeOK'
  OBVIOUS
<1> USE AdminAssumption DEF TypeOK
<1>1. ASSUME NEW c \in Accounts, NEW r \in Accounts, NEW t \in TokenIds, Mint(c, r, t)
      PROVE  TypeOK'
  BY <1>1 DEF Mint, Credit, Described
<1>2. ASSUME NEW c \in Accounts, NEW from \in Accounts, NEW to \in Accounts,
             NEW t \in TokenIds, Transfer(c, from, to, t)
      PROVE  TypeOK'
  <2>1. \A n \in Nat : SatDec(n) \in Nat
    BY SatDecNat
  <2>2. balances' \in [Accounts -> Nat]
    BY <1>2, <2>1 DEF Transfer, Credit, Debit
  <2> QED
    BY <1>2, <2>2 DEF Transfer, Spent
<1>3. ASSUME NEW c \in Accounts, NEW s \in Accounts, NEW t \in TokenIds, Approve(c, s, t)
      PROVE  TypeOK'
  BY <1>3 DEF Approve
<1>4. ASSUME NEW c \in Accounts, NEW t \in TokenIds, SetMetadata(c, t)
      PROVE  TypeOK'
  BY <1>4 DEF SetMetadata, Described
<1>5. ASSUME NEW c \in Accounts, NEW a \in Accounts, NEW yes \in BOOLEAN, SetKyc(c, a, yes)
      PROVE  TypeOK'
  BY <1>5 DEF SetKyc
<1>6. ASSUME NEW c \in Accounts, NEW t \in TokenIds, Burn(c, t)
      PROVE  TypeOK'
  <2>1. \A n \in Nat : SatDec(n) \in Nat
    BY SatDecNat
  <2>2. owners[t] \in Accounts
    BY <1>6 DEF Burn, Live
  <2> QED
    BY <1>6, <2>1, <2>2 DEF Burn, Debit
<1>7. CASE UNCHANGED vars
  BY <1>7 DEF vars
<1> QED
  BY <1>1, <1>2, <1>3, <1>4, <1>5, <1>6, <1>7 DEF Next, NextNoMint

\* The contract's cells keep their types through every call.
THEOREM TypeCorrect == Spec => []TypeOK
<1>1. Init => TypeOK
  BY DEF Init, TypeOK
<1> QED
  BY <1>1, TypeStep, PTL DEF Spec

(***************************************************************************)
(* The counters cover the tokens.  Each invariant is inductive together    *)
(* with TypeOK: a token that transfer or burn takes from an account is one *)
(* of the tokens its balance covers, so the balance is at least 1 and the  *)
(* saturating subtraction takes exactly 1.                                 *)
(***************************************************************************)
LEMMA BalanceStep ==
    TypeOK /\ TypeOK' /\ BalanceCoversOwned /\ [Next]_vars => BalanceCoversOwned'
<1> SUFFICES ASSUME TypeOK, TypeOK', BalanceCoversOwned, [Next]_vars, NEW a \in Accounts
             PROVE  balances'[a] >= Cardinality(Owned(a)')
  BY DEF BalanceCoversOwned
<1>0. /\ \A b \in Accounts : balances[b] >= Cardinality(Owned(b))
      /\ \A b \in Accounts : balances[b] \in Nat
  BY DEF BalanceCoversOwned, TypeOK
<1>00. owners \in [TokenIds -> Accounts \cup {NoAccount}]
  BY DEF TypeOK
<1>1. ASSUME NEW c \in Accounts, NEW r \in Accounts, NEW t \in TokenIds, Mint(c, r, t)
      PROVE  balances'[a] >= Cardinality(Owned(a)')
  <2>1. owners' = [owners EXCEPT ![t] = r] /\ r \in Accounts \cup {NoAccount}
    BY <1>1 DEF Mint, Credit
  <2>2. /\ Cardinality(Owned(a)) \in Nat /\ Cardinality(Owned(a)') \in Nat
        /\ a = r => \/ Cardinality(Owned(a)') = Cardinality(Owned(a))
                    \/ Cardinality(Owned(a)') = Cardinality(Owned(a)) + 1
        /\ a # r => \/ Cardinality(Owned(a)') = Cardinality(Owned(a))
                    \/ Cardinality(Owned(a)) = Cardinality(Owned(a)') + 1
    BY TypeOK, <2>1, OwnedAfterUpdate
  <2>3. balances'[a] = IF a = r THEN balances[a] + 1 ELSE balances[a]
    BY <1>1 DEF Mint, Credit, TypeOK
  <2> QED
    BY <2>2, <2>3, <1>0
<1>2. ASSUME NEW c \in Accounts, NEW from \in Accounts, NEW to \in Accounts,
             NEW t \in TokenIds, Transfer(c, from, to, t)
      PROVE  balances'[a] >= Cardinality(Owned(a)')
  <2>1. owners' = [owners EXCEPT ![t] = to] /\ owners[t] = from
    BY <1>2 DEF Transfer, Credit, Debit
  <2>2. /\ Cardinality(Owned(a)) \in Nat /\ Cardinality(Owned(a)') \in Nat
        /\ a = to /\ a = from => Cardinality(Owned(a)') = Cardinality(Owned(a))
        /\ a = to /\ a # from => Cardinality(Owned(a)') = Cardinality(Owned(a)) + 1
        /\ a # to /\ a # from => Cardinality(Owned(a)') = Cardinality(Owned(a))
        /\ a # to /\ a = from => Cardinality(Owned(a)) = Cardinality(Owned(a)') + 1
    BY TypeOK, <2>1, <1>00, OwnedAfterUpdate
  <2>3. Cardinality(Owned(from)) \in Nat /\ Cardinality(Owned(from)) > 0
    BY TypeOK, <2>1, <1>00, OwnedAfterUpdate
  <2>4. balances[from] > 0
    BY <2>3, <1>0
  <2>5. SatDec(balances[from]) = balances[from] - 1
    BY <2>4, <1>0, SatDecNat
  <2>6. /\ a = to /\ a = from => balances'[a] = SatDec(balances[a]) + 1
        /\ a = to /\ a # from => balances'[a] = balances[a] + 1
        /\ a # to /\ a # from => balances'[a] = balances[a]
        /\ a # to /\ a = from => balances'[a] = SatDec(balances[a])
    <3>1. /\ balances' = [[balances EXCEPT ![from] = SatDec(@)] EXCEPT ![to] = @ + 1]
          /\ balances \in [Accounts -> Nat]
      BY <1>2 DEF Transfer, Credit, Debit, TypeOK
    <3>2. CASE to = from
      BY <3>1, <3>2
    <3>3. CASE to # from
      BY <3>1, <3>3
    <3> QED
      BY <3>2, <3>3
  <2> QED
    BY <2>2, <2>4, <2>5, <2>6, <1>0
<1>3. ASSUME NEW c \in Accounts, NEW t \in TokenIds, Burn(c, t)
      PROVE  balances'[a] >= Cardinality(Owned(a)')
  <2>1. /\ owners' = [owners EXCEPT ![t] = NoAccount]
        /\ owners[t] \in Accounts /\ a # NoAccount
        /\ NoAccount \in Accounts \cup {NoAccount}
    BY <1>3, <1>00, NoAccountAssumption DEF Burn, Live
  <2>2. /\ Cardinality(Owned(a)) \in Nat /\ Cardinality(Owned(a)') \in Nat
        /\ a # owners[t] => Cardinality(Owned(a)') = Cardinality(Owned(a))
        /\ a = owners[t] => Cardinality(Owned(a)) = Cardinality(Owned(a)') + 1 /\ Cardinality(Owned(a)) > 0
    BY TypeOK, <2>1, OwnedAfterUpdate
  <2>3. a = owners[t] => SatDec(balances[a]) = balances[a] - 1
    BY <2>2, <1>0, SatDecNat
  <2>4. balances'[a] = IF a = owners[t] THEN SatDec(balances[a]) ELSE balances[a]
    BY <1>3 DEF Burn, Debit, TypeOK
  <2> QED
    BY <2>2, <2>3, <2>4, <1>0
<1>4. ASSUME owners' = owners, balances' = balances
      PROVE  balances'[a] >= Cardinality(Owned(a)')
  BY <1>4, <1>0 DEF Owned
<1>5. balances'[a] >= Cardinality(Owned(a)')
  <2>1. ASSUME NextNoMint PROVE balances'[a] >= Cardinality(Owned(a)')
    BY <2>1, <1>2, <1>3, <1>4 DEF NextNoMint, Approve, SetMetadata, SetKyc
  <2>2. ASSUME UNCHANGED vars PROVE balances'[a] >= Cardinality(Owned(a)')
    BY <2>2, <1>4 DEF vars
  <2> QED
    BY <1>1, <2>1, <2>2 DEF Next
<1> QED
  BY <1>0, <1>5

\* No account ever owns more tokens than its balance says, for any order of
\* mints (of new and used ids), transfers and burns.
THEOREM BalanceSafe == Spec => []BalanceCoversOwned
<1>1. Init => TypeOK
  BY DEF Init, TypeOK
<1>2. Init => BalanceCoversOwned
  <2> SUFFICES ASSUME Init, NEW a \in Accounts
               PROVE  balances[a] >= Cardinality(Owned(a))
    BY DEF BalanceCoversOwned
  <2>1. Owned(a) = {}
    BY NoAccountAssumption DEF Init, Owned
  <2>2. Cardinality(Owned(a)) = 0
    BY <2>1, FS_EmptySet
  <2> QED
    BY <2>2 DEF Init
<1> QED
  BY <1>1, <1>2, TypeStep, BalanceStep, PTL DEF Spec

\* Every call keeps total_supply between the live tokens and the cap.
LEMMA SupplyStep ==
    TypeOK /\ TypeOK' /\ SupplyWithinCap /\ [Next]_vars => SupplyWithinCap'
<1> SUFFICES ASSUME TypeOK, TypeOK', SupplyWithinCap, [Next]_vars
             PROVE  Cardinality(Live') <= totalSupply' /\ totalSupply' <= MaxSupply
  BY DEF SupplyWithinCap
<1> DEFINE n == Cardinality(Live)
           m == Cardinality(Live')
           Goal == m <= totalSupply' /\ totalSupply' <= MaxSupply
<1>0. /\ n <= totalSupply /\ totalSupply <= MaxSupply
      /\ totalSupply \in Nat /\ MaxSupply \in Nat
      /\ owners \in [TokenIds -> Accounts \cup {NoAccount}]
  BY MaxSupplyAssumption DEF SupplyWithinCap, TypeOK
<1>1. ASSUME NEW c \in Accounts, NEW r \in Accounts, NEW t \in TokenIds, Mint(c, r, t)
      PROVE  Goal
  <2>1. /\ owners' = [owners EXCEPT ![t] = r]
        /\ r # NoAccount /\ r \in Accounts \cup {NoAccount}
    BY <1>1, NoAccountAssumption DEF Mint, Credit
  <2>2. n \in Nat /\ m \in Nat /\ (m = n \/ m = n + 1)
    BY TypeOK, <2>1, <1>0, LiveAfterUpdate
  <2>3. totalSupply' = totalSupply + 1 /\ totalSupply < MaxSupply
    BY <1>1 DEF Mint, HasRoom
  <2> QED
    BY <2>2, <2>3, <1>0
<1>2. ASSUME NEW c \in Accounts, NEW from \in Accounts, NEW to \in Accounts,
             NEW t \in TokenIds, Transfer(c, from, to, t)
      PROVE  Goal
  <2>1. /\ owners' = [owners EXCEPT ![t] = to]
        /\ owners[t] # NoAccount /\ to # NoAccount
        /\ totalSupply' = totalSupply
    BY <1>2, NoAccountAssumption DEF Transfer, Credit, Debit
  <2>2. m = n
    BY TypeOK, <2>1, <1>0, LiveAfterUpdate
  <2> QED
    BY <2>1, <2>2, <1>0
<1>3. ASSUME NEW c \in Accounts, NEW t \in TokenIds, Burn(c, t)
      PROVE  Goal
  <2>1. owners' = [owners EXCEPT ![t] = NoAccount] /\ owners[t] # NoAccount
    BY <1>3 DEF Burn, Live
  <2>2. n \in Nat /\ m \in Nat /\ n = m + 1
    BY TypeOK, <2>1, <1>0, LiveAfterUpdate
  <2>3. totalSupply' = totalSupply - 1
    BY <1>3, <2>2, <1>0, SatDecNat DEF Burn, Debit
  <2> QED
    BY <2>2, <2>3, <1>0
<1>4. ASSUME owners' = owners, totalSupply' = totalSupply
      PROVE  Goal
  BY <1>4, <1>0 DEF Live
<1>5. Goal
  <2>1. ASSUME NextNoMint PROVE Goal
    BY <2>1, <1>2, <1>3, <1>4 DEF NextNoMint, Approve, SetMetadata, SetKyc
  <2>2. ASSUME UNCHANGED vars PROVE Goal
    BY <2>2, <1>4 DEF vars
  <2> QED
    BY <1>1, <2>1, <2>2 DEF Next
<1> QED
  BY <1>0, <1>5

\* total_supply never undercounts the live tokens and never passes max_supply.
THEOREM SupplySafe == Spec => []SupplyWithinCap
<1>1. Init => TypeOK
  BY DEF Init, TypeOK
<1>2. Init => SupplyWithinCap
  <2> SUFFICES ASSUME Init PROVE SupplyWithinCap
    OBVIOUS
  <2>1. Live = {}
    BY DEF Init, Live
  <2>2. Cardinality(Live) = 0
    BY <2>1, FS_EmptySet
  <2> QED
    BY <2>2, MaxSupplyAssumption DEF Init, SupplyWithinCap
<1> QED
  BY <1>1, <1>2, TypeStep, SupplyStep, PTL DEF Spec

(***************************************************************************)
(* The two ledgers add up.  By itself this is not inductive: a saturating  *)
(* subtraction from 0 would take nothing from one side.  That the debited  *)
(* balance is positive follows from BalanceCoversOwned, and that           *)
(* total_supply is positive from the balances being a part of it.          *)
(***************************************************************************)
SumInv == TypeOK /\ BalanceCoversOwned /\ SupplyIsSumOfBalances

\* Changing one balance changes the sum of all by as much.
LEMMA SumAfterUpdate ==
    ASSUME NEW b \in [Accounts -> Nat], NEW c \in [Accounts -> Nat], NEW a \in Accounts,
           \A x \in Accounts \ {a} : c[x] = b[x]
    PROVE  /\ SumFunction(b) \in Nat /\ b[a] <= SumFunction(b)
           /\ SumFunction(c) = SumFunction(b) - b[a] + c[a]
<1>1. /\ \A x \in Accounts : b[x] \in Nat /\ b[x] \in Int
      /\ c[a] \in Int
      /\ DOMAIN b = Accounts /\ DOMAIN c = Accounts
  OBVIOUS
<1>2. /\ SumFunctionOnSet(b, Accounts) \in Nat
      /\ b[a] <= SumFunctionOnSet(b, Accounts)
  BY <1>1, AccountsAssumption, SumCovers
<1>3. SumFunctionOnSet(c, Accounts) = SumFunctionOnSet(b, Accounts) - b[a] + c[a]
  BY <1>1, AccountsAssumption, SumOfChanged
<1> QED
  BY <1>1, <1>2, <1>3 DEF SumFunction

\* A token's owner has a positive balance.
LEMMA OwnerHasBalance ==
    ASSUME TypeOK, BalanceCoversOwned, NEW t \in TokenIds, owners[t] \in Accounts
    PROVE  balances[owners[t]] \in Nat /\ balances[owners[t]] > 0
<1> DEFINE a == owners[t]
<1>1. Owned(a) \in SUBSET TokenIds /\ t \in Owned(a)
  BY DEF Owned
<1>2. Cardinality(Owned(a)) \in Nat /\ Cardinality(Owned(a)) > 0
  BY <1>1, TokenCount
<1> QED
  BY <1>2 DEF BalanceCoversOwned, TypeOK

\* A mint adds 1 to both ledgers, a transfer takes 1 from one balance and adds
\* it to another, a burn takes 1 from both ledgers.
LEMMA SumStep == SumInv /\ [Next]_vars => SupplyIsSumOfBalances'
<1> SUFFICES ASSUME SumInv, [Next]_vars PROVE totalSupply' = SumFunction(balances')
  BY DEF SupplyIsSumOfBalances
<1>0. /\ TypeOK /\ BalanceCoversOwned
      /\ balances \in [Accounts -> Nat]
      /\ totalSupply = SumFunction(balances) /\ totalSupply \in Nat
  BY DEF SumInv, TypeOK, SupplyIsSumOfBalances
<1>1. ASSUME NEW c \in Accounts, NEW r \in Accounts, NEW t \in TokenIds, Mint(c, r, t)
      PROVE  totalSupply' = SumFunction(balances')
  <2>1. /\ balances' \in [Accounts -> Nat]
        /\ balances'[r] = balances[r] + 1 /\ balances[r] \in Nat
        /\ \A a \in Accounts \ {r} : balances'[a] = balances[a]
    BY <1>0, <1>1 DEF Mint, Credit
  <2>2. SumFunction(balances') = SumFunction(balances) - balances[r] + balances'[r]
    BY <1>0, <2>1, SumAfterUpdate
  <2> QED
    BY <1>0, <1>1, <2>1, <2>2 DEF Mint
<1>2. ASSUME NEW c \in Accounts, NEW from \in Accounts, NEW to \in Accounts,
             NEW t \in TokenIds, Transfer(c, from, to, t)
      PROVE  totalSupply' = SumFunction(balances')
  <2>1. PICK less : less = Debit(balances, from)
    OBVIOUS
  <2>2. balances[from] \in Nat /\ balances[from] > 0
    BY <1>0, <1>2, OwnerHasBalance DEF Transfer
  <2>3. SatDec(balances[from]) \in Nat /\ SatDec(balances[from]) = balances[from] - 1
    BY <2>2, SatDecNat
  <2>4. /\ less \in [Accounts -> Nat] /\ less[from] = balances[from] - 1
        /\ \A a \in Accounts \ {from} : less[a] = balances[a]
    BY <1>0, <2>1, <2>3 DEF Debit
  <2>5. balances' = [less EXCEPT ![to] = less[to] + 1] /\ totalSupply' = totalSupply
    BY <1>2, <2>1 DEF Transfer, Credit
  <2>6. /\ balances' \in [Accounts -> Nat]
        /\ balances'[to] = less[to] + 1 /\ less[to] \in Nat
        /\ \A a \in Accounts \ {to} : balances'[a] = less[a]
    BY <2>4, <2>5
  <2>7. SumFunction(less) = SumFunction(balances) - balances[from] + less[from]
    BY <1>0, <2>4, SumAfterUpdate
  <2>8. SumFunction(balances') = SumFunction(less) - less[to] + balances'[to]
    BY <2>4, <2>6, SumAfterUpdate
  <2> QED
    BY <1>0, <2>2, <2>4, <2>5, <2>6, <2>7, <2>8
<1>3. ASSUME NEW c \in Accounts, NEW t \in TokenIds, Burn(c, t)
      PROVE  totalSupply' = SumFunction(balances')
  <2>1. PICK a \in Accounts : owners[t] = a
    BY <1>0, <1>3 DEF Burn, Live, TypeOK
  <2>2. balances[a] \in Nat /\ balances[a] > 0
    BY <1>0, <2>1, OwnerHasBalance
  <2>3. SatDec(balances[a]) \in Nat /\ SatDec(balances[a]) = balances[a] - 1
    BY <2>2, SatDecNat
  <2>4. /\ balances' \in [Accounts -> Nat] /\ balances'[a] = balances[a] - 1
        /\ \A b \in Accounts \ {a} : balances'[b] = balances[b]
    BY <1>0, <1>3, <2>1, <2>3 DEF Burn, Debit
  <2>5. /\ SumFunction(balances') = SumFunction(balances) - balances[a] + balances'[a]
        /\ balances[a] <= SumFunction(balances)
    BY <1>0, <2>4, SumAfterUpdate
  <2>6. totalSupply' = totalSupply - 1
    BY <1>0, <1>3, <2>2, <2>5 DEF Burn, SatDec
  <2> QED
    BY <1>0, <2>2, <2>4, <2>5, <2>6
<1>4. CASE UNCHANGED <<balances, totalSupply>>
  BY <1>0, <1>4
<1> QED
  BY <1>1, <1>2, <1>3, <1>4 DEF Next, NextNoMint, Approve, SetMetadata, SetKyc, vars

\* The balances always add up to total_supply, for any number of accounts and
\* ids, and for ids that are minted again.
THEOREM LedgersAddUp == Spec => []SupplyIsSumOfBalances
<1>1. Init => SupplyIsSumOfBalances
  <2> SUFFICES ASSUME Init PROVE SumFunction(balances) = 0
    BY DEF Init, SupplyIsSumOfBalances
  <2>1. /\ \A a \in Accounts : balances[a] = 0 /\ balances[a] \in Int
        /\ DOMAIN balances = Accounts
    BY DEF Init
  <2>2. SumFunctionOnSet(balances, Accounts) = SumFunctionOnSet(balances, {})
    BY <2>1, AccountsAssumption, SumOfPart
  <2> QED
    BY <2>1, <2>2, SumOfNone DEF SumFunction
<1> QED
  BY <1>1, SumStep, TypeCorrect, BalanceSafe, PTL DEF Spec, SumInv

(***************************************************************************)
(* What no step may do.                                                    *)
(***************************************************************************)
\* A token only ever comes to an account that is whitelisted at that moment.
THEOREM KycGate == Spec => OwnershipNeedsKyc
<1>1. ASSUME TypeOK, [Next]_vars, NEW t \in TokenIds,
             owners'[t] \notin {owners[t], NoAccount}
      PROVE  owners'[t] \in kyc
  <2>1. ASSUME NEW c \in Accounts, NEW r \in Accounts, NEW u \in TokenIds, Mint(c, r, u)
        PROVE  owners'[t] \in kyc
    BY <1>1, <2>1 DEF Mint, TypeOK, IsKyc
  <2>2. ASSUME NEW c \in Accounts, NEW from \in Accounts, NEW to \in Accounts,
               NEW u \in TokenIds, Transfer(c, from, to, u)
        PROVE  owners'[t] \in kyc
    BY <1>1, <2>2 DEF Transfer, TypeOK, IsKyc
  <2>3. ASSUME NEW c \in Accounts, NEW u \in TokenIds, Burn(c, u)
        PROVE  FALSE
    BY <1>1, <2>3 DEF Burn, Debit, TypeOK
  <2>4. owners' # owners
    BY <1>1
  <2> QED
    BY <1>1, <2>1, <2>2, <2>3, <2>4
       DEF Next, NextNoMint, Approve, SetMetadata, SetKyc, vars
<1>2. TypeOK /\ [Next]_vars =>
         [\A t \in TokenIds :
             owners'[t] \notin {owners[t], NoAccount} => owners'[t] \in kyc]_vars
  BY <1>1
<1> QED
  BY <1>2, TypeCorrect, PTL DEF Spec, OwnershipNeedsKyc

\* A token that moves without a mint leaves its approval behind.
THEOREM ApprovalsSpent == Spec => ApprovalSpentByTransfer
<1>1. ASSUME TypeOK, [Next]_vars, NEW t \in TokenIds,
             owners[t] # owners'[t], owners'[t] # NoAccount, totalSupply' = totalSupply
      PROVE  approved'[t] = NoAccount
  <2>1. ASSUME NEW c \in Accounts, NEW r \in Accounts, NEW u \in TokenIds, Mint(c, r, u)
        PROVE  FALSE
    BY <1>1, <2>1 DEF Mint, TypeOK
  <2>2. ASSUME NEW c \in Accounts, NEW from \in Accounts, NEW to \in Accounts,
               NEW u \in TokenIds, Transfer(c, from, to, u)
        PROVE  approved'[t] = NoAccount
    BY <1>1, <2>2 DEF Transfer, Spent, TypeOK
  <2>3. ASSUME NEW c \in Accounts, NEW u \in TokenIds, Burn(c, u)
        PROVE  FALSE
    BY <1>1, <2>3 DEF Burn, TypeOK
  <2>4. owners' # owners
    BY <1>1
  <2> QED
    BY <1>1, <2>1, <2>2, <2>3, <2>4
       DEF Next, NextNoMint, Approve, SetMetadata, SetKyc, vars
<1>2. TypeOK /\ [Next]_vars =>
         [\A t \in TokenIds :
             /\ owners[t] # owners'[t]
             /\ owners'[t] # NoAccount
             /\ totalSupply' = totalSupply
             => approved'[t] = NoAccount]_vars
  BY <1>1
<1> QED
  BY <1>2, TypeCorrect, PTL DEF Spec, ApprovalSpentByTransfer

-----------------------------------------------------------------------------
(***************************************************************************)
(* Fresh token ids.                                                        *)
(***************************************************************************)
\* An id that was never minted was never approved either.
NoEarlyApproval == \A t \in TokenIds \ minted : approved[t] = NoAccount

FreshInv ==
    /\ FreshTypeOK
    /\ BalanceIsTokenCount
    /\ SupplyIsTokenCount
    /\ ApprovalFromOwner
    /\ NoEarlyApproval

-----------------------------------------------------------------------------
\* Every fresh step is a step of the contract.
LEMMA FreshIsContract == [FreshNext]_fvars => [Next]_vars
BY DEF FreshNext, FreshMint, Next, fvars

\* Every call keeps the types, and mints only ids it records.
LEMMA FreshTypeStep == FreshTypeOK /\ [FreshNext]_fvars => FreshTypeOK'
<1> SUFFICES ASSUME FreshTypeOK, [FreshNext]_fvars PROVE FreshTypeOK'
  OBVIOUS
<1>1. TypeOK /\ TypeOK'
  BY FreshIsContract, TypeStep DEF FreshTypeOK
<1>2. minted' \subseteq TokenIds /\ minted \subseteq minted'
  BY DEF FreshTypeOK, FreshNext, FreshMint, fvars
<1>3. ASSUME NEW t \in TokenIds, owners'[t] # NoAccount PROVE t \in minted'
  <2>1. CASE owners[t] # NoAccount
    BY <1>2, <2>1 DEF FreshTypeOK, Live
  <2>2. CASE owners[t] = NoAccount
    <3>1. ASSUME NEW c \in Accounts, NEW r \in Accounts, NEW u \in TokenIds, FreshMint(c, r, u)
          PROVE  t \in minted'
      BY <1>1, <1>3, <2>2, <3>1 DEF FreshMint, Mint, TypeOK
    <3>2. ASSUME NEW c \in Accounts, NEW from \in Accounts, NEW to \in Accounts,
                 NEW u \in TokenIds, Transfer(c, from, to, u)
          PROVE  FALSE
      BY <1>1, <1>3, <2>2, <3>2, NoAccountAssumption DEF Transfer, TypeOK
    <3>3. ASSUME NEW c \in Accounts, NEW u \in TokenIds, Burn(c, u)
          PROVE  FALSE
      BY <1>1, <1>3, <2>2, <3>3 DEF Burn, TypeOK
    <3>4. owners' # owners
      BY <1>3, <2>2
    <3> QED
      BY <3>1, <3>2, <3>3, <3>4
         DEF FreshNext, NextNoMint, Approve, SetMetadata, SetKyc, fvars, vars
  <2> QED
    BY <2>1, <2>2
<1> QED
  BY <1>1, <1>2, <1>3 DEF FreshTypeOK, Live

-----------------------------------------------------------------------------
(***************************************************************************)
(* The counters.                                                           *)
(***************************************************************************)
LEMMA FreshBalanceStep ==
    FreshTypeOK /\ BalanceIsTokenCount /\ [FreshNext]_fvars => BalanceIsTokenCount'
<1> SUFFICES ASSUME FreshTypeOK, BalanceIsTokenCount, [FreshNext]_fvars, NEW a \in Accounts
             PROVE  balances'[a] = Cardinality(Owned(a)')
  BY DEF BalanceIsTokenCount
<1>0. /\ TypeOK
      /\ owners \in [TokenIds -> Accounts \cup {NoAccount}]
      /\ \A b \in Accounts : balances[b] = Cardinality(Owned(b))
      /\ \A b \in Accounts : balances[b] \in Nat
  BY DEF BalanceIsTokenCount, FreshTypeOK, TypeOK
<1>1. ASSUME NEW c \in Accounts, NEW r \in Accounts, NEW t \in TokenIds, FreshMint(c, r, t)
      PROVE  balances'[a] = Cardinality(Owned(a)')
  <2>1. /\ owners' = [owners EXCEPT ![t] = r] /\ r \in Accounts \cup {NoAccount}
        /\ owners[t] = NoAccount /\ a # NoAccount
    BY <1>1, NoAccountAssumption DEF FreshMint, Mint, FreshTypeOK, Live
  <2>2. /\ Cardinality(Owned(a)) \in Nat /\ Cardinality(Owned(a)') \in Nat
        /\ a = r => Cardinality(Owned(a)') = Cardinality(Owned(a)) + 1
        /\ a # r => Cardinality(Owned(a)') = Cardinality(Owned(a))
    BY <1>0, <2>1, OwnedAfterUpdate
  <2>3. balances'[a] = IF a = r THEN balances[a] + 1 ELSE balances[a]
    BY <1>0, <1>1 DEF FreshMint, Mint, Credit, TypeOK
  <2> QED
    BY <2>2, <2>3, <1>0
<1>2. ASSUME NEW c \in Accounts, NEW from \in Accounts, NEW to \in Accounts,
             NEW t \in TokenIds, Transfer(c, from, to, t)
      PROVE  balances'[a] = Cardinality(Owned(a)')
  <2>1. /\ owners' = [owners EXCEPT ![t] = to] /\ owners[t] = from
        /\ to \in Accounts \cup {NoAccount}
    BY <1>2 DEF Transfer
  <2>2. /\ Cardinality(Owned(a)) \in Nat /\ Cardinality(Owned(a)') \in Nat
        /\ a = to /\ a = from => Cardinality(Owned(a)') = Cardinality(Owned(a))
        /\ a = to /\ a # from => Cardinality(Owned(a)') = Cardinality(Owned(a)) + 1
        /\ a # to /\ a # from => Cardinality(Owned(a)') = Cardinality(Owned(a))
        /\ a # to /\ a = from => Cardinality(Owned(a)) = Cardinality(Owned(a)') + 1
        /\ a = from => Cardinality(Owned(a)) > 0
    BY <1>0, <2>1, OwnedAfterUpdate
  <2>3. a = from => SatDec(balances[a]) = balances[a] - 1
    BY <2>2, <1>0, SatDecNat
  <2>4. /\ a = to /\ a = from => balances'[a] = SatDec(balances[a]) + 1
        /\ a = to /\ a # from => balances'[a] = balances[a] + 1
        /\ a # to /\ a # from => balances'[a] = balances[a]
        /\ a # to /\ a = from => balances'[a] = SatDec(balances[a])
    <3>1. /\ balances' = [[balances EXCEPT ![from] = SatDec(@)] EXCEPT ![to] = @ + 1]
          /\ balances \in [Accounts -> Nat]
      BY <1>0, <1>2 DEF Transfer, Credit, Debit, TypeOK
    <3>2. CASE to = from
      BY <3>1, <3>2
    <3>3. CASE to # from
      BY <3>1, <3>3
    <3> QED
      BY <3>2, <3>3
  <2> QED
    BY <2>2, <2>3, <2>4, <1>0
<1>3. ASSUME NEW c \in Accounts, NEW t \in TokenIds, Burn(c, t)
      PROVE  balances'[a] = Cardinality(Owned(a)')
  <2>1. /\ owners' = [owners EXCEPT ![t] = NoAccount]
        /\ owners[t] \in Accounts /\ a # NoAccount
        /\ NoAccount \in Accounts \cup {NoAccount}
    BY <1>3, <1>0, NoAccountAssumption DEF Burn, Live
  <2>2. /\ Cardinality(Owned(a)) \in Nat /\ Cardinality(Owned(a)') \in Nat
        /\ a # owners[t] => Cardinality(Owned(a)') = Cardinality(Owned(a))
        /\ a = owners[t] => Cardinality(Owned(a)) = Cardinality(Owned(a)') + 1
    BY <1>0, <2>1, OwnedAfterUpdate
  <2>3. a = owners[t] => SatDec(balances[a]) = balances[a] - 1
    BY <2>2, <1>0, SatDecNat
  <2>4. balances'[a] = IF a = owners[t] THEN SatDec(balances[a]) ELSE balances[a]
    BY <1>0, <1>3 DEF Burn, Debit, TypeOK
  <2> QED
    BY <2>2, <2>3, <2>4, <1>0
<1>4. ASSUME owners' = owners, balances' = balances
      PROVE  balances'[a] = Cardinality(Owned(a)')
  BY <1>4, <1>0 DEF Owned
<1> QED
  BY <1>1, <1>2, <1>3, <1>4
     DEF FreshNext, NextNoMint, Approve, SetMetadata, SetKyc, fvars, vars

\* Every call changes total_supply and the number of live tokens alike.
LEMMA FreshSupplyStep ==
    FreshTypeOK /\ SupplyIsTokenCount /\ [FreshNext]_fvars => SupplyIsTokenCount'
<1> SUFFICES ASSUME FreshTypeOK, SupplyIsTokenCount, [FreshNext]_fvars
             PROVE  totalSupply' = Cardinality(Live')
  BY DEF SupplyIsTokenCount
<1>0. TypeOK /\ totalSupply = Cardinality(Live) /\ totalSupply \in Nat
  BY DEF SupplyIsTokenCount, FreshTypeOK, TypeOK
<1>1. ASSUME NEW c \in Accounts, NEW r \in Accounts, NEW t \in TokenIds, FreshMint(c, r, t)
      PROVE  totalSupply' = Cardinality(Live')
  <2>1. /\ owners' = [owners EXCEPT ![t] = r] /\ r \in Accounts \cup {NoAccount}
        /\ r # NoAccount /\ owners[t] = NoAccount
        /\ totalSupply' = totalSupply + 1
    BY <1>1, NoAccountAssumption DEF FreshMint, Mint, FreshTypeOK, Live
  <2>2. Cardinality(Live') = Cardinality(Live) + 1
    BY <1>0, <2>1, LiveAfterUpdate
  <2> QED
    BY <2>1, <2>2, <1>0
<1>2. ASSUME NEW c \in Accounts, NEW from \in Accounts, NEW to \in Accounts,
             NEW t \in TokenIds, Transfer(c, from, to, t)
      PROVE  totalSupply' = Cardinality(Live')
  <2>1. /\ owners' = [owners EXCEPT ![t] = to] /\ to \in Accounts \cup {NoAccount}
        /\ owners[t] # NoAccount /\ to # NoAccount
        /\ totalSupply' = totalSupply
    BY <1>2, NoAccountAssumption DEF Transfer
  <2>2. Cardinality(Live') = Cardinality(Live)
    BY <1>0, <2>1, LiveAfterUpdate
  <2> QED
    BY <2>1, <2>2, <1>0
<1>3. ASSUME NEW c \in Accounts, NEW t \in TokenIds, Burn(c, t)
      PROVE  totalSupply' = Cardinality(Live')
  <2>1. /\ owners' = [owners EXCEPT ![t] = NoAccount] /\ owners[t] # NoAccount
        /\ totalSupply' = SatDec(totalSupply)
        /\ NoAccount \in Accounts \cup {NoAccount}
    BY <1>3 DEF Burn, Live
  <2>2. Cardinality(Live') \in Nat /\ Cardinality(Live) = Cardinality(Live') + 1
    BY <1>0, <2>1, LiveAfterUpdate
  <2>3. SatDec(totalSupply) = totalSupply - 1
    BY <2>2, <1>0, SatDecNat
  <2> QED
    BY <2>1, <2>2, <2>3, <1>0
<1>4. ASSUME owners' = owners, totalSupply' = totalSupply
      PROVE  totalSupply' = Cardinality(Live')
  BY <1>4, <1>0 DEF Live
<1> QED
  BY <1>1, <1>2, <1>3, <1>4
     DEF FreshNext, NextNoMint, Approve, SetMetadata, SetKyc, fvars, vars

(***************************************************************************)
(* The approvals.                                                          *)
(***************************************************************************)
LEMMA FreshApprovalStep ==
    FreshTypeOK /\ ApprovalFromOwner /\ NoEarlyApproval /\ [FreshNext]_fvars
        => ApprovalFromOwner' /\ NoEarlyApproval'
<1> SUFFICES ASSUME FreshTypeOK, ApprovalFromOwner, NoEarlyApproval, [FreshNext]_fvars,
                    NEW t \in TokenIds
             PROVE  /\ owners'[t] # NoAccount /\ approved'[t] # NoAccount
                           => approvedBy'[t] = owners'[t]
                    /\ t \notin minted' => approved'[t] = NoAccount
  BY DEF ApprovalFromOwner, NoEarlyApproval, Live
<1> DEFINE Goal == /\ owners'[t] # NoAccount /\ approved'[t] # NoAccount
                          => approvedBy'[t] = owners'[t]
                   /\ t \notin minted' => approved'[t] = NoAccount
<1>0. /\ TypeOK
      /\ owners[t] # NoAccount => t \in minted
      /\ t \notin minted => approved[t] = NoAccount
      /\ owners[t] # NoAccount /\ approved[t] # NoAccount => approvedBy[t] = owners[t]
  BY DEF FreshTypeOK, ApprovalFromOwner, NoEarlyApproval, Live
<1>1. ASSUME NEW c \in Accounts, NEW r \in Accounts, NEW u \in TokenIds, FreshMint(c, r, u)
      PROVE  Goal
  BY <1>0, <1>1 DEF FreshMint, Mint, TypeOK
<1>2. ASSUME NEW c \in Accounts, NEW from \in Accounts, NEW to \in Accounts,
             NEW u \in TokenIds, Transfer(c, from, to, u), UNCHANGED minted
      PROVE  Goal
  BY <1>0, <1>2 DEF Transfer, Spent, TypeOK
<1>3. ASSUME NEW c \in Accounts, NEW s \in Accounts, NEW u \in TokenIds,
             Approve(c, s, u), UNCHANGED minted
      PROVE  Goal
  <2>1. CASE u = t
    <3>1. approvedBy'[t] = c /\ owners'[t] = c /\ owners[t] = c
      BY <1>0, <1>3, <2>1 DEF Approve, TypeOK
    <3>2. t \in minted'
      BY <1>0, <1>3, <3>1, NoAccountAssumption
    <3> QED
      BY <3>1, <3>2
  <2>2. CASE u # t
    BY <1>0, <1>3, <2>2 DEF Approve, TypeOK
  <2> QED
    BY <2>1, <2>2
<1>4. ASSUME NEW c \in Accounts, NEW u \in TokenIds, Burn(c, u), UNCHANGED minted
      PROVE  Goal
  BY <1>0, <1>4 DEF Burn, TypeOK
<1>5. ASSUME UNCHANGED <<owners, approved, approvedBy, minted>>
      PROVE  Goal
  BY <1>0, <1>5
<1> QED
  BY <1>1, <1>2, <1>3, <1>4, <1>5
     DEF FreshNext, NextNoMint, SetMetadata, SetKyc, fvars, vars

-----------------------------------------------------------------------------
\* The inductive invariant holds when the contract is installed,
LEMMA FreshInitInv == FreshInit => FreshInv
<1> SUFFICES ASSUME FreshInit PROVE FreshInv
  OBVIOUS
<1>1. TypeOK /\ Live = {} /\ minted = {}
  BY DEF FreshInit, Init, TypeOK, Live
<1>2. \A a \in Accounts : Owned(a) = {}
  BY NoAccountAssumption DEF FreshInit, Init, Owned
<1>3. Cardinality(Live) = 0 /\ \A a \in Accounts : Cardinality(Owned(a)) = 0
  BY <1>1, <1>2, FS_EmptySet
<1>4. BalanceIsTokenCount /\ SupplyIsTokenCount
  BY <1>3 DEF FreshInit, Init, BalanceIsTokenCount, SupplyIsTokenCount
<1>5. ApprovalFromOwner /\ NoEarlyApproval
  BY <1>1 DEF FreshInit, Init, ApprovalFromOwner, NoEarlyApproval
<1> QED
  BY <1>1, <1>4, <1>5 DEF FreshInv, FreshTypeOK

\* every call keeps it,
LEMMA FreshInvStep == FreshInv /\ [FreshNext]_fvars => FreshInv'
BY FreshTypeStep, FreshBalanceStep, FreshSupplyStep, FreshApprovalStep DEF FreshInv

\* and so it always holds.
LEMMA FreshInvariant == FreshSpec => []FreshInv
BY FreshInitInv, FreshInvStep, PTL DEF FreshSpec

\* The cells keep their types, and only minted ids are live.
THEOREM FreshTypeCorrect == FreshSpec => []FreshTypeOK
<1>1. FreshInv => FreshTypeOK
  BY DEF FreshInv
<1> QED
  BY <1>1, FreshInvariant, PTL

\* balance_of is the number of tokens an account owns.
THEOREM FreshBalancesExact == FreshSpec => []BalanceIsTokenCount
<1>1. FreshInv => BalanceIsTokenCount
  BY DEF FreshInv
<1> QED
  BY <1>1, FreshInvariant, PTL

\* total_supply is the number of live tokens.
THEOREM FreshSupplyExact == FreshSpec => []SupplyIsTokenCount
<1>1. FreshInv => SupplyIsTokenCount
  BY DEF FreshInv
<1> QED
  BY <1>1, FreshInvariant, PTL

\* An approval in force on a live token was given by the account that owns it.
THEOREM FreshApprovals == FreshSpec => []ApprovalFromOwner
<1>1. FreshInv => ApprovalFromOwner
  BY DEF FreshInv
<1> QED
  BY <1>1, FreshInvariant, PTL
-----------------------------------------------------------------------------
(***************************************************************************)
(* The refinement: what the two counters hold is what the ledger computes  *)
(* from the owners, before and after every step.                           *)
(***************************************************************************)
\* INSTANCE renames the Cardinality of the ledger; it is the same operator.
LEMMA LedgerCardinality == \A S : Ledger!Cardinality(S) = Cardinality(S)
BY DEF Ledger!Cardinality, Cardinality, Ledger!IsFiniteSet, IsFiniteSet

\* Under the invariant the contract's counts are those of the ledger.
LEMMA CountsAreLedgers ==
    ASSUME NEW o, NEW bal \in [Accounts -> Nat], NEW n,
           \A a \in Accounts : bal[a] = Cardinality({t \in TokenIds : o[t] = a}),
           n = Cardinality({t \in TokenIds : o[t] # NoAccount})
    PROVE  /\ bal = Ledger!CountsOf(o)
           /\ n = Ledger!SupplyOf(o)
BY LedgerCardinality DEF Ledger!CountsOf, Ledger!SupplyOf

\* Every call is a step of the ledger, or leaves the ledger as it was.
LEMMA FreshStepIsLedgerStep ==
    FreshInv /\ FreshInv' /\ [FreshNext]_fvars => [Ledger!Next]_(Ledger!lvars)
<1> SUFFICES ASSUME FreshInv, FreshInv', [FreshNext]_fvars
             PROVE  [Ledger!Next]_(Ledger!lvars)
  OBVIOUS
<1>1. Ledger!Reckon
  <2>1. /\ balances' \in [Accounts -> Nat]
        /\ \A a \in Accounts : balances'[a] = Cardinality({t \in TokenIds : owners'[t] = a})
        /\ totalSupply' = Cardinality({t \in TokenIds : owners'[t] # NoAccount})
    BY DEF FreshInv, FreshTypeOK, TypeOK, BalanceIsTokenCount, Owned, SupplyIsTokenCount, Live
  <2>2. balances' = Ledger!CountsOf(owners') /\ totalSupply' = Ledger!SupplyOf(owners')
    BY <2>1, CountsAreLedgers
  <2> QED
    BY <2>2 DEF Ledger!Reckon
<1>3. CASE \E c, r \in Accounts, t \in TokenIds : FreshMint(c, r, t)
  <2>1. PICK c \in Accounts, r \in Accounts, t \in TokenIds : FreshMint(c, r, t)
    BY <1>3
  <2>2. owners[t] = NoAccount
    BY <2>1 DEF FreshMint, FreshInv, FreshTypeOK, Live
  <2>3. Ledger!Issue(t, r)
    BY <1>1, <2>1, <2>2 DEF FreshMint, Mint, HasRoom, Ledger!Issue
  <2> QED
    BY <2>3 DEF Ledger!Next
<1>4. CASE \E c, from, to \in Accounts, t \in TokenIds : Transfer(c, from, to, t)
  <2>1. PICK c \in Accounts, from \in Accounts, to \in Accounts, t \in TokenIds :
            Transfer(c, from, to, t)
    BY <1>4
  <2>2. Ledger!Move(t, to)
    BY <1>1, <2>1, NoAccountAssumption DEF Transfer, Ledger!Move
  <2> QED
    BY <2>2 DEF Ledger!Next
<1>5. CASE \E c \in Accounts, t \in TokenIds : Burn(c, t)
  <2>1. PICK c \in Accounts, t \in TokenIds : Burn(c, t)
    BY <1>5
  <2>2. Ledger!Retire(t)
    BY <1>1, <2>1 DEF Burn, Live, Ledger!Retire
  <2> QED
    BY <2>2 DEF Ledger!Next
<1>6. CASE owners' = owners
  <2>1. /\ balances' \in [Accounts -> Nat] /\ balances \in [Accounts -> Nat]
        /\ \A a \in Accounts : balances'[a] = balances[a]
        /\ totalSupply' = totalSupply
    BY <1>6 DEF FreshInv, FreshTypeOK, TypeOK, BalanceIsTokenCount, Owned,
                SupplyIsTokenCount, Live
  <2> QED
    BY <1>6, <2>1 DEF Ledger!lvars
<1> QED
  BY <1>3, <1>4, <1>5, <1>6
     DEF FreshNext, NextNoMint, Approve, SetMetadata, SetKyc, fvars, vars

\* With ids never reused, the contract implements the ledger its entry points
\* promise: every call is an issue, a move, a retirement, or invisible.
THEOREM FreshImplementsLedger == FreshSpec => ImplementsLedger
<1>1. FreshInit => Ledger!Init
  <2> SUFFICES ASSUME FreshInit PROVE Ledger!Init
    OBVIOUS
  <2>1. FreshInv
    BY FreshInitInv
  <2>2. /\ balances \in [Accounts -> Nat]
        /\ \A a \in Accounts : balances[a] = Cardinality({t \in TokenIds : owners[t] = a})
        /\ totalSupply = Cardinality({t \in TokenIds : owners[t] # NoAccount})
    BY <2>1 DEF FreshInv, FreshTypeOK, TypeOK, BalanceIsTokenCount, Owned,
                SupplyIsTokenCount, Live
  <2>3. balances = Ledger!CountsOf(owners) /\ totalSupply = Ledger!SupplyOf(owners)
    BY <2>2, CountsAreLedgers
  <2> QED
    BY <2>3 DEF FreshInit, Init, Ledger!Init
<1> QED
  BY <1>1, FreshInvariant, FreshStepIsLedgerStep, PTL
     DEF FreshSpec, ImplementsLedger, Ledger!Spec
=============================================================================
