---------------------------- MODULE RwaNftFresh -----------------------------
(***************************************************************************)
(* The RWA-NFT contract as the mint dialogue of the application means to   *)
(* use it: handleMint (app/chat/page.tsx:309) takes the clock in seconds   *)
(* as the token id, so that no id is minted a second time.  The contract   *)
(* does not enforce this, and two mints in one second or the re-mint       *)
(* button break it; this module shows what the contract guarantees while   *)
(* it holds.                                                               *)
(***************************************************************************)
EXTENDS RwaNft

VARIABLE minted         \* every id a mint has used so far

fvars == <<vars, minted>>

FreshInit == Init /\ minted = {}

\* (Slips that the properties must notice: an id used again, and one not
\* noted as used.)
MintAnyId(caller, recipient, t) ==
    /\ Mint(caller, recipient, t)
    /\ minted' = minted \cup {t}

FreshMint(caller, recipient, t) ==
    /\ t \notin minted
    /\ Mint(caller, recipient, t)
    /\ minted' = minted \cup {t}

FreshNext ==
    \/ \E c, r \in Accounts, t \in TokenIds : FreshMint(c, r, t)
    \/ NextNoMint /\ UNCHANGED minted

FreshSpec == FreshInit /\ [][FreshNext]_fvars

-----------------------------------------------------------------------------
\* The types, and that only minted ids are live.
FreshTypeOK ==
    /\ TypeOK
    /\ minted \subseteq TokenIds
    /\ Live \subseteq minted

\* total_supply counts the live tokens, no more and no less.
SupplyIsTokenCount == totalSupply = Cardinality(Live)

Ledger == INSTANCE TokenLedger
              WITH owner <- owners, count <- balances, supply <- totalSupply

\* With ids never reused the contract implements the ledger it promises.
ImplementsLedger == Ledger!Spec
=============================================================================
