---------------------------- MODULE PagesProofs ----------------------------
(***************************************************************************)
(* The dialogue of Wizard, for any number of wallets, documents, handlers, *)
(* payments and mints; the offer form, the settings page and the key of    *)
(* the wallet context come after it.                                       *)
(*                                                                         *)
(* None of its properties is inductive, and they need each other: what a   *)
(* handler will write is what it saw when it was called, so the invariant  *)
(* relates the rendering of every handler in flight to the page of now,    *)
(* says which handlers exclude each other (by the buttons they disable),   *)
(* what the draft has in common with the page, and, until a disturbance is *)
(* recorded, which documents and mints are accounted for.                  *)
(***************************************************************************)
EXTENDS Pages, SequenceTheorems, TLAPS

\* A handler in flight, and a token of the chain.
Handler == [kind : {"idle", "send", "upload", "kyc", "mint"},
            pc : {"", "pay", "extract", "ipfs", "sign", "post", "kyc", "wait",
                  "whitelisted", "answer"},
            who : Wallets \cup {None}, file : Docs \cup {None}, snap : Saved,
            heard : BOOLEAN, mint : Nat]
Token == [to : Wallets, meta : 1..MaxPayments, cid : Docs \cup {None},
          fate : {"pending", "live", "refused"}]

\* The types of the state.
TypesOK ==
    /\ page \in [saved : Saved, loading : BOOLEAN, signing : BOOLEAN]
    /\ draft \in Saved \cup {None}
    /\ wallet \in Wallets \cup {None}
    /\ op \in [Ops -> Handler]
    /\ paid \in 0..MaxPayments /\ extracted \in 0..paid
    /\ sent \subseteq Wallets /\ listed \subseteq Wallets
    /\ minted \in Seq(Token)
    /\ kept \subseteq [mint : Nat, doc : Docs \cup {None}]

Early == {"describe", "review"}

\* Where the page is while a handler runs, and what the handler will write.
HandlerOK(o) ==
    /\ op[o].kind = "send" =>
          /\ Step \in Early /\ page.loading /\ ~op[o].snap.kyc
          /\ op[o].pc = "extract" => extracted < paid
    /\ op[o].kind = "upload" =>
          /\ Step \notin Early
          /\ op[o].snap.step = "document" /\ ~op[o].snap.kyc
          /\ op[o].snap.meta = page.saved.meta /\ op[o].file \in Docs
    /\ op[o].kind = "kyc" =>
          /\ Step = "kyc" /\ page.signing
          /\ op[o].snap.step = "kyc" /\ ~op[o].snap.kyc
          /\ op[o].snap.meta = page.saved.meta /\ op[o].who \in Wallets
    /\ op[o].kind = "mint" =>
          /\ op[o].who \in Wallets /\ op[o].snap.meta \in 1..extracted
          /\ op[o].heard => Step \in {"mint", "done"} /\ op[o].snap.meta = page.saved.meta

\* A description and an attestation have the page for themselves.
OneAtATime ==
    \A o, p \in Ops : op[o].kind \in {"send", "kyc"} /\ op[o].kind = op[p].kind => o = p

PageOK ==
    /\ page.saved.meta <= extracted
    /\ Step # "describe" => page.saved.meta # 0
    /\ page.saved.kyc => Step \in {"kyc", "mint", "done"}
    /\ Step \in {"review", "document", "kyc", "mint"} => draft # None

DraftOK ==
    draft # None =>
        /\ draft.meta = page.saved.meta /\ draft.meta # 0
        /\ draft.step \in {"review", "document", "kyc", "mint"}
        /\ draft.kyc => draft.step = "kyc"

\* The hash and the link of every state of the dialogue are of one document.
Paired(saved) == saved.cid \in {None, saved.doc}

AnchorsOK ==
    "rechosen" \in seen \/
    /\ Paired(page.saved)
    /\ draft # None => Paired(draft)
    /\ \A o \in Ops : /\ Paired(op[o].snap)
                      /\ op[o].kind = "upload" => page.saved.doc = op[o].file

\* As long as the page waits for its mint, what is minted is spent.
MintsOK ==
    "freed" \in seen \/
    /\ \A o \in Ops : op[o].kind = "mint" => op[o].heard /\ page.loading /\ Step = "mint"
    /\ \A o, p \in Ops : op[o].kind = "mint" /\ op[p].kind = "mint" => o = p
    /\ Step = "done" => draft = None
    /\ \A i \in DOMAIN minted : minted[i].meta = page.saved.meta =>
           Step = "done" \/ \E o \in Ops : op[o].kind = "mint" /\ op[o].pc = "answer"
    /\ \A i, j \in DOMAIN minted : i # j => minted[i].meta # minted[j].meta

TokensOK == \A i \in DOMAIN minted : minted[i].meta \in 1..extracted

\* What a mint answers, what is stored of it, and what it relies on: until a
\* revocation comes in between, a mint finds its recipient whitelisted.
ChainOK ==
    /\ \A o \in Ops : At(o, "mint", "answer") =>
           op[o].mint \in DOMAIN minted /\ minted[op[o].mint].cid = op[o].snap.cid
    /\ \A k \in kept : k.mint \in DOMAIN minted
    /\ AnchoredTogether
    /\ \/ "revoked" \in seen
       \/ /\ \A o \in Ops : At(o, "mint", "whitelisted") => op[o].who \in listed
          /\ \A i \in DOMAIN minted :
                 minted[i].fate # "refused" /\ (minted[i].fate = "pending" => minted[i].to \in listed)

WizardInv ==
    /\ TypesOK
    /\ \A o \in Ops : HandlerOK(o)
    /\ OneAtATime /\ PageOK /\ DraftOK /\ TokensOK
    /\ AnchorsOK /\ NotStuckAtKyc /\ MintsOK

-----------------------------------------------------------------------------
\* The steps of the dialogue, as a set.
LEMMA StepNamesAre ==
    StepNames = {"describe", "review", "document", "kyc", "mint", "done"}
BY DEF StepNames, Steps

\* The state of the dialogue is five fields.
LEMMA SavedType ==
    ASSUME NEW s \in Saved
    PROVE  /\ s.step \in {"describe", "review", "document", "kyc", "mint", "done"}
           /\ s.meta \in 0..MaxPayments /\ s.doc \in Docs \cup {None}
           /\ s.cid \in Docs \cup {None} /\ s.kyc \in BOOLEAN /\ s # None
BY StepNamesAre, NoneAssumption DEF Saved

\* The empty dialogue and a handler that is not running.
LEMMA IdleType == /\ Fresh \in Saved /\ Idle \in Handler
                  /\ Idle.kind = "idle" /\ Idle.snap = Fresh
                  /\ Fresh.step = "describe" /\ Fresh.meta = 0 /\ Fresh.doc = None
                  /\ Fresh.cid = None /\ ~Fresh.kyc
BY StepNamesAre, BoundsAssumption DEF Fresh, Idle, Saved, Handler

\* The types as they are used below.
LEMMA Typed ==
    ASSUME WizardInv
    PROVE  /\ page \in [saved : Saved, loading : BOOLEAN, signing : BOOLEAN]
           /\ page.saved \in Saved /\ draft \in Saved \cup {None}
           /\ op \in [Ops -> Handler] /\ \A o \in Ops : op[o] \in Handler /\ op[o].snap \in Saved
           /\ extracted \in Nat /\ paid \in Nat /\ extracted <= paid /\ paid <= MaxPayments
           /\ MaxPayments \in Nat
<1>1. /\ page \in [saved : Saved, loading : BOOLEAN, signing : BOOLEAN]
      /\ draft \in Saved \cup {None} /\ op \in [Ops -> Handler]
      /\ paid \in 0..MaxPayments /\ extracted \in 0..paid
  BY DEF WizardInv, TypesOK
<1>2. page.saved \in Saved /\ \A o \in Ops : op[o] \in Handler
  BY <1>1
<1>3. \A o \in Ops : op[o].snap \in Saved
  BY <1>2 DEF Handler
<1>4. /\ extracted \in Nat /\ paid \in Nat /\ extracted <= paid /\ paid <= MaxPayments
      /\ MaxPayments \in Nat
  BY <1>1, BoundsAssumption
<1> QED BY <1>1, <1>2, <1>3, <1>4

\* A step of one handler, or of none, that leaves the dialogue and its draft.
LEMMA HandlerStep ==
    ASSUME WizardInv, TypesOK', NEW o \in Ops, HandlerOK(o)',
           \A p \in Ops \ {o} : op'[p] = op[p],
           page'.saved = page.saved, draft' = draft,
           extracted' = extracted, paid <= paid', minted' = minted,
           seen \subseteq seen',
           \A p \in Ops \ {o} : /\ op[p].kind = "send" => page'.loading
                                /\ op[p].kind = "kyc" => page'.signing
                                /\ op[p].kind = "mint" /\ "freed" \notin seen' => page'.loading
                                /\ op'[o].kind \in {"send", "kyc"} => op[p].kind # op'[o].kind
                                /\ op'[o].kind = "mint" /\ "freed" \notin seen' => op[p].kind # "mint",
           op'[o].snap \in {op[o].snap, page.saved, Fresh},
           op'[o].kind = "upload" => op[o].kind = "upload" /\ op'[o].file = op[o].file,
           op[o].kind = "kyc" => \/ op'[o].kind = "kyc" \/ "kycLost" \in seen'
                                 \/ ~page.saved.kyc,
           op'[o].kind = "mint" /\ "freed" \notin seen' =>
               op'[o].heard /\ page'.loading /\ Step = "mint",
           op[o].kind = "mint" /\ op[o].pc = "answer" /\ "freed" \notin seen' =>
               op'[o].kind = "mint" /\ op'[o].pc = "answer"
    PROVE  WizardInv'
<1>1. \A p \in Ops \ {o} : HandlerOK(p)'
  <2> TAKE p \in Ops \ {o}
  <2>1. op'[p] = op[p] /\ HandlerOK(p)
    BY DEF WizardInv
  <2>2. extracted \in Nat /\ paid \in Nat /\ paid' \in Nat
    BY Typed, BoundsAssumption DEF TypesOK
  <2> QED BY <2>1, <2>2 DEF HandlerOK, Step
<1>2. OneAtATime' /\ PageOK' /\ DraftOK' /\ TokensOK'
  <2>1. OneAtATime'
    BY DEF WizardInv, OneAtATime
  <2>2. PageOK' /\ DraftOK' /\ TokensOK'
    BY DEF WizardInv, PageOK, DraftOK, TokensOK, Step
  <2> QED BY <2>1, <2>2
<1>3. AnchorsOK'
  <2> SUFFICES ASSUME "rechosen" \notin seen' PROVE AnchorsOK'
    BY DEF AnchorsOK
  <2>1. /\ Paired(page.saved)
        /\ draft # None => Paired(draft)
        /\ \A p \in Ops : /\ Paired(op[p].snap)
                          /\ op[p].kind = "upload" => page.saved.doc = op[p].file
    BY DEF WizardInv, AnchorsOK
  <2>2. \A p \in Ops : Paired(op'[p].snap)
    <3>1. Paired(Fresh)
      BY IdleType DEF Paired
    <3> QED BY <2>1, <3>1
  <2>3. \A p \in Ops : op'[p].kind = "upload" => page'.saved.doc = op'[p].file
    BY <2>1
  <2> QED BY <2>1, <2>2, <2>3 DEF AnchorsOK, Paired
<1>4. NotStuckAtKyc'
  <2> SUFFICES ASSUME Step = "kyc", page.saved.kyc, "kycLost" \notin seen'
               PROVE  \E p \in Ops : op'[p].kind = "kyc"
    BY DEF NotStuckAtKyc, Step
  <2>1. PICK p \in Ops : op[p].kind = "kyc"
    BY DEF WizardInv, NotStuckAtKyc
  <2> QED BY <2>1
<1>5. MintsOK'
  <2> SUFFICES ASSUME "freed" \notin seen' PROVE MintsOK'
    BY DEF MintsOK
  <2>1. /\ \A p \in Ops : op[p].kind = "mint" => op[p].heard /\ page.loading /\ Step = "mint"
        /\ \A p, q \in Ops : op[p].kind = "mint" /\ op[q].kind = "mint" => p = q
        /\ Step = "done" => draft = None
        /\ \A i \in DOMAIN minted : minted[i].meta = page.saved.meta =>
               Step = "done" \/ \E p \in Ops : op[p].kind = "mint" /\ op[p].pc = "answer"
        /\ \A i, j \in DOMAIN minted : i # j => minted[i].meta # minted[j].meta
    BY DEF WizardInv, MintsOK
  <2>2. \A p \in Ops : op'[p].kind = "mint" => op'[p].heard /\ page'.loading /\ Step' = "mint"
    BY <2>1 DEF Step
  <2>3. \A p, q \in Ops : op'[p].kind = "mint" /\ op'[q].kind = "mint" => p = q
    <3> SUFFICES ASSUME NEW p \in Ops, NEW q \in Ops \ {p},
                        op'[p].kind = "mint", op'[q].kind = "mint"
                 PROVE  FALSE
      OBVIOUS
    <3>1. CASE p = o
      BY <3>1
    <3>2. CASE q = o
      BY <3>2
    <3>3. CASE p # o /\ q # o
      BY <2>1, <3>3
    <3> QED BY <3>1, <3>2, <3>3
  <2>4. \A i \in DOMAIN minted : minted[i].meta = page.saved.meta =>
            Step = "done" \/ \E p \in Ops : op'[p].kind = "mint" /\ op'[p].pc = "answer"
    <3> SUFFICES ASSUME NEW i \in DOMAIN minted, minted[i].meta = page.saved.meta, Step # "done"
                 PROVE  \E p \in Ops : op'[p].kind = "mint" /\ op'[p].pc = "answer"
      OBVIOUS
    <3>1. PICK p \in Ops : op[p].kind = "mint" /\ op[p].pc = "answer"
      BY <2>1
    <3> QED BY <3>1
  <2> QED BY <2>1, <2>2, <2>3, <2>4 DEF MintsOK, Step
<1> QED BY <1>1, <1>2, <1>3, <1>4, <1>5 DEF WizardInv

\* A step beside the dialogue: of the wallet, the chain, or the reset button.
LEMMA OutsideStep ==
    ASSUME WizardInv, TypesOK', op' = op, page'.saved = page.saved, draft' = draft,
           page'.signing = page.signing, UNCHANGED <<paid, extracted>>, seen \subseteq seen',
           DOMAIN minted' = DOMAIN minted,
           \A i \in DOMAIN minted : minted'[i].meta = minted[i].meta,
           \/ page'.loading = page.loading
           \/ /\ Step = "mint"
              /\ (\E p \in Ops : op[p].kind = "mint" /\ op[p].heard) => "freed" \in seen'
    PROVE  WizardInv'
<1>1. \A p \in Ops : HandlerOK(p)'
  <2> TAKE p \in Ops
  <2>1. HandlerOK(p)
    BY DEF WizardInv
  <2>2. op[p].kind = "send" => page'.loading
    BY <2>1 DEF HandlerOK, Early
  <2> QED BY <2>1, <2>2 DEF HandlerOK, Step
<1>2. OneAtATime' /\ PageOK' /\ DraftOK' /\ TokensOK' /\ NotStuckAtKyc'
  BY DEF WizardInv, OneAtATime, PageOK, DraftOK, TokensOK, NotStuckAtKyc, Step
<1>3. AnchorsOK'
  BY DEF WizardInv, AnchorsOK, Paired
<1>4. MintsOK'
  <2> SUFFICES ASSUME "freed" \notin seen' PROVE MintsOK'
    BY DEF MintsOK
  <2>1. \A p \in Ops : op[p].kind = "mint" => op[p].heard /\ page.loading /\ Step = "mint"
    BY DEF WizardInv, MintsOK
  <2>2. \A p \in Ops : op[p].kind = "mint" => page'.loading
    BY <2>1
  <2> QED BY <2>1, <2>2 DEF WizardInv, MintsOK, Step
<1> QED BY <1>1, <1>2, <1>3, <1>4 DEF WizardInv

\* The metadata of a description arrive: page and draft change together.
LEMMA ExtractKeeps ==
    ASSUME WizardInv, NEW o \in Ops, Extract(o)
    PROVE  WizardInv'
<1>1. /\ op[o].kind = "send" /\ op[o].pc = "extract" /\ op[o] \in Handler
      /\ op[o].snap \in Saved /\ ~op[o].snap.kyc /\ page.saved \in Saved
      /\ Step \in Early /\ extracted < paid /\ extracted \in Nat /\ paid \in Nat
      /\ extracted + 1 \in 0..MaxPayments
      /\ page \in [saved : Saved, loading : BOOLEAN, signing : BOOLEAN]
  <2>1. HandlerOK(o)
    BY DEF WizardInv
  <2> QED BY <2>1, Typed DEF Extract, At, HandlerOK
<1>2. /\ op'[o] = Idle /\ \A p \in Ops \ {o} : op'[p] = op[p]
      /\ op' \in [Ops -> Handler]
  BY IdleType DEF Extract, Ends, WizardInv, TypesOK
<1> DEFINE s == [page.saved EXCEPT !.meta = extracted + 1, !.step = "review"]
           d == [op[o].snap EXCEPT !.meta = extracted + 1, !.step = "review"]
<1>3. /\ s \in Saved /\ s.step = "review" /\ s.meta = extracted + 1 /\ s.doc = page.saved.doc
      /\ s.cid = page.saved.cid /\ s.kyc = page.saved.kyc
  BY <1>1, StepNamesAre DEF Saved
<1>4. /\ d \in Saved /\ d.step = "review" /\ d.meta = extracted + 1 /\ d.doc = op[o].snap.doc
      /\ d.cid = op[o].snap.cid /\ ~d.kyc
  BY <1>1, StepNamesAre DEF Saved
<1>5. /\ page' = [page EXCEPT !.saved = s, !.loading = FALSE] /\ draft' = d
      /\ extracted' = extracted + 1 /\ seen \subseteq seen'
      /\ UNCHANGED <<wallet, paid, sent, listed, minted, kept>>
  BY DEF Extract, Freed, Reviewed, Marks
<1> HIDE DEF s, d
<1>6. /\ page'.saved = s /\ page'.loading = FALSE /\ page'.signing = page.signing
      /\ page' \in [saved : Saved, loading : BOOLEAN, signing : BOOLEAN]
  BY <1>1, <1>3, <1>5
<1>7. TypesOK'
  BY <1>1, <1>2, <1>4, <1>5, <1>6 DEF WizardInv, TypesOK
<1>8. \A p \in Ops : op'[p].kind \in {"idle", "mint"} /\ (op'[p].kind = "mint" => ~op'[p].heard)
  <2> TAKE p \in Ops
  <2>1. CASE p = o
    BY <1>2, <2>1, IdleType
  <2>2. CASE p # o
    <3>1. op'[p] = op[p] /\ op[p] \in Handler /\ HandlerOK(p) /\ op[p].kind # "send"
      BY <1>1, <1>2, <2>2 DEF WizardInv, TypesOK, OneAtATime
    <3> QED BY <1>1, <3>1 DEF HandlerOK, Handler, Early
  <2> QED BY <2>1, <2>2
<1>9. \A p \in Ops : HandlerOK(p)'
  <2> TAKE p \in Ops
  <2>1. op'[p].kind = "mint" => op'[p] = op[p] /\ HandlerOK(p)
    BY <1>2, IdleType DEF WizardInv
  <2> QED BY <1>1, <1>5, <1>8, <2>1 DEF HandlerOK
<1>10. OneAtATime' /\ PageOK' /\ DraftOK'
  BY <1>1, <1>3, <1>4, <1>5, <1>6, <1>8, SavedType DEF OneAtATime, PageOK, DraftOK, Step, Early, WizardInv
<1>11. TokensOK'
  BY <1>1, <1>5 DEF WizardInv, TokensOK
<1>12. AnchorsOK'
  <2> SUFFICES ASSUME "rechosen" \notin seen' PROVE AnchorsOK'
    BY DEF AnchorsOK
  <2>1. "rechosen" \notin seen
    BY <1>5
  <2>2. \A p \in Ops : Paired(op'[p].snap)
    BY <1>2, <2>1, IdleType DEF WizardInv, AnchorsOK, Paired
  <2> QED BY <1>1, <1>3, <1>4, <1>5, <1>6, <1>8, <2>1, <2>2 DEF WizardInv, AnchorsOK, Paired
<1>13. NotStuckAtKyc'
  BY <1>3, <1>6 DEF NotStuckAtKyc, Step
<1>14. MintsOK'
  <2> SUFFICES ASSUME "freed" \notin seen' PROVE MintsOK'
    BY DEF MintsOK
  <2>1. "freed" \notin seen
    BY <1>5
  <2>2. \A p \in Ops : op'[p].kind # "mint"
    BY <1>2, <1>8, <2>1, IdleType DEF WizardInv, MintsOK
  <2>3. \A i \in DOMAIN minted : minted[i].meta <= extracted
    BY DEF WizardInv, TokensOK
  <2> QED BY <1>1, <1>3, <1>4, <1>5, <1>6, <2>1, <2>2, <2>3 DEF WizardInv, MintsOK, Step
<1> QED BY <1>7, <1>9, <1>10, <1>11, <1>12, <1>13, <1>14 DEF WizardInv

\* The end of a handler, while the page waits for a mint of another one.
LEMMA Marked ==
    ASSUME WizardInv, NEW o \in Ops, NEW more, Marks(o, more)
    PROVE  /\ seen \subseteq seen' /\ more \subseteq seen'
           /\ "freed" \notin seen' => \A p \in Ops \ {o} : op[p].kind # "mint"
<1>1. seen \subseteq seen' /\ more \subseteq seen'
  BY DEF Marks
<1>2. Minting(Ops \ {o}) => "freed" \in seen'
  BY DEF Marks, When
<1>3. ASSUME "freed" \notin seen', NEW p \in Ops \ {o}, op[p].kind = "mint" PROVE FALSE
  <2>1. ~op[p].heard
    BY <1>2, <1>3 DEF Minting
  <2>2. op[p].heard
    BY <1>1, <1>3 DEF WizardInv, MintsOK
  <2> QED BY <2>1, <2>2
<1> QED BY <1>1, <1>3

\* The record of a handler that starts.
LEMMA Started ==
    ASSUME WizardInv, NEW o \in Ops, NEW kind \in {"send", "upload", "kyc", "mint"},
           NEW pc \in {"pay", "ipfs", "sign", "kyc"}, NEW file \in Docs \cup {None},
           Starts(o, kind, pc, file)
    PROVE  /\ op[o].kind = "idle"
           /\ op'[o].kind = kind /\ op'[o].pc = pc /\ op'[o].who = wallet /\ op'[o].file = file
           /\ op'[o].snap = page.saved /\ op'[o].heard
           /\ \A p \in Ops \ {o} : op'[p] = op[p]
           /\ op' \in [Ops -> Handler]
<1>1. wallet \in Wallets \cup {None} /\ page.saved \in Saved /\ op \in [Ops -> Handler]
  BY Typed DEF WizardInv, TypesOK
<1> DEFINE rec == [kind |-> kind, pc |-> pc, who |-> wallet, file |-> file,
                   snap |-> page.saved, heard |-> TRUE, mint |-> 0]
<1>2. rec \in Handler
  BY <1>1 DEF Handler
<1>3. /\ rec.kind = kind /\ rec.pc = pc /\ rec.who = wallet /\ rec.file = file
      /\ rec.snap = page.saved /\ rec.heard
  OBVIOUS
<1>4. op[o] = Idle /\ op' = [op EXCEPT ![o] = rec]
  BY DEF Starts
<1> HIDE DEF rec
<1> QED BY <1>1, <1>2, <1>3, <1>4, IdleType

\* The record of a handler that goes on, or ends.
LEMMA Continues ==
    ASSUME WizardInv, NEW o \in Ops, op[o].kind # "idle",
           NEW pc \in {"extract", "post", "wait", "whitelisted"}, Goes(o, pc)
    PROVE  /\ op'[o].kind = op[o].kind /\ op'[o].pc = pc /\ op'[o].who = op[o].who
           /\ op'[o].file = op[o].file /\ op'[o].snap = op[o].snap /\ op'[o].heard = op[o].heard
           /\ \A p \in Ops \ {o} : op'[p] = op[p]
           /\ op' \in [Ops -> Handler]
<1>1. op \in [Ops -> Handler] /\ op[o] \in Handler
  BY Typed
<1>2. op' = [op EXCEPT ![o] = [op[o] EXCEPT !.pc = pc]]
  BY <1>1 DEF Goes
<1> DEFINE rec == [op[o] EXCEPT !.pc = pc]
<1>3. /\ rec \in Handler /\ rec.kind = op[o].kind /\ rec.pc = pc /\ rec.who = op[o].who
      /\ rec.file = op[o].file /\ rec.snap = op[o].snap /\ rec.heard = op[o].heard
  BY <1>1 DEF Handler
<1> HIDE DEF rec
<1> QED BY <1>1, <1>2, <1>3 DEF rec

\* The record of a handler whose mint is submitted.
LEMMA Answering ==
    ASSUME WizardInv, NEW o \in Ops, SubmitMint(o)
    PROVE  /\ op'[o].kind = "mint" /\ op'[o].pc = "answer" /\ op'[o].who = op[o].who
           /\ op'[o].snap = op[o].snap /\ op'[o].heard = op[o].heard
           /\ op'[o].mint = Len(minted) + 1
           /\ \A p \in Ops \ {o} : op'[p] = op[p]
           /\ op' \in [Ops -> Handler]
<1>1. op \in [Ops -> Handler] /\ op[o] \in Handler /\ op[o].kind = "mint"
  BY Typed DEF SubmitMint, Confirmed, At
<1>2. Len(minted) + 1 \in Nat
  BY LenProperties DEF WizardInv, TypesOK
<1> DEFINE n == Len(minted) + 1
           rec == [op[o] EXCEPT !.pc = "answer", !.mint = n]
<1>3. op' = [op EXCEPT ![o] = rec]
  BY <1>1 DEF SubmitMint
<1> HIDE DEF n
<1>4. /\ rec \in Handler /\ rec.kind = op[o].kind /\ rec.pc = "answer" /\ rec.who = op[o].who
      /\ rec.snap = op[o].snap /\ rec.heard = op[o].heard /\ rec.mint = n
  BY <1>1, <1>2 DEF Handler, n
<1> HIDE DEF rec
<1> QED BY <1>1, <1>3, <1>4 DEF n

\* A handler is gone.
LEMMA Ended ==
    ASSUME WizardInv, NEW o \in Ops, Ends(o)
    PROVE  /\ op'[o] = Idle /\ op'[o].kind = "idle" /\ op'[o].snap = Fresh
           /\ \A p \in Ops \ {o} : op'[p] = op[p]
           /\ op' \in [Ops -> Handler]
BY Typed, IdleType DEF Ends

\* A handler starts: a description, an attestation or a mint.
LEMMA SendKeeps ==
    ASSUME WizardInv, NEW o \in Ops, wallet # None, Send(o)
    PROVE  WizardInv'
<1>1. /\ Step \in Early /\ ~page.loading /\ Starts(o, "send", "pay", None)
      /\ page' = [page EXCEPT !.loading = TRUE]
      /\ UNCHANGED <<draft, wallet, lasting, seen>>
  BY DEF Send, MayDescribe, Early
<1>2. /\ op[o].kind = "idle" /\ op'[o].kind = "send" /\ op'[o].pc = "pay"
      /\ op'[o].snap = page.saved /\ (\A p \in Ops \ {o} : op'[p] = op[p])
      /\ op' \in [Ops -> Handler]
  BY <1>1, Started
<1>3. /\ page'.saved = page.saved /\ page'.loading /\ page'.signing = page.signing
      /\ page' \in [saved : Saved, loading : BOOLEAN, signing : BOOLEAN]
  BY <1>1, Typed
<1>4. TypesOK'
  BY <1>1, <1>2, <1>3 DEF WizardInv, TypesOK, lasting
<1>5. ~page.saved.kyc
  BY <1>1 DEF WizardInv, PageOK, Early
<1>6. HandlerOK(o)'
  BY <1>1, <1>2, <1>3, <1>5 DEF HandlerOK, Step
<1>7. \A p \in Ops \ {o} : op[p].kind \notin {"send", "kyc"}
  BY <1>1 DEF WizardInv, HandlerOK, Early
<1>8. paid <= paid'
  BY <1>1, Typed DEF lasting
<1>9. UNCHANGED <<draft, extracted, listed, minted, seen>>
  BY <1>1 DEF lasting
<1> QED BY <1>2, <1>3, <1>4, <1>6, <1>7, <1>8, <1>9, HandlerStep

\* An attestation starts only when none is running.
LEMMA AttestKeeps ==
    ASSUME WizardInv, NEW o \in Ops, Attest(o)
    PROVE  WizardInv'
<1>1. /\ Step = "kyc" /\ ~page.saved.kyc /\ ~page.signing /\ wallet # None
      /\ Starts(o, "kyc", "sign", None)
      /\ page' = [page EXCEPT !.signing = TRUE]
      /\ UNCHANGED <<draft, wallet, lasting, seen>>
  BY DEF Attest, MayAttest
<1>2. /\ op[o].kind = "idle" /\ op'[o].kind = "kyc" /\ op'[o].who = wallet
      /\ op'[o].snap = page.saved /\ (\A p \in Ops \ {o} : op'[p] = op[p])
      /\ op' \in [Ops -> Handler]
  BY <1>1, Started
<1>3. /\ page'.saved = page.saved /\ page'.loading = page.loading /\ page'.signing
      /\ page' \in [saved : Saved, loading : BOOLEAN, signing : BOOLEAN]
  BY <1>1, Typed
<1>4. TypesOK'
  BY <1>1, <1>2, <1>3 DEF WizardInv, TypesOK, lasting
<1>5. HandlerOK(o)'
  BY <1>1, <1>2, <1>3 DEF HandlerOK, Step, WizardInv, TypesOK
<1>6. \A p \in Ops \ {o} : op[p].kind \notin {"send", "kyc"}
  BY <1>1 DEF WizardInv, HandlerOK, Early
<1>7. "freed" \notin seen' => \A p \in Ops : op[p].kind # "mint"
  BY <1>1 DEF WizardInv, MintsOK
<1>8. paid <= paid' /\ UNCHANGED <<draft, extracted, listed, minted, seen>>
  BY <1>1, Typed DEF lasting
<1> QED BY <1>2, <1>3, <1>4, <1>5, <1>6, <1>7, <1>8, HandlerStep

\* A mint starts with the metadata of the page, which are of an extraction.
LEMMA MintKeeps ==
    ASSUME WizardInv, NEW o \in Ops, Mint(o)
    PROVE  WizardInv'
<1>1. /\ Step = "mint" /\ ~page.loading /\ wallet # None /\ page.saved.meta # 0
      /\ Starts(o, "mint", "kyc", None)
      /\ page' = [page EXCEPT !.loading = TRUE]
      /\ UNCHANGED <<draft, wallet, lasting, seen>>
  BY DEF Mint, MayMint
<1>2. /\ op[o].kind = "idle" /\ op'[o].kind = "mint" /\ op'[o].who = wallet /\ op'[o].heard
      /\ op'[o].snap = page.saved /\ (\A p \in Ops \ {o} : op'[p] = op[p])
      /\ op' \in [Ops -> Handler]
  BY <1>1, Started
<1>3. /\ page'.saved = page.saved /\ page'.loading /\ page'.signing = page.signing
      /\ page' \in [saved : Saved, loading : BOOLEAN, signing : BOOLEAN]
  BY <1>1, Typed
<1>4. TypesOK'
  BY <1>1, <1>2, <1>3 DEF WizardInv, TypesOK, lasting
<1>5. page.saved.meta \in 1..extracted
  BY <1>1, Typed, SavedType DEF WizardInv, PageOK
<1>6. HandlerOK(o)'
  BY <1>1, <1>2, <1>3, <1>5 DEF HandlerOK, Step, WizardInv, TypesOK, lasting
<1>7. \A p \in Ops \ {o} : op[p].kind \notin {"send", "kyc"}
  BY <1>1 DEF WizardInv, HandlerOK, Early
<1>8. "freed" \notin seen' => \A p \in Ops : op[p].kind # "mint"
  BY <1>1 DEF WizardInv, MintsOK
<1>9. paid <= paid' /\ UNCHANGED <<draft, extracted, listed, minted, seen>>
  BY <1>1, Typed DEF lasting
<1> QED BY <1>1, <1>2, <1>3, <1>4, <1>6, <1>7, <1>8, <1>9, HandlerStep

\* A handler goes on: the payment, and the KYC transaction of the mint.
LEMMA PayKeeps ==
    ASSUME WizardInv, NEW o \in Ops, Pay(o)
    PROVE  WizardInv'
<1>1. /\ op[o].kind = "send" /\ op[o].pc = "pay" /\ Goes(o, "extract")
      /\ paid < MaxPayments /\ paid' = paid + 1
      /\ UNCHANGED <<page, draft, wallet, extracted, sent, listed, minted, kept, seen>>
  BY DEF Pay, At
<1>2. /\ op'[o].kind = "send" /\ op'[o].snap = op[o].snap
      /\ (\A p \in Ops \ {o} : op'[p] = op[p]) /\ op' \in [Ops -> Handler]
  BY <1>1, Continues
<1>3. /\ paid' \in 0..MaxPayments /\ extracted \in 0..paid' /\ extracted < paid' /\ paid <= paid'
  BY <1>1, Typed
<1>4. TypesOK'
  BY <1>1, <1>2, <1>3 DEF WizardInv, TypesOK
<1>5. HandlerOK(o)' /\ page.loading
  BY <1>1, <1>2, <1>3 DEF WizardInv, HandlerOK, Step
<1>6. \A p \in Ops \ {o} : op[p].kind \notin {"send", "kyc"}
  BY <1>1 DEF WizardInv, OneAtATime, HandlerOK, Early
<1> QED BY <1>1, <1>2, <1>3, <1>4, <1>5, <1>6, HandlerStep

\* The mint route submits the set_kyc of the recipient, and the chain executes it.
LEMMA KycOfMintKeeps ==
    ASSUME WizardInv, NEW o \in Ops, SubmitKyc(o) \/ ExecuteKyc(o)
    PROVE  WizardInv'
<1>1. PICK pc \in {"wait", "whitelisted"} :
          /\ op[o].kind = "mint" /\ op[o].pc \in {"kyc", "wait"} /\ Goes(o, pc)
          /\ listed' \in {listed, listed \cup {op[o].who}}
          /\ UNCHANGED <<page, draft, wallet, paid, extracted, sent, minted, kept, seen>>
  BY DEF SubmitKyc, ExecuteKyc, At, lasting
<1>2. /\ op'[o].kind = "mint" /\ op'[o].snap = op[o].snap /\ op'[o].who = op[o].who
      /\ op'[o].heard = op[o].heard
      /\ (\A p \in Ops \ {o} : op'[p] = op[p]) /\ op' \in [Ops -> Handler]
  BY <1>1, Continues
<1>3. HandlerOK(o)
  BY DEF WizardInv
<1>4. listed' \subseteq Wallets
  BY <1>1, <1>3 DEF HandlerOK, WizardInv, TypesOK
<1>5. TypesOK'
  BY <1>1, <1>2, <1>4 DEF WizardInv, TypesOK
<1>6. HandlerOK(o)'
  BY <1>1, <1>2, <1>3 DEF HandlerOK, Step
<1>7. \A p \in Ops : op[p].kind = "send" => page.loading
  BY DEF WizardInv, HandlerOK
<1>8. \A p \in Ops : op[p].kind = "kyc" => page.signing
  BY DEF WizardInv, HandlerOK
<1>9. "freed" \notin seen' => /\ \A p \in Ops \ {o} : op[p].kind # "mint"
                              /\ op[o].heard /\ page.loading /\ Step = "mint"
  BY <1>1 DEF WizardInv, MintsOK
<1>10. paid <= paid'
  BY <1>1, Typed
<1> QED BY <1>1, <1>2, <1>5, <1>6, <1>7, <1>8, <1>9, <1>10, HandlerStep

\* A handler ends and leaves the dialogue where it was.
LEMMA UploadFailsKeeps ==
    ASSUME WizardInv, NEW o \in Ops, UploadFails(o)
    PROVE  WizardInv'
<1>1. /\ op[o].kind = "upload" /\ page' = [page EXCEPT !.saved = page.saved, !.loading = FALSE]
      /\ Marks(o, {}) /\ Ends(o) /\ UNCHANGED <<draft, wallet, lasting>>
  BY DEF UploadFails, Freed
<1>2. /\ op'[o].kind = "idle" /\ op'[o].snap = Fresh
      /\ (\A p \in Ops \ {o} : op'[p] = op[p]) /\ op' \in [Ops -> Handler]
  BY <1>1, Ended
<1>3. /\ page'.saved = page.saved /\ page'.signing = page.signing
      /\ page' \in [saved : Saved, loading : BOOLEAN, signing : BOOLEAN]
  BY <1>1, Typed
<1>4. TypesOK'
  BY <1>1, <1>2, <1>3 DEF WizardInv, TypesOK, lasting
<1>5. HandlerOK(o)'
  BY <1>2 DEF HandlerOK
<1>6. \A p \in Ops : op[p].kind # "send"
  BY <1>1 DEF WizardInv, HandlerOK
<1>7. \A p \in Ops : op[p].kind = "kyc" => page'.signing
  BY <1>3 DEF WizardInv, HandlerOK
<1>8. seen \subseteq seen' /\ ("freed" \notin seen' => \A p \in Ops \ {o} : op[p].kind # "mint")
  BY <1>1, Marked
<1>9. paid <= paid' /\ UNCHANGED <<draft, extracted, listed, minted>>
  BY <1>1, Typed DEF lasting
<1> QED BY <1>1, <1>2, <1>3, <1>4, <1>5, <1>6, <1>7, <1>8, <1>9, HandlerStep

\* The attestation fails: the page may keep the signature without the request.
LEMMA AttestFailsKeeps ==
    ASSUME WizardInv, NEW o \in Ops, AttestFails(o)
    PROVE  WizardInv'
<1>1. /\ op[o].kind = "kyc" /\ page' = [page EXCEPT !.signing = FALSE]
      /\ seen' = seen \cup When(page.saved.kyc, "kycLost") /\ Ends(o)
      /\ UNCHANGED <<draft, wallet, paid, extracted, listed, minted, kept>>
  BY DEF AttestFails
<1>2. /\ op'[o].kind = "idle" /\ op'[o].snap = Fresh
      /\ (\A p \in Ops \ {o} : op'[p] = op[p]) /\ op' \in [Ops -> Handler]
  BY <1>1, Ended
<1>3. /\ page'.saved = page.saved /\ page'.loading = page.loading
      /\ page' \in [saved : Saved, loading : BOOLEAN, signing : BOOLEAN]
  BY <1>1, Typed
<1>4. HandlerOK(o)
  BY DEF WizardInv
<1>5. sent' \subseteq Wallets
  BY <1>1, <1>4 DEF AttestFails, Whitelisting, HandlerOK, WizardInv, TypesOK
<1>6. TypesOK'
  BY <1>1, <1>2, <1>3, <1>5 DEF WizardInv, TypesOK
<1>7. HandlerOK(o)'
  BY <1>2 DEF HandlerOK
<1>8. \A p \in Ops \ {o} : op[p].kind \notin {"send", "kyc"}
  BY <1>1, <1>4 DEF WizardInv, HandlerOK, Early, OneAtATime
<1>9. seen \subseteq seen' /\ ("kycLost" \in seen' \/ ~page.saved.kyc)
  BY <1>1 DEF When
<1>10. "freed" \notin seen' => \A p \in Ops : op[p].kind = "mint" => page.loading
  BY <1>9 DEF WizardInv, MintsOK
<1>11. paid <= paid'
  BY <1>1, Typed
<1> QED BY <1>1, <1>2, <1>3, <1>6, <1>7, <1>8, <1>9, <1>10, <1>11, HandlerStep

\* The mint fails, heard by the page or not.
LEMMA MintFailsKeeps ==
    ASSUME WizardInv, NEW o \in Ops, MintFails(o)
    PROVE  WizardInv'
<1>1. /\ op[o].kind = "mint" /\ op[o].pc # "answer" /\ Ends(o)
      /\ UNCHANGED <<draft, wallet, paid, extracted, listed, minted, kept>>
  BY DEF MintFails
<1>2. /\ op'[o].kind = "idle" /\ op'[o].snap = Fresh
      /\ (\A p \in Ops \ {o} : op'[p] = op[p]) /\ op' \in [Ops -> Handler]
  BY <1>1, Ended
<1>3. HandlerOK(o)'
  BY <1>2 DEF HandlerOK
<1>4. \A p \in Ops : HandlerOK(p)
  BY DEF WizardInv
<1>5. paid <= paid' /\ sent' \subseteq Wallets
  <2>1. op[o].who \in Wallets
    BY <1>1, <1>4 DEF HandlerOK
  <2> QED BY <1>1, <2>1, Typed DEF MintFails, WizardInv, TypesOK
<1>6. CASE op[o].heard
  <2>1. page' = [page EXCEPT !.saved = page.saved, !.loading = FALSE] /\ Marks(o, {})
    BY <1>6 DEF MintFails, Freed
  <2>2. /\ page'.saved = page.saved /\ page'.signing = page.signing
        /\ page' \in [saved : Saved, loading : BOOLEAN, signing : BOOLEAN]
    BY <2>1, Typed
  <2>3. TypesOK'
    BY <1>1, <1>2, <1>5, <2>2 DEF WizardInv, TypesOK
  <2>4. \A p \in Ops : op[p].kind # "send" /\ (op[p].kind = "kyc" => page'.signing)
    BY <1>1, <1>4, <1>6, <2>2 DEF HandlerOK, Early
  <2>5. seen \subseteq seen' /\ ("freed" \notin seen' => \A p \in Ops \ {o} : op[p].kind # "mint")
    BY <2>1, Marked
  <2> QED BY <1>1, <1>2, <1>3, <1>5, <2>2, <2>3, <2>4, <2>5, HandlerStep
<1>7. CASE ~op[o].heard
  <2>1. UNCHANGED <<page, seen>>
    BY <1>7 DEF MintFails
  <2>2. TypesOK'
    BY <1>1, <1>2, <1>5, <2>1 DEF WizardInv, TypesOK
  <2>3. \A p \in Ops : /\ op[p].kind = "send" => page'.loading
                       /\ op[p].kind = "kyc" => page'.signing
    BY <1>4, <2>1 DEF HandlerOK
  <2>4. "freed" \notin seen' => \A p \in Ops : op[p].kind = "mint" => page'.loading
    BY <2>1 DEF WizardInv, MintsOK
  <2> QED BY <1>1, <1>2, <1>3, <1>5, <2>1, <2>2, <2>3, <2>4, HandlerStep
<1> QED BY <1>6, <1>7

\* The connection of the mint breaks.
LEMMA LostKeeps ==
    ASSUME WizardInv, NEW o \in Ops, Lost(o)
    PROVE  WizardInv'
<1>1. /\ op[o].kind = "mint" /\ op[o].heard
      /\ op' = [op EXCEPT ![o].heard = FALSE]
      /\ page' = [page EXCEPT !.saved = page.saved, !.loading = FALSE]
      /\ Marks(o, {"freed"}) /\ UNCHANGED <<draft, wallet, lasting>>
  BY DEF Lost, Freed
<1> DEFINE rec == [op[o] EXCEPT !.heard = FALSE]
<1>2. /\ rec \in Handler /\ rec.kind = "mint" /\ rec.who = op[o].who
      /\ rec.snap = op[o].snap /\ rec.heard = FALSE
  BY <1>1, Typed DEF Handler
<1>3. op' = [op EXCEPT ![o] = rec]
  BY <1>1, Typed
<1> HIDE DEF rec
<1>4. /\ op'[o] = rec /\ (\A p \in Ops \ {o} : op'[p] = op[p]) /\ op' \in [Ops -> Handler]
  BY <1>2, <1>3, Typed
<1>5. /\ page'.saved = page.saved /\ page'.signing = page.signing
      /\ page' \in [saved : Saved, loading : BOOLEAN, signing : BOOLEAN]
  BY <1>1, Typed
<1>6. TypesOK'
  BY <1>1, <1>4, <1>5 DEF WizardInv, TypesOK, lasting
<1>7. \A p \in Ops : HandlerOK(p)
  BY DEF WizardInv
<1>8. \A p \in Ops : op[p].kind # "send" /\ (op[p].kind = "kyc" => page'.signing)
  BY <1>1, <1>5, <1>7 DEF HandlerOK, Early
<1>9. seen \subseteq seen' /\ "freed" \in seen'
  BY <1>1, Marked
<1>10. paid <= paid' /\ UNCHANGED <<draft, extracted, listed, minted>>
  BY <1>1, Typed DEF lasting
<1>11. HandlerOK(o)'
  BY <1>1, <1>2, <1>4, <1>7, <1>10 DEF HandlerOK
<1> QED BY <1>1, <1>2, <1>4, <1>5, <1>6, <1>8, <1>9, <1>10, <1>11, HandlerStep

\* The execution of a mint decides its fate, and changes nothing else of the list.
LEMMA MintExecuted ==
    ASSUME WizardInv, NEW i \in DOMAIN minted, ExecuteMint(i)
    PROVE  /\ minted' \in Seq(Token) /\ DOMAIN minted' = DOMAIN minted
           /\ \A j \in DOMAIN minted : /\ minted'[j].to = minted[j].to
                                       /\ minted'[j].meta = minted[j].meta
                                       /\ minted'[j].cid = minted[j].cid
                                       /\ j # i => minted'[j].fate = minted[j].fate
           /\ minted[i].fate = "pending"
           /\ minted'[i].fate = IF minted[i].to \in listed THEN "live" ELSE "refused"
<1>1. minted \in Seq(Token)
  BY DEF WizardInv, TypesOK
<1>2. Len(minted) \in Nat /\ DOMAIN minted = 1..Len(minted) /\ minted[i] \in Token
      /\ minted \in [1..Len(minted) -> Token]
  BY <1>1, LenProperties, ElementOfSeq
<1> DEFINE f == IF minted[i].to \in listed THEN "live" ELSE "refused"
           t == [minted[i] EXCEPT !.fate = f]
<1>3. /\ t \in Token /\ t.to = minted[i].to /\ t.meta = minted[i].meta
      /\ t.cid = minted[i].cid /\ t.fate = f
  BY <1>2 DEF Token
<1>4. minted' = [minted EXCEPT ![i] = t] /\ minted[i].fate = "pending"
  BY <1>2 DEF ExecuteMint
<1> HIDE DEF t, f
<1>5. /\ DOMAIN minted' = DOMAIN minted /\ minted'[i] = t
      /\ \A j \in DOMAIN minted : j # i => minted'[j] = minted[j]
  BY <1>2, <1>4
<1>6. minted' \in Seq(Token)
  BY <1>1, <1>2, <1>3, <1>4, ExceptSeq
<1> QED BY <1>3, <1>4, <1>5, <1>6 DEF f

\* The reset button, another account, and the chain.
LEMMA OutsideKeeps ==
    ASSUME WizardInv,
           \/ Reset \/ Switch \/ UNCHANGED vars
           \/ \E a \in Wallets : ExecuteOther(a) \/ RevokeKyc(a)
           \/ \E i \in DOMAIN minted : ExecuteMint(i)
    PROVE  WizardInv'
<1>1. CASE Reset
  <2>1. /\ Step = "mint" /\ page' = [page EXCEPT !.loading = FALSE]
        /\ seen' = seen \cup When(Minting(Ops), "freed")
        /\ UNCHANGED <<draft, wallet, op, lasting>>
    BY <1>1 DEF Reset, MayReset
  <2>2. /\ page'.saved = page.saved /\ page'.signing = page.signing
        /\ page' \in [saved : Saved, loading : BOOLEAN, signing : BOOLEAN]
    BY <2>1, Typed
  <2>3. TypesOK' /\ UNCHANGED <<paid, extracted, minted>>
    BY <2>1, <2>2 DEF WizardInv, TypesOK, lasting
  <2>4. /\ seen \subseteq seen'
        /\ (\E p \in Ops : op[p].kind = "mint" /\ op[p].heard) => "freed" \in seen'
    BY <2>1 DEF When, Minting
  <2> QED BY <2>1, <2>2, <2>3, <2>4, OutsideStep
<1>2. CASE Switch
  <2>1. TypesOK' /\ UNCHANGED <<page, draft, op, paid, extracted, minted, seen>>
    BY <1>2 DEF Switch, WizardInv, TypesOK, lasting
  <2> QED BY <2>1, OutsideStep
<1>3. ASSUME NEW a \in Wallets, ExecuteOther(a) \/ RevokeKyc(a) PROVE WizardInv'
  <2>1. /\ TypesOK' /\ UNCHANGED <<page, draft, op, paid, extracted, minted>>
        /\ seen \subseteq seen'
    BY <1>3 DEF ExecuteOther, RevokeKyc, WizardInv, TypesOK
  <2> QED BY <2>1, OutsideStep
<1>4. ASSUME NEW i \in DOMAIN minted, ExecuteMint(i) PROVE WizardInv'
  <2>0. i \in DOMAIN minted /\ ExecuteMint(i)
    BY <1>4
  <2>1. /\ minted' \in Seq(Token) /\ DOMAIN minted' = DOMAIN minted
        /\ \A j \in DOMAIN minted : minted'[j].meta = minted[j].meta
    BY <2>0, MintExecuted
  <2>2. /\ TypesOK' /\ UNCHANGED <<page, draft, op, paid, extracted, seen>>
    BY <1>4, <2>1 DEF ExecuteMint, WizardInv, TypesOK
  <2> QED BY <2>1, <2>2, OutsideStep
<1>5. CASE UNCHANGED vars
  <2>1. TypesOK' /\ UNCHANGED <<page, draft, op, paid, extracted, minted, seen>>
    BY <1>5 DEF vars, WizardInv, TypesOK, lasting
  <2> QED BY <2>1, OutsideStep
<1> QED BY <1>1, <1>2, <1>3, <1>4, <1>5

\* The description is given up: no handler is left but mints nobody waits for.
LEMMA BackToDescribe ==
    ASSUME WizardInv, TypesOK', Step \in Early,
           page'.saved = [page.saved EXCEPT !.step = "describe"],
           UNCHANGED <<draft, paid, extracted, listed, minted>>, seen \subseteq seen',
           \A p \in Ops : \/ op'[p] = op[p] /\ op[p].kind # "send"
                          \/ op'[p] = Idle
    PROVE  WizardInv'
<1>1. page.saved \in Saved
  BY Typed
<1>2. /\ page'.saved.step = "describe" /\ page'.saved.meta = page.saved.meta
      /\ page'.saved.doc = page.saved.doc /\ page'.saved.cid = page.saved.cid
      /\ page'.saved.kyc = page.saved.kyc
  BY <1>1 DEF Saved
<1>3. \A p \in Ops : op'[p].kind # "idle" =>
          /\ op'[p] = op[p] /\ HandlerOK(p) /\ op[p].kind = "mint" /\ ~op[p].heard
  BY IdleType, Typed DEF WizardInv, HandlerOK, Handler, Early
<1>4. \A p \in Ops : HandlerOK(p)'
  BY <1>3 DEF HandlerOK
<1>5. OneAtATime' /\ PageOK' /\ DraftOK' /\ TokensOK' /\ NotStuckAtKyc'
  BY <1>2, <1>3 DEF WizardInv, OneAtATime, PageOK, DraftOK, TokensOK, NotStuckAtKyc, Step, Early
<1>6. AnchorsOK'
  <2> SUFFICES ASSUME "rechosen" \notin seen' PROVE AnchorsOK'
    BY DEF AnchorsOK
  <2>1. \A p \in Ops : Paired(op'[p].snap)
    BY IdleType DEF WizardInv, AnchorsOK, Paired
  <2> QED BY <1>2, <1>3, <2>1 DEF WizardInv, AnchorsOK, Paired
<1>7. MintsOK'
  <2> SUFFICES ASSUME "freed" \notin seen' PROVE MintsOK'
    BY DEF MintsOK
  <2>1. \A p \in Ops : op[p].kind # "mint"
    BY DEF WizardInv, MintsOK, Early
  <2>2. \A i \in DOMAIN minted : minted[i].meta # page.saved.meta
    BY <2>1 DEF WizardInv, MintsOK, Early
  <2>3. \A p \in Ops : op'[p].kind # "mint"
    BY <1>3, <2>1
  <2> QED BY <1>2, <2>2, <2>3 DEF WizardInv, MintsOK, Step
<1> QED BY <1>4, <1>5, <1>6, <1>7 DEF WizardInv

\* Without a wallet a description is not sent.
LEMMA SendUnconnectedKeeps ==
    ASSUME WizardInv, NEW o \in Ops, wallet = None, Send(o)
    PROVE  WizardInv'
<1> DEFINE s == [page.saved EXCEPT !.step = "describe"]
<1>1. /\ Step \in Early /\ ~page.loading /\ page' = [page EXCEPT !.saved = s]
      /\ op' = op /\ UNCHANGED <<draft, wallet, lasting, seen>>
  BY DEF Send, MayDescribe, Early, Shown
<1>2. s \in Saved
  BY Typed, StepNamesAre DEF Saved
<1>3. page' \in [saved : Saved, loading : BOOLEAN, signing : BOOLEAN] /\ page'.saved = s
  BY <1>1, <1>2, Typed
<1>4. TypesOK'
  BY <1>1, <1>3 DEF WizardInv, TypesOK, lasting
<1>5. \A p \in Ops : op[p].kind # "send"
  BY <1>1 DEF WizardInv, HandlerOK
<1>6. UNCHANGED <<draft, paid, extracted, listed, minted>> /\ seen \subseteq seen'
  BY <1>1 DEF lasting
<1> QED BY <1>1, <1>3, <1>4, <1>5, <1>6, BackToDescribe

\* The payment or the extraction fails.
LEMMA SendFailsKeeps ==
    ASSUME WizardInv, NEW o \in Ops, SendFails(o)
    PROVE  WizardInv'
<1> DEFINE s == [page.saved EXCEPT !.step = "describe"]
<1>1. /\ op[o].kind = "send" /\ page' = [page EXCEPT !.saved = s, !.loading = FALSE]
      /\ Marks(o, {}) /\ Ends(o) /\ UNCHANGED <<draft, wallet, lasting>>
  BY DEF SendFails, Freed
<1>2. s \in Saved
  BY Typed, StepNamesAre DEF Saved
<1>3. page' \in [saved : Saved, loading : BOOLEAN, signing : BOOLEAN] /\ page'.saved = s
  BY <1>1, <1>2, Typed
<1>4. /\ op'[o] = Idle /\ (\A p \in Ops \ {o} : op'[p] = op[p]) /\ op' \in [Ops -> Handler]
  BY <1>1, Ended
<1>5. TypesOK'
  BY <1>1, <1>3, <1>4 DEF WizardInv, TypesOK, lasting
<1>6. Step \in Early /\ \A p \in Ops \ {o} : op[p].kind # "send"
  BY <1>1 DEF WizardInv, HandlerOK, OneAtATime
<1>7. UNCHANGED <<draft, paid, extracted, listed, minted>> /\ seen \subseteq seen'
  BY <1>1, Marked DEF lasting
<1> QED BY <1>3, <1>4, <1>5, <1>6, <1>7, BackToDescribe

\* The review is confirmed, or the document is left behind.
LEMMA AdvanceKeeps ==
    ASSUME WizardInv, Confirm \/ LeaveDocument
    PROVE  WizardInv'
<1>1. PICK next \in {"document", "kyc"} :
          /\ Step \in {"review", "document"} /\ (Step = "review" => ~page.loading)
          /\ page' = [page EXCEPT !.saved = [page.saved EXCEPT !.step = next]]
          /\ draft' = [page.saved EXCEPT !.step = next]
          /\ UNCHANGED <<wallet, op, lasting, seen>>
  BY DEF Confirm, LeaveDocument, MayDescribe, MayAnchor, Shown
<1> DEFINE s == [page.saved EXCEPT !.step = next]
<1>2. /\ s \in Saved /\ s.step = next /\ s.meta = page.saved.meta
      /\ s.doc = page.saved.doc /\ s.cid = page.saved.cid /\ s.kyc = page.saved.kyc
  BY Typed, StepNamesAre DEF Saved
<1>3. draft' = s /\ page' = [page EXCEPT !.saved = s]
  BY <1>1
<1> HIDE DEF s
<1>4. /\ page'.saved = s /\ page'.loading = page.loading /\ page'.signing = page.signing
      /\ page' \in [saved : Saved, loading : BOOLEAN, signing : BOOLEAN]
  BY <1>2, <1>3, Typed
<1>5. TypesOK'
  BY <1>1, <1>2, <1>3, <1>4 DEF WizardInv, TypesOK, lasting
<1>6. op' = op /\ seen' = seen /\ UNCHANGED <<extracted, paid, listed, minted>>
  BY <1>1 DEF lasting
<1>7. \A p \in Ops : HandlerOK(p)'
  <2> TAKE p \in Ops
  <2>1. HandlerOK(p)
    BY DEF WizardInv
  <2>2. op[p].kind \notin {"send", "kyc"} /\ (op[p].kind = "mint" => ~op[p].heard)
    BY <1>1, <2>1 DEF HandlerOK, Early
  <2> QED BY <1>2, <1>4, <1>6, <2>1, <2>2 DEF HandlerOK, Step, Early
<1>8. OneAtATime' /\ PageOK' /\ DraftOK' /\ TokensOK' /\ NotStuckAtKyc'
  <2>1. ~page.saved.kyc /\ page.saved.meta # 0
    BY <1>1 DEF WizardInv, PageOK
  <2>2. s # None
    BY <1>2, SavedType
  <2> QED BY <1>1, <1>2, <1>3, <1>4, <1>6, <2>1, <2>2
        DEF WizardInv, OneAtATime, PageOK, DraftOK, TokensOK, NotStuckAtKyc, Step
<1>9. AnchorsOK'
  BY <1>2, <1>3, <1>4, <1>6 DEF WizardInv, AnchorsOK, Paired
<1>10. MintsOK'
  <2> SUFFICES ASSUME "freed" \notin seen' PROVE MintsOK'
    BY DEF MintsOK
  <2>1. \A p \in Ops : op[p].kind # "mint"
    BY <1>1, <1>6 DEF WizardInv, MintsOK
  <2>2. \A i \in DOMAIN minted : minted[i].meta # page.saved.meta
    BY <1>1, <1>6, <2>1 DEF WizardInv, MintsOK
  <2> QED BY <1>2, <1>4, <1>6, <2>1, <2>2 DEF WizardInv, MintsOK, Step
<1> QED BY <1>5, <1>7, <1>8, <1>9, <1>10 DEF WizardInv

\* A document is chosen: its hash is kept at once, the upload starts.
LEMMA ChooseKeeps ==
    ASSUME WizardInv, NEW o \in Ops, NEW d \in Docs, Choose(o, d)
    PROVE  WizardInv'
<1> DEFINE s == [page.saved EXCEPT !.doc = d]
<1>1. /\ Step = "document" /\ Starts(o, "upload", "ipfs", d)
      /\ page' = [page EXCEPT !.saved = s, !.loading = TRUE] /\ draft' = s
      /\ seen' = seen \cup When(page.saved.doc # None, "rechosen")
      /\ UNCHANGED <<wallet, lasting>>
  <2>1. [page EXCEPT !.saved.doc = d, !.loading = TRUE] = [page EXCEPT !.saved = s, !.loading = TRUE]
    BY Typed
  <2> QED BY <2>1 DEF Choose, MayAnchor
<1>2. /\ s \in Saved /\ s.step = "document" /\ s.meta = page.saved.meta
      /\ s.doc = d /\ s.cid = page.saved.cid /\ s.kyc = page.saved.kyc
  BY <1>1, Typed DEF Saved, Step
<1> HIDE DEF s
<1>3. /\ page'.saved = s /\ page'.loading /\ page'.signing = page.signing
      /\ page' \in [saved : Saved, loading : BOOLEAN, signing : BOOLEAN]
  BY <1>1, <1>2, Typed
<1>4. /\ op[o].kind = "idle" /\ op'[o].kind = "upload" /\ op'[o].file = d
      /\ op'[o].snap = page.saved /\ (\A p \in Ops \ {o} : op'[p] = op[p])
      /\ op' \in [Ops -> Handler]
  BY <1>1, Started
<1>5. TypesOK' /\ UNCHANGED <<extracted, paid, listed, minted>>
  BY <1>1, <1>2, <1>3, <1>4 DEF WizardInv, TypesOK, lasting
<1>6. ~page.saved.kyc /\ page.saved.meta # 0 /\ seen \subseteq seen'
  BY <1>1 DEF WizardInv, PageOK
<1>7. \A p \in Ops : HandlerOK(p) /\ op[p].kind \notin {"send", "kyc"}
  BY <1>1 DEF WizardInv, HandlerOK, Early
<1>8. \A p \in Ops : HandlerOK(p)'
  <2> TAKE p \in Ops
  <2>1. CASE p = o
    BY <1>1, <1>2, <1>3, <1>4, <1>6, <2>1 DEF HandlerOK, Step, Early
  <2>2. CASE p # o
    BY <1>1, <1>2, <1>3, <1>4, <1>5, <1>7, <2>2 DEF HandlerOK, Step
  <2> QED BY <2>1, <2>2
<1>9. OneAtATime' /\ PageOK' /\ DraftOK' /\ TokensOK' /\ NotStuckAtKyc'
  <2>1. s # None
    BY <1>2, SavedType
  <2>2. OneAtATime'
    BY <1>4, <1>7 DEF OneAtATime
  <2> QED BY <1>1, <1>2, <1>3, <1>5, <1>6, <2>1, <2>2
        DEF WizardInv, PageOK, DraftOK, TokensOK, NotStuckAtKyc, Step
<1>10. AnchorsOK'
  <2> SUFFICES ASSUME "rechosen" \notin seen' PROVE AnchorsOK'
    BY DEF AnchorsOK
  <2>1. page.saved.doc = None /\ "rechosen" \notin seen
    BY <1>1 DEF When
  <2>2. page.saved.cid = None /\ Paired(page.saved)
    BY <2>1 DEF WizardInv, AnchorsOK, Paired
  <2>3. \A p \in Ops : op[p].kind # "upload"
    BY <1>7, <2>1, NoneAssumption DEF WizardInv, AnchorsOK, HandlerOK
  <2>4. \A p \in Ops : Paired(op'[p].snap)
    BY <1>4, <2>1, <2>2 DEF WizardInv, AnchorsOK
  <2>5. Paired(s)
    BY <1>2, <2>2 DEF Paired
  <2> QED BY <1>1, <1>2, <1>3, <1>4, <1>5, <2>3, <2>4, <2>5 DEF AnchorsOK, Paired
<1>11. MintsOK'
  <2> SUFFICES ASSUME "freed" \notin seen' PROVE MintsOK'
    BY DEF MintsOK
  <2>1. \A p \in Ops : op[p].kind # "mint"
    BY <1>1, <1>6 DEF WizardInv, MintsOK
  <2>2. \A i \in DOMAIN minted : minted[i].meta # page.saved.meta
    BY <1>1, <1>6, <2>1 DEF WizardInv, MintsOK
  <2>3. \A p \in Ops : op'[p].kind # "mint"
    BY <1>4, <2>1
  <2> QED BY <1>2, <1>3, <1>5, <1>6, <2>2, <2>3 DEF WizardInv, MintsOK, Step
<1> QED BY <1>5, <1>8, <1>9, <1>10, <1>11 DEF WizardInv

\* The link of a document arrives, wherever the dialogue is by then.
LEMMA UploadedKeeps ==
    ASSUME WizardInv, NEW o \in Ops, Uploaded(o)
    PROVE  WizardInv'
<1> DEFINE s == [page.saved EXCEPT !.cid = op[o].file]
           d == [op[o].snap EXCEPT !.doc = op[o].file, !.cid = op[o].file]
<1>1. /\ op[o].kind = "upload" /\ page' = [page EXCEPT !.saved = s, !.loading = FALSE]
      /\ draft' = d /\ Marks(o, Late) /\ Ends(o) /\ UNCHANGED <<wallet, lasting>>
  BY DEF Uploaded, At, Freed
<1>2. HandlerOK(o) /\ op[o].snap \in Saved /\ op[o].file \in Docs /\ page.saved \in Saved
  BY <1>1, Typed DEF WizardInv, HandlerOK
<1>3. /\ s \in Saved /\ s.step = Step /\ s.meta = page.saved.meta
      /\ s.doc = page.saved.doc /\ s.cid = op[o].file /\ s.kyc = page.saved.kyc
  BY <1>2 DEF Saved, Step
<1>4. /\ d \in Saved /\ d.step = "document" /\ d.meta = page.saved.meta
      /\ d.doc = op[o].file /\ d.cid = op[o].file /\ ~d.kyc
  BY <1>1, <1>2 DEF Saved, HandlerOK
<1> HIDE DEF s, d
<1>5. /\ page'.saved = s /\ page'.signing = page.signing
      /\ page' \in [saved : Saved, loading : BOOLEAN, signing : BOOLEAN]
  BY <1>1, <1>3, Typed
<1>6. /\ op'[o].kind = "idle" /\ op'[o].snap = Fresh
      /\ (\A p \in Ops \ {o} : op'[p] = op[p]) /\ op' \in [Ops -> Handler]
  BY <1>1, Ended
<1>7. TypesOK' /\ UNCHANGED <<extracted, paid, listed, minted>>
  BY <1>1, <1>4, <1>5, <1>6 DEF WizardInv, TypesOK, lasting
<1>8. seen \subseteq seen' /\ ("freed" \notin seen' => Step = "document")
  BY <1>1, Marked DEF Late, When
<1>9. Step \notin Early /\ page.saved.meta # 0
  BY <1>1, <1>2 DEF HandlerOK, WizardInv, PageOK, Early
<1>10. \A p \in Ops : HandlerOK(p)'
  <2> TAKE p \in Ops
  <2>1. CASE p = o
    BY <1>6, <2>1 DEF HandlerOK
  <2>2. CASE p # o
    <3>1. HandlerOK(p) /\ op'[p] = op[p]
      BY <1>6, <2>2 DEF WizardInv
    <3> QED BY <1>3, <1>5, <1>7, <1>9, <3>1 DEF HandlerOK, Step
  <2> QED BY <2>1, <2>2
<1>11. OneAtATime' /\ PageOK' /\ DraftOK' /\ TokensOK'
  <2>1. OneAtATime'
    BY <1>6 DEF WizardInv, OneAtATime
  <2>2. d # None
    BY <1>4, SavedType
  <2> QED BY <1>1, <1>3, <1>4, <1>5, <1>7, <1>9, <2>1, <2>2
        DEF WizardInv, PageOK, DraftOK, TokensOK, Step
<1>12. AnchorsOK'
  <2> SUFFICES ASSUME "rechosen" \notin seen' PROVE AnchorsOK'
    BY DEF AnchorsOK
  <2>1. "rechosen" \notin seen
    BY <1>8
  <2>2. page.saved.doc = op[o].file
    BY <1>1, <2>1 DEF WizardInv, AnchorsOK
  <2>3. Paired(s) /\ Paired(d) /\ Paired(Fresh)
    BY <1>3, <1>4, <2>2, IdleType DEF Paired
  <2>4. \A p \in Ops : /\ Paired(op'[p].snap)
                       /\ op'[p].kind = "upload" => page'.saved.doc = op'[p].file
    BY <1>3, <1>5, <1>6, <2>1, <2>3 DEF WizardInv, AnchorsOK
  <2> QED BY <1>1, <1>5, <1>7, <2>3, <2>4 DEF AnchorsOK, Paired
<1>13. NotStuckAtKyc'
  <2> SUFFICES ASSUME Step = "kyc", page.saved.kyc, "kycLost" \notin seen'
               PROVE  \E p \in Ops : op'[p].kind = "kyc"
    BY <1>3, <1>5 DEF NotStuckAtKyc, Step
  <2>1. PICK p \in Ops : op[p].kind = "kyc"
    BY <1>8 DEF WizardInv, NotStuckAtKyc
  <2> QED BY <1>1, <1>6, <2>1
<1>14. MintsOK'
  <2> SUFFICES ASSUME "freed" \notin seen' PROVE MintsOK'
    BY DEF MintsOK
  <2>1. \A p \in Ops : op[p].kind # "mint"
    BY <1>8 DEF WizardInv, MintsOK
  <2>2. \A i \in DOMAIN minted : minted[i].meta # page.saved.meta
    BY <1>8, <2>1 DEF WizardInv, MintsOK
  <2>3. \A p \in Ops : op'[p].kind # "mint"
    BY <1>6, <2>1
  <2> QED BY <1>3, <1>5, <1>7, <1>8, <2>2, <2>3 DEF WizardInv, MintsOK, Step
<1> QED BY <1>7, <1>10, <1>11, <1>12, <1>13, <1>14 DEF WizardInv

\* A step of an attestation: it has the page for itself, but for uploads.
LEMMA KycPage ==
    ASSUME WizardInv, NEW o \in Ops, op[o].kind = "kyc"
    PROVE  /\ Step = "kyc" /\ op[o].snap \in Saved /\ op[o].snap.step = "kyc"
           /\ ~op[o].snap.kyc /\ op[o].snap.meta = page.saved.meta /\ page.saved.meta # 0
           /\ op[o].who \in Wallets /\ page.signing
           /\ \A p \in Ops \ {o} : /\ HandlerOK(p) /\ op[p].kind \notin {"send", "kyc"}
                                   /\ op[p].kind = "mint" => ~op[p].heard
           /\ "freed" \notin seen =>
                 /\ \A p \in Ops : op[p].kind # "mint"
                 /\ \A i \in DOMAIN minted : minted[i].meta # page.saved.meta
<1>1. HandlerOK(o) /\ op[o].snap \in Saved
  BY Typed DEF WizardInv
<1>2. Step = "kyc" /\ page.saved.meta # 0
  BY <1>1 DEF HandlerOK, WizardInv, PageOK
<1>3. \A p \in Ops \ {o} : /\ HandlerOK(p) /\ op[p].kind \notin {"send", "kyc"}
                           /\ op[p].kind = "mint" => ~op[p].heard
  BY <1>2 DEF WizardInv, HandlerOK, OneAtATime, Early
<1>4. "freed" \notin seen => \A p \in Ops : op[p].kind # "mint"
  BY <1>2 DEF WizardInv, MintsOK
<1>5. "freed" \notin seen => \A i \in DOMAIN minted : minted[i].meta # page.saved.meta
  BY <1>2, <1>4 DEF WizardInv, MintsOK
<1> QED BY <1>1, <1>2, <1>3, <1>4, <1>5 DEF HandlerOK

\* The wallet has signed the attestation.
LEMMA SignAttestationKeeps ==
    ASSUME WizardInv, NEW o \in Ops, SignAttestation(o)
    PROVE  WizardInv'
<1> DEFINE s == [page.saved EXCEPT !.kyc = TRUE]
           d == [op[o].snap EXCEPT !.kyc = TRUE]
<1>1. /\ op[o].kind = "kyc" /\ page' = [page EXCEPT !.saved = s] /\ draft' = d
      /\ Goes(o, "post") /\ UNCHANGED <<wallet, lasting, seen>>
  BY DEF SignAttestation, At, Shown
<1>2. /\ Step = "kyc" /\ op[o].snap \in Saved /\ op[o].snap.step = "kyc"
      /\ ~op[o].snap.kyc /\ op[o].snap.meta = page.saved.meta /\ page.saved.meta # 0
      /\ op[o].who \in Wallets /\ page.signing
      /\ \A p \in Ops \ {o} : HandlerOK(p) /\ op[p].kind \notin {"send", "kyc"}
  BY <1>1, KycPage
<1>3. /\ s \in Saved /\ s.step = "kyc" /\ s.meta = page.saved.meta
      /\ s.doc = page.saved.doc /\ s.cid = page.saved.cid
  BY <1>2, Typed DEF Saved, Step
<1>4. /\ d \in Saved /\ d.step = "kyc" /\ d.meta = page.saved.meta
      /\ d.doc = op[o].snap.doc /\ d.cid = op[o].snap.cid
  BY <1>2 DEF Saved
<1> HIDE DEF s, d
<1>5. /\ page'.saved = s /\ page'.loading = page.loading /\ page'.signing = page.signing
      /\ page' \in [saved : Saved, loading : BOOLEAN, signing : BOOLEAN]
  BY <1>1, <1>3, Typed
<1>6. /\ op'[o].kind = "kyc" /\ op'[o].snap = op[o].snap /\ op'[o].who = op[o].who
      /\ (\A p \in Ops \ {o} : op'[p] = op[p]) /\ op' \in [Ops -> Handler]
  BY <1>1, Continues
<1>7. TypesOK' /\ UNCHANGED <<extracted, paid, listed, minted, seen>>
  BY <1>1, <1>4, <1>5, <1>6 DEF WizardInv, TypesOK, lasting
<1>8. \A p \in Ops : HandlerOK(p)'
  <2> TAKE p \in Ops
  <2>1. CASE p = o
    BY <1>2, <1>3, <1>5, <1>6, <2>1 DEF HandlerOK, Step
  <2>2. CASE p # o
    BY <1>2, <1>3, <1>5, <1>6, <1>7, <2>2 DEF HandlerOK, Step
  <2> QED BY <2>1, <2>2
<1>9. OneAtATime' /\ PageOK' /\ DraftOK' /\ TokensOK' /\ NotStuckAtKyc'
  <2>1. d # None
    BY <1>4, SavedType
  <2>2. OneAtATime' /\ NotStuckAtKyc'
    BY <1>2, <1>6 DEF OneAtATime, NotStuckAtKyc
  <2> QED BY <1>1, <1>2, <1>3, <1>4, <1>5, <1>7, <2>1, <2>2
        DEF WizardInv, PageOK, DraftOK, TokensOK, Step
<1>10. AnchorsOK'
  <2> SUFFICES ASSUME "rechosen" \notin seen' PROVE AnchorsOK'
    BY DEF AnchorsOK
  <2>1. /\ Paired(page.saved) /\ Paired(op[o].snap)
        /\ \A p \in Ops : /\ Paired(op'[p].snap)
                          /\ op'[p].kind = "upload" => page.saved.doc = op'[p].file
    BY <1>6, <1>7 DEF WizardInv, AnchorsOK
  <2>2. Paired(s) /\ Paired(d)
    BY <1>3, <1>4, <2>1 DEF Paired
  <2> QED BY <1>1, <1>3, <1>5, <1>7, <2>1, <2>2 DEF AnchorsOK, Paired
<1>11. MintsOK'
  <2> SUFFICES ASSUME "freed" \notin seen' PROVE MintsOK'
    BY DEF MintsOK
  <2>1. /\ \A p \in Ops : op[p].kind # "mint"
        /\ \A i \in DOMAIN minted : minted[i].meta # page.saved.meta
    BY <1>1, <1>7, KycPage
  <2>2. \A p \in Ops : op'[p].kind # "mint"
    BY <1>6, <2>1
  <2> QED BY <1>3, <1>5, <1>7, <2>1, <2>2 DEF WizardInv, MintsOK, Step
<1> QED BY <1>7, <1>8, <1>9, <1>10, <1>11 DEF WizardInv

\* The whitelist route has answered, whatever it did.
LEMMA WhitelistKeeps ==
    ASSUME WizardInv, NEW o \in Ops, Whitelist(o)
    PROVE  WizardInv'
<1> DEFINE s == [page.saved EXCEPT !.step = "mint"]
           d == [op[o].snap EXCEPT !.step = "mint"]
<1>1. /\ op[o].kind = "kyc" /\ page' = [page EXCEPT !.saved = s, !.signing = FALSE]
      /\ draft' = d /\ Ends(o) /\ UNCHANGED <<wallet, paid, extracted, listed, minted, kept, seen>>
  <2>1. [page EXCEPT !.saved.step = "mint", !.signing = FALSE]
            = [page EXCEPT !.saved = s, !.signing = FALSE]
    BY Typed
  <2> QED BY <2>1 DEF Whitelist, At, AfterAttestation
<1>2. /\ Step = "kyc" /\ op[o].snap \in Saved /\ op[o].snap.step = "kyc"
      /\ ~op[o].snap.kyc /\ op[o].snap.meta = page.saved.meta /\ page.saved.meta # 0
      /\ op[o].who \in Wallets
      /\ \A p \in Ops \ {o} : /\ HandlerOK(p) /\ op[p].kind \notin {"send", "kyc"}
                              /\ op[p].kind = "mint" => ~op[p].heard
  BY <1>1, KycPage
<1>3. /\ s \in Saved /\ s.step = "mint" /\ s.meta = page.saved.meta
      /\ s.doc = page.saved.doc /\ s.cid = page.saved.cid
  BY Typed, StepNamesAre DEF Saved
<1>4. /\ d \in Saved /\ d.step = "mint" /\ d.meta = page.saved.meta /\ ~d.kyc
      /\ d.doc = op[o].snap.doc /\ d.cid = op[o].snap.cid
  BY <1>2, StepNamesAre DEF Saved
<1> HIDE DEF s, d
<1>5. /\ page'.saved = s /\ page'.loading = page.loading
      /\ page' \in [saved : Saved, loading : BOOLEAN, signing : BOOLEAN]
  BY <1>1, <1>3, Typed
<1>6. /\ op'[o].kind = "idle" /\ op'[o].snap = Fresh
      /\ (\A p \in Ops \ {o} : op'[p] = op[p]) /\ op' \in [Ops -> Handler]
  BY <1>1, Ended
<1>7. sent' \subseteq Wallets
  BY <1>2 DEF Whitelist, Whitelisting, WizardInv, TypesOK
<1>8. TypesOK'
  BY <1>1, <1>4, <1>5, <1>6, <1>7 DEF WizardInv, TypesOK
<1>9. \A p \in Ops : HandlerOK(p)'
  <2> TAKE p \in Ops
  <2>1. CASE p = o
    BY <1>6, <2>1 DEF HandlerOK
  <2>2. CASE p # o
    BY <1>1, <1>2, <1>3, <1>5, <1>6, <2>2 DEF HandlerOK, Step, Early
  <2> QED BY <2>1, <2>2
<1>10. OneAtATime' /\ PageOK' /\ DraftOK' /\ TokensOK' /\ NotStuckAtKyc'
  <2>1. d # None
    BY <1>4, SavedType
  <2>2. OneAtATime'
    BY <1>2, <1>6 DEF OneAtATime
  <2> QED BY <1>1, <1>2, <1>3, <1>4, <1>5, <2>1, <2>2
        DEF WizardInv, PageOK, DraftOK, TokensOK, NotStuckAtKyc, Step
<1>11. AnchorsOK'
  <2> SUFFICES ASSUME "rechosen" \notin seen' PROVE AnchorsOK'
    BY DEF AnchorsOK
  <2>1. Paired(Fresh)
    BY IdleType DEF Paired
  <2>2. /\ Paired(page.saved) /\ Paired(op[o].snap)
        /\ \A p \in Ops : /\ Paired(op'[p].snap)
                          /\ op'[p].kind = "upload" => page.saved.doc = op'[p].file
    BY <1>1, <1>6, <2>1 DEF WizardInv, AnchorsOK
  <2>3. Paired(s) /\ Paired(d)
    BY <1>3, <1>4, <2>2 DEF Paired
  <2> QED BY <1>1, <1>3, <1>5, <2>2, <2>3 DEF AnchorsOK, Paired
<1>12. MintsOK'
  <2> SUFFICES ASSUME "freed" \notin seen' PROVE MintsOK'
    BY DEF MintsOK
  <2>1. /\ \A p \in Ops : op[p].kind # "mint"
        /\ \A i \in DOMAIN minted : minted[i].meta # page.saved.meta
    BY <1>1, KycPage
  <2>2. \A p \in Ops : op'[p].kind # "mint"
    BY <1>6, <2>1
  <2> QED BY <1>1, <1>3, <1>5, <2>1, <2>2 DEF WizardInv, MintsOK, Step
<1> QED BY <1>8, <1>9, <1>10, <1>11, <1>12 DEF WizardInv

\* The mint transaction is submitted: its metadata were not minted before.
LEMMA SubmitMintKeeps ==
    ASSUME WizardInv, NEW o \in Ops, SubmitMint(o)
    PROVE  WizardInv'
<1> DEFINE t == [to |-> op[o].who, meta |-> op[o].snap.meta,
                 cid |-> op[o].snap.cid, fate |-> "pending"]
<1>1. /\ op[o].kind = "mint" /\ op[o].pc = "whitelisted"
      /\ minted' = Append(minted, t)
      /\ op' = [op EXCEPT ![o].pc = "answer", ![o].mint = Len(minted) + 1]
      /\ UNCHANGED <<page, draft, wallet, paid, extracted, sent, listed, kept, seen>>
  BY DEF SubmitMint, At, Confirmed
<1>2. HandlerOK(o) /\ op[o].snap \in Saved /\ op[o].snap.meta \in 1..extracted
  BY <1>1, Typed DEF WizardInv, HandlerOK
<1>3. /\ t \in Token /\ t.to = op[o].who /\ t.meta = op[o].snap.meta
      /\ t.cid = op[o].snap.cid
  <2>1. op[o].who \in Wallets
    BY <1>1, <1>2 DEF HandlerOK
  <2>2. op[o].snap.meta \in 1..MaxPayments
    BY <1>2, Typed
  <2> QED BY <1>2, <2>1, <2>2, SavedType DEF Token
<1> HIDE DEF t
<1>4. minted \in Seq(Token)
  BY DEF WizardInv, TypesOK
<1>5. /\ minted' \in Seq(Token) /\ Len(minted) \in Nat
      /\ DOMAIN minted = 1..Len(minted) /\ DOMAIN minted' = 1..(Len(minted) + 1)
      /\ minted'[Len(minted) + 1] = t
      /\ \A i \in 1..Len(minted) : minted'[i] = minted[i]
  BY <1>1, <1>3, <1>4, AppendProperties, LenProperties
<1>6. \A i \in DOMAIN minted' : \/ i \in DOMAIN minted /\ minted'[i] = minted[i]
                                \/ i = Len(minted) + 1 /\ minted'[i] = t
  BY <1>5
<1>7. /\ op'[o].kind = "mint" /\ op'[o].pc = "answer" /\ op'[o].who = op[o].who
      /\ op'[o].snap = op[o].snap /\ op'[o].heard = op[o].heard
      /\ (\A p \in Ops \ {o} : op'[p] = op[p]) /\ op' \in [Ops -> Handler]
  BY Answering
<1>8. TypesOK'
  BY <1>1, <1>5, <1>7 DEF WizardInv, TypesOK
<1>9. \A p \in Ops : HandlerOK(p)'
  <2> TAKE p \in Ops
  <2>1. CASE p = o
    BY <1>1, <1>2, <1>7, <2>1 DEF HandlerOK, Step
  <2>2. CASE p # o
    <3>1. HandlerOK(p)
      BY DEF WizardInv
    <3> QED BY <1>1, <1>7, <2>2, <3>1 DEF HandlerOK, Step
  <2> QED BY <2>1, <2>2
<1>10. OneAtATime' /\ PageOK' /\ DraftOK' /\ NotStuckAtKyc'
  <2>1. \A p \in Ops : op'[p].kind = op[p].kind
    BY <1>1, <1>7
  <2> QED BY <1>1, <2>1 DEF WizardInv, OneAtATime, PageOK, DraftOK, NotStuckAtKyc, Step
<1>11. TokensOK'
  BY <1>1, <1>2, <1>3, <1>6 DEF WizardInv, TokensOK
<1>12. AnchorsOK'
  <2> SUFFICES ASSUME "rechosen" \notin seen' PROVE AnchorsOK'
    BY DEF AnchorsOK
  <2>1. /\ Paired(page.saved) /\ (draft # None => Paired(draft)) /\ Paired(op[o].snap)
        /\ \A p \in Ops : /\ Paired(op'[p].snap)
                          /\ op'[p].kind = "upload" => page.saved.doc = op'[p].file
    BY <1>1, <1>7 DEF WizardInv, AnchorsOK
  <2> QED BY <1>1, <2>1 DEF AnchorsOK, Paired
<1>13. MintsOK'
  <2> SUFFICES ASSUME "freed" \notin seen' PROVE MintsOK'
    BY DEF MintsOK
  <2>1. /\ \A p \in Ops : op[p].kind = "mint" => op[p].heard /\ page.loading /\ Step = "mint"
        /\ \A p, q \in Ops : op[p].kind = "mint" /\ op[q].kind = "mint" => p = q
        /\ \A i \in DOMAIN minted : minted[i].meta = page.saved.meta =>
               Step = "done" \/ \E p \in Ops : op[p].kind = "mint" /\ op[p].pc = "answer"
        /\ \A i, j \in DOMAIN minted : i # j => minted[i].meta # minted[j].meta
    BY <1>1 DEF WizardInv, MintsOK
  <2>2. Step = "mint" /\ op[o].snap.meta = page.saved.meta
    BY <1>1, <1>2, <2>1 DEF HandlerOK
  <2>3. \A i \in DOMAIN minted : minted[i].meta # page.saved.meta
    BY <1>1, <2>1, <2>2
  <2>4. \A i, j \in DOMAIN minted' : i # j => minted'[i].meta # minted'[j].meta
    BY <1>3, <1>6, <2>1, <2>2, <2>3
  <2>5. \A p \in Ops : /\ op'[p].kind = op[p].kind
                       /\ op'[p].heard = op[p].heard
    BY <1>1, <1>7
  <2> QED BY <1>1, <1>7, <2>1, <2>2, <2>4, <2>5 DEF MintsOK, Step
<1> QED BY <1>8, <1>9, <1>10, <1>11, <1>12, <1>13 DEF WizardInv

\* The server answers with the hash of the mint, to the page or to nobody.
LEMMA MintedKeeps ==
    ASSUME WizardInv, NEW o \in Ops, Minted(o)
    PROVE  WizardInv'
<1>1. /\ op[o].kind = "mint" /\ op[o].pc = "answer" /\ Ends(o)
      /\ UNCHANGED <<wallet, paid, extracted, sent, listed, minted>>
  BY DEF Minted, At
<1>0. kept' \subseteq [mint : Nat, doc : Docs \cup {None}]
  <2>1. op[o].mint \in Nat /\ op[o].snap.doc \in Docs \cup {None}
    BY Typed, SavedType DEF Handler
  <2> QED BY <2>1 DEF Minted, WizardInv, TypesOK
<1>2. /\ op'[o].kind = "idle" /\ op'[o].snap = Fresh
      /\ (\A p \in Ops \ {o} : op'[p] = op[p]) /\ op' \in [Ops -> Handler]
  BY <1>1, Ended
<1>3. HandlerOK(o)'
  BY <1>2 DEF HandlerOK
<1>4. \A p \in Ops : HandlerOK(p)
  BY DEF WizardInv
<1>5. CASE ~op[o].heard
  <2>1. UNCHANGED <<page, draft, seen>>
    BY <1>5 DEF Minted
  <2>2. TypesOK'
    BY <1>0, <1>1, <1>2, <2>1 DEF WizardInv, TypesOK
  <2>3. \A p \in Ops : /\ op[p].kind = "send" => page'.loading
                       /\ op[p].kind = "kyc" => page'.signing
    BY <1>4, <2>1 DEF HandlerOK
  <2>4. "freed" \in seen'
    BY <1>1, <1>5, <2>1 DEF WizardInv, MintsOK
  <2>5. paid <= paid'
    BY <1>1, Typed
  <2> QED BY <1>1, <1>2, <1>3, <2>1, <2>2, <2>3, <2>4, <2>5, HandlerStep
<1>6. CASE op[o].heard
  <2> DEFINE s == [page.saved EXCEPT !.step = "done"]
  <2>1. /\ page' = [page EXCEPT !.saved = s, !.loading = FALSE] /\ draft' = None /\ Marks(o, {})
    BY <1>6 DEF Minted, Freed, DraftDropped
  <2>2. /\ s \in Saved /\ s.step = "done" /\ s.meta = page.saved.meta
        /\ s.doc = page.saved.doc /\ s.cid = page.saved.cid
    BY Typed, StepNamesAre DEF Saved
  <2> HIDE DEF s
  <2>3. /\ page'.saved = s /\ page'.signing = page.signing
        /\ page' \in [saved : Saved, loading : BOOLEAN, signing : BOOLEAN]
    BY <2>1, <2>2, Typed
  <2>4. TypesOK'
    BY <1>0, <1>1, <1>2, <2>1, <2>3 DEF WizardInv, TypesOK
  <2>5. Step \in {"mint", "done"} /\ page.saved.meta # 0
    BY <1>1, <1>4, <1>6 DEF HandlerOK, WizardInv, PageOK
  <2>6. /\ seen \subseteq seen'
        /\ "freed" \notin seen' => \A p \in Ops \ {o} : op[p].kind # "mint"
    BY <2>1, Marked
  <2>7. \A p \in Ops : op[p].kind \notin {"send", "kyc"}
    BY <1>4, <2>5 DEF HandlerOK, Early
  <2>8. \A p \in Ops : HandlerOK(p)'
    <3> TAKE p \in Ops
    <3>1. CASE p = o
      BY <1>3, <3>1
    <3>2. CASE p # o
      BY <1>1, <1>2, <1>4, <2>2, <2>3, <2>7, <3>2 DEF HandlerOK, Step, Early
    <3> QED BY <3>1, <3>2
  <2>9. OneAtATime' /\ PageOK' /\ DraftOK' /\ TokensOK' /\ NotStuckAtKyc'
    <3>1. OneAtATime'
      BY <1>2, <2>7 DEF OneAtATime
    <3> QED BY <1>1, <2>1, <2>2, <2>3, <2>5, <3>1
          DEF WizardInv, PageOK, DraftOK, TokensOK, NotStuckAtKyc, Step
  <2>10. AnchorsOK'
    <3> SUFFICES ASSUME "rechosen" \notin seen' PROVE AnchorsOK'
      BY DEF AnchorsOK
    <3>1. Paired(Fresh)
      BY IdleType DEF Paired
    <3>2. /\ Paired(page.saved)
          /\ \A p \in Ops : /\ Paired(op'[p].snap)
                            /\ op'[p].kind = "upload" => page.saved.doc = op'[p].file
      BY <1>2, <2>6, <3>1 DEF WizardInv, AnchorsOK
    <3>3. Paired(s)
      BY <2>2, <3>2 DEF Paired
    <3> QED BY <1>1, <2>1, <2>2, <2>3, <3>2, <3>3 DEF AnchorsOK, Paired
  <2>11. MintsOK'
    <3> SUFFICES ASSUME "freed" \notin seen' PROVE MintsOK'
      BY DEF MintsOK
    <3>1. \A p \in Ops : op'[p].kind # "mint"
      BY <1>2, <2>6
    <3>2. \A i, j \in DOMAIN minted : i # j => minted[i].meta # minted[j].meta
      BY <2>6 DEF WizardInv, MintsOK
    <3> QED BY <1>1, <2>1, <2>2, <2>3, <3>1, <3>2 DEF MintsOK, Step
  <2> QED BY <2>4, <2>8, <2>9, <2>10, <2>11 DEF WizardInv
<1> QED BY <1>5, <1>6

\* A reload keeps the draft, a restart drops it; both leave the mints to themselves.
LEMMA ReloadsKeeps ==
    ASSUME WizardInv, NEW d \in {draft, None}, Reloads(d)
    PROVE  WizardInv'
<1> DEFINE s == Restored(d)
<1>1. /\ page' = [saved |-> s, loading |-> FALSE, signing |-> FALSE] /\ draft' = d
      /\ op' = [o \in Ops |-> IF op[o].kind = "mint"
                              THEN [op[o] EXCEPT !.heard = FALSE] ELSE Idle]
      /\ seen' = seen \cup When(Minting(Ops), "freed")
                      \cup When(s.step = "kyc" /\ s.kyc, "kycLost")
      /\ UNCHANGED <<wallet, lasting>>
  BY DEF Reloads, NewPage
<1>2. d \in Saved \cup {None}
  BY Typed
<1>3. IF d = None THEN s = Fresh
      ELSE /\ s = d /\ d \in Saved /\ d = draft /\ d.meta = page.saved.meta /\ d.meta # 0
           /\ d.step \in {"review", "document", "kyc", "mint"}
           /\ (d.kyc => d.step = "kyc")
  BY <1>2 DEF Restored, WizardInv, DraftOK
<1>4. s \in Saved
  BY <1>2, <1>3, IdleType
<1> HIDE DEF s
<1>5. /\ page'.saved = s
      /\ page' \in [saved : Saved, loading : BOOLEAN, signing : BOOLEAN]
  BY <1>1, <1>4
<1>6. \A o \in Ops :
          IF op[o].kind = "mint"
          THEN /\ op'[o] \in Handler /\ op'[o].kind = "mint" /\ op'[o].who = op[o].who
               /\ op'[o].snap = op[o].snap /\ ~op'[o].heard
          ELSE op'[o] = Idle /\ op'[o] \in Handler /\ op'[o].kind = "idle" /\ op'[o].snap = Fresh
  <2> TAKE o \in Ops
  <2>1. CASE op[o].kind = "mint"
    <3>1. op'[o] = [op[o] EXCEPT !.heard = FALSE] /\ op[o] \in Handler
      BY <1>1, <2>1, Typed
    <3> QED BY <2>1, <3>1 DEF Handler
  <2>2. CASE op[o].kind # "mint"
    BY <1>1, <2>2, IdleType
  <2> QED BY <2>1, <2>2
<1>7. op' \in [Ops -> Handler]
  <2>1. \A o \in Ops : (IF op[o].kind = "mint" THEN [op[o] EXCEPT !.heard = FALSE] ELSE Idle) \in Handler
    BY <1>1, <1>6
  <2> QED BY <1>1, <2>1
<1>8. TypesOK' /\ UNCHANGED <<extracted, paid, listed, minted>>
  BY <1>1, <1>2, <1>5, <1>7 DEF WizardInv, TypesOK, lasting
<1>9. seen \subseteq seen' /\ (s.step = "kyc" /\ s.kyc => "kycLost" \in seen')
  BY <1>1 DEF When
<1>10. "freed" \notin seen' => \A o \in Ops : op[o].kind # "mint"
  <2> SUFFICES ASSUME "freed" \notin seen', NEW o \in Ops, op[o].kind = "mint" PROVE FALSE
    OBVIOUS
  <2>1. op[o].heard
    BY <1>9 DEF WizardInv, MintsOK
  <2> QED BY <1>1, <2>1 DEF Minting, When
<1>11. \A o \in Ops : HandlerOK(o)'
  <2> TAKE o \in Ops
  <2>1. HandlerOK(o)
    BY DEF WizardInv
  <2> QED BY <1>6, <1>8, <2>1 DEF HandlerOK
<1>12. OneAtATime'
  BY <1>6 DEF OneAtATime
<1>13. PageOK' /\ DraftOK' /\ TokensOK' /\ NotStuckAtKyc'
  <2>1. page.saved.meta <= extracted /\ extracted \in Nat
    BY Typed DEF WizardInv, PageOK
  <2>2. TokensOK' /\ NotStuckAtKyc'
    BY <1>5, <1>8, <1>9 DEF WizardInv, TokensOK, NotStuckAtKyc, Step
  <2>3. CASE d = None
    BY <1>1, <1>3, <1>5, <1>8, <2>1, <2>2, <2>3, IdleType DEF PageOK, DraftOK, Step
  <2>4. CASE d # None
    BY <1>1, <1>3, <1>5, <1>8, <2>1, <2>2, <2>4 DEF PageOK, DraftOK, Step
  <2> QED BY <2>3, <2>4
<1>14. AnchorsOK'
  <2> SUFFICES ASSUME "rechosen" \notin seen' PROVE AnchorsOK'
    BY DEF AnchorsOK
  <2>1. Paired(Fresh)
    BY IdleType DEF Paired
  <2>2. /\ (draft # None => Paired(draft)) /\ \A o \in Ops : Paired(op[o].snap)
    BY <1>9 DEF WizardInv, AnchorsOK
  <2>3. Paired(s) /\ (d # None => Paired(d))
    BY <1>3, <2>1, <2>2
  <2>4. \A o \in Ops : Paired(op'[o].snap) /\ op'[o].kind # "upload"
    BY <1>6, <2>1, <2>2
  <2> QED BY <1>1, <1>5, <1>8, <2>2, <2>3, <2>4 DEF AnchorsOK, Paired
<1>15. MintsOK'
  <2> SUFFICES ASSUME "freed" \notin seen' PROVE MintsOK'
    BY DEF MintsOK
  <2>1. \A o \in Ops : op[o].kind # "mint" /\ op'[o].kind # "mint"
    BY <1>6, <1>10
  <2>2. /\ Step = "done" => draft = None
        /\ \A i \in DOMAIN minted : minted[i].meta = page.saved.meta => Step = "done"
        /\ \A i, j \in DOMAIN minted : i # j => minted[i].meta # minted[j].meta
    BY <1>9, <2>1 DEF WizardInv, MintsOK
  <2>3. s.step # "done"
    BY <1>3, IdleType
  <2>4. \A i \in DOMAIN minted : minted[i].meta # s.meta
    <3> TAKE i \in DOMAIN minted
    <3>1. CASE d = None
      BY <1>3, <3>1, IdleType, Typed DEF WizardInv, TokensOK
    <3>2. CASE d # None
      BY <1>3, <2>2, <3>2
    <3> QED BY <3>1, <3>2
  <2> QED BY <1>5, <1>8, <2>1, <2>2, <2>3, <2>4 DEF MintsOK, Step
<1> QED BY <1>8, <1>11, <1>12, <1>13, <1>14, <1>15 DEF WizardInv

-----------------------------------------------------------------------------
\* The empty dialogue satisfies the invariant.
LEMMA WizardInit ==
    ASSUME Init
    PROVE  WizardInv
<1>1. /\ page = [saved |-> Fresh, loading |-> FALSE, signing |-> FALSE] /\ draft = None
      /\ wallet = None /\ op = [o \in Ops |-> Idle] /\ paid = 0 /\ extracted = 0
      /\ sent = {} /\ listed = {} /\ minted = <<>> /\ kept = {} /\ seen = {}
  BY DEF Init, NewPage
<1>2. \A o \in Ops : op[o] = Idle /\ op[o].kind = "idle" /\ op[o].snap = Fresh
  BY <1>1, IdleType
<1>3. page.saved = Fresh /\ minted \in Seq(Token) /\ DOMAIN minted = {}
  BY <1>1, EmptySeq
<1>4. TypesOK
  <2>1. op \in [Ops -> Handler] /\ page \in [saved : Saved, loading : BOOLEAN, signing : BOOLEAN]
    BY <1>1, IdleType
  <2>2. paid \in 0..MaxPayments /\ extracted \in 0..paid
    BY <1>1, BoundsAssumption
  <2> QED BY <1>1, <1>3, <2>1, <2>2 DEF TypesOK
<1>5. \A o \in Ops : HandlerOK(o)
  BY <1>2 DEF HandlerOK
<1>6. OneAtATime /\ PageOK /\ DraftOK /\ TokensOK /\ NotStuckAtKyc
  BY <1>1, <1>2, <1>3, IdleType DEF OneAtATime, PageOK, DraftOK, TokensOK, NotStuckAtKyc, Step
<1>7. AnchorsOK /\ MintsOK
  BY <1>1, <1>2, <1>3, IdleType DEF AnchorsOK, MintsOK, Paired, Step
<1> QED BY <1>4, <1>5, <1>6, <1>7 DEF WizardInv

\* Every step of the dialogue keeps the invariant.
LEMMA WizardStep ==
    ASSUME WizardInv, [Next]_vars
    PROVE  WizardInv'
<1>1. CASE Confirm \/ LeaveDocument
  BY <1>1, AdvanceKeeps
<1>2. CASE Reload \/ Restart
  BY <1>2, ReloadsKeeps DEF Reload, Restart
<1>3. CASE \/ Reset \/ Switch \/ UNCHANGED vars
           \/ \E a \in Wallets : ExecuteOther(a) \/ RevokeKyc(a)
           \/ \E i \in DOMAIN minted : ExecuteMint(i)
  BY <1>3, OutsideKeeps
<1>4. ASSUME NEW o \in Ops, Describing(o) PROVE WizardInv'
  BY <1>4, SendUnconnectedKeeps, SendKeeps, PayKeeps, ExtractKeeps, SendFailsKeeps DEF Describing
<1>5. ASSUME NEW o \in Ops, Anchoring(o) PROVE WizardInv'
  BY <1>5, ChooseKeeps, UploadedKeeps, UploadFailsKeeps DEF Anchoring
<1>6. ASSUME NEW o \in Ops, Attesting(o) PROVE WizardInv'
  BY <1>6, AttestKeeps, SignAttestationKeeps, WhitelistKeeps, AttestFailsKeeps DEF Attesting
<1>7. ASSUME NEW o \in Ops, Minting1(o) PROVE WizardInv'
  BY <1>7, MintKeeps, KycOfMintKeeps, SubmitMintKeeps, MintedKeeps, MintFailsKeeps, LostKeeps
    DEF Minting1
<1> QED BY <1>1, <1>2, <1>3, <1>4, <1>5, <1>6, <1>7 DEF Next

\* A step that brings no mint further, and revokes nobody.
LEMMA ChainFrame ==
    ASSUME ChainOK, UNCHANGED <<minted, kept>>, listed \subseteq listed', seen \subseteq seen',
           \A p \in Ops : op'[p].kind = "mint" /\ op'[p].pc \in {"whitelisted", "answer"} =>
               /\ op[p].kind = "mint" /\ op[p].pc = op'[p].pc /\ op[p].who = op'[p].who
               /\ op[p].snap = op'[p].snap /\ op[p].mint = op'[p].mint
    PROVE  ChainOK'
BY DEF ChainOK, AnchoredTogether, At

\* A handler of the page that starts, goes on before the mint, or ends.
LEMMA ChainHandler ==
    ASSUME ChainOK, NEW o \in Ops, UNCHANGED <<listed, minted, kept>>, seen \subseteq seen',
           \A p \in Ops \ {o} : op'[p] = op[p],
           op'[o].kind # "mint" \/ op'[o].pc \in {"kyc", "wait"}
    PROVE  ChainOK'
BY ChainFrame

\* The chain executes the set_kyc of a mint: the route may go on.
LEMMA ExecuteKycChain ==
    ASSUME WizardInv, ChainOK, NEW o \in Ops, ExecuteKyc(o)
    PROVE  ChainOK'
<1>1. /\ op[o].kind = "mint" /\ Goes(o, "whitelisted")
      /\ listed' = listed \cup {op[o].who} /\ UNCHANGED <<minted, kept, seen>>
  BY DEF ExecuteKyc, At
<1>2. /\ op'[o].pc = "whitelisted" /\ op'[o].who = op[o].who
      /\ \A p \in Ops \ {o} : op'[p] = op[p]
  BY <1>1, Continues
<1> QED BY <1>1, <1>2 DEF ChainOK, AnchoredTogether, At

\* The mint is submitted, and remembered by the request.
LEMMA SubmitMintChain ==
    ASSUME WizardInv, ChainOK, NEW o \in Ops, SubmitMint(o)
    PROVE  ChainOK'
<1> DEFINE t == [to |-> op[o].who, meta |-> op[o].snap.meta,
                 cid |-> op[o].snap.cid, fate |-> "pending"]
<1>1. /\ op[o].kind = "mint" /\ op[o].pc = "whitelisted" /\ minted' = Append(minted, t)
      /\ op' = [op EXCEPT ![o].pc = "answer", ![o].mint = Len(minted) + 1]
      /\ UNCHANGED <<listed, kept, seen>>
  BY DEF SubmitMint, At, Confirmed
<1>2. minted \in Seq(Token)
  BY DEF WizardInv, TypesOK
<1>3. t.to = op[o].who /\ t.cid = op[o].snap.cid /\ t.fate = "pending"
  OBVIOUS
<1> HIDE DEF t
<1>4. /\ Len(minted) \in Nat /\ DOMAIN minted = 1..Len(minted)
      /\ Len(minted') = Len(minted) + 1 /\ DOMAIN minted' = 1..(Len(minted) + 1)
      /\ minted'[Len(minted) + 1] = t
      /\ \A i \in 1..Len(minted) : minted'[i] = minted[i]
  BY <1>1, <1>2
<1>5. \A i \in DOMAIN minted' : \/ i \in DOMAIN minted /\ minted'[i] = minted[i]
                                \/ i = Len(minted) + 1 /\ minted'[i] = t
  BY <1>4
<1>6. /\ op'[o].pc = "answer" /\ op'[o].snap = op[o].snap /\ op'[o].mint = Len(minted) + 1
      /\ \A p \in Ops \ {o} : op'[p] = op[p]
  BY Answering
<1>7. \A p \in Ops : At(p, "mint", "answer")' =>
          op'[p].mint \in DOMAIN minted' /\ minted'[op'[p].mint].cid = op'[p].snap.cid
  <2> SUFFICES ASSUME NEW p \in Ops, op'[p].kind = "mint", op'[p].pc = "answer"
               PROVE  op'[p].mint \in DOMAIN minted' /\ minted'[op'[p].mint].cid = op'[p].snap.cid
    BY DEF At
  <2>1. CASE p = o
    BY <1>3, <1>4, <1>6, <2>1
  <2>2. CASE p # o
    <3>1. op'[p] = op[p] /\ op[p].mint \in DOMAIN minted
          /\ minted[op[p].mint].cid = op[p].snap.cid
      BY <1>6, <2>2 DEF ChainOK, At
    <3> QED BY <1>4, <3>1
  <2> QED BY <2>1, <2>2
<1>8. (\A k \in kept : k.mint \in DOMAIN minted)' /\ AnchoredTogether'
  <2>1. \A k \in kept : k.mint \in DOMAIN minted /\ minted'[k.mint] = minted[k.mint]
    BY <1>4 DEF ChainOK
  <2> QED BY <1>1, <1>4, <2>1 DEF ChainOK, AnchoredTogether
<1>9. ASSUME "revoked" \notin seen
      PROVE  /\ \A p \in Ops : At(p, "mint", "whitelisted")' => op'[p].who \in listed'
             /\ \A i \in DOMAIN minted' :
                    minted'[i].fate # "refused" /\ (minted'[i].fate = "pending" => minted'[i].to \in listed')
  <2>1. /\ \A p \in Ops : At(p, "mint", "whitelisted") => op[p].who \in listed
        /\ \A i \in DOMAIN minted :
               minted[i].fate # "refused" /\ (minted[i].fate = "pending" => minted[i].to \in listed)
    BY <1>9 DEF ChainOK
  <2>2. op[o].who \in listed
    BY <1>1, <2>1 DEF At
  <2>3. ASSUME NEW p \in Ops, op'[p].kind = "mint", op'[p].pc = "whitelisted"
        PROVE  op'[p].who \in listed'
    <3>1. p # o
      BY <1>6, <2>3
    <3>2. op'[p] = op[p] /\ op[p].who \in listed
      BY <1>6, <2>1, <2>3, <3>1 DEF At
    <3> QED BY <1>1, <3>2
  <2>4. \A i \in DOMAIN minted' :
            minted'[i].fate # "refused" /\ (minted'[i].fate = "pending" => minted'[i].to \in listed')
    BY <1>1, <1>3, <1>5, <2>1, <2>2
  <2> QED BY <2>3, <2>4 DEF At
<1> QED BY <1>1, <1>7, <1>8, <1>9 DEF ChainOK

\* The answer of the mint is stored with the document of the click, whose link the
\* mint has put on the chain.
LEMMA MintedChain ==
    ASSUME WizardInv, ChainOK, NEW o \in Ops, Minted(o)
    PROVE  ChainOK'
<1> DEFINE row == [mint |-> op[o].mint, doc |-> op[o].snap.doc]
<1>1. /\ op[o].kind = "mint" /\ op[o].pc = "answer" /\ Ends(o)
      /\ UNCHANGED <<listed, minted>> /\ seen \subseteq seen' /\ kept' \subseteq kept \cup {row}
  BY DEF Minted, At, Marks
<1>2. op'[o].kind = "idle" /\ \A p \in Ops \ {o} : op'[p] = op[p]
  BY <1>1, Ended
<1>3. /\ op[o].mint \in DOMAIN minted /\ minted[op[o].mint].cid = op[o].snap.cid
  BY <1>1 DEF ChainOK, At
<1>4. "rechosen" \notin seen => op[o].snap.cid \in {None, op[o].snap.doc}
  BY DEF WizardInv, AnchorsOK, Paired
<1>5. row.mint = op[o].mint /\ row.doc = op[o].snap.doc
  OBVIOUS
<1> HIDE DEF row
<1>6. AnchoredTogether' /\ \A k \in kept' : k.mint \in DOMAIN minted
  BY <1>1, <1>3, <1>4, <1>5 DEF ChainOK, AnchoredTogether
<1> QED BY <1>1, <1>2, <1>6 DEF ChainOK, At

\* The chain executes a mint, or revokes a recipient that no mint relies on.
LEMMA OutsideChain ==
    ASSUME WizardInv, ChainOK,
           \/ \E a \in Wallets : ExecuteOther(a) \/ RevokeKyc(a)
           \/ \E i \in DOMAIN minted : ExecuteMint(i)
    PROVE  ChainOK'
<1>1. ASSUME NEW a \in Wallets, ExecuteOther(a) PROVE ChainOK'
  BY <1>1, ChainFrame DEF ExecuteOther
<1>2. ASSUME NEW a \in Wallets, RevokeKyc(a) PROVE ChainOK'
  <2>1. /\ listed' = listed \ {a} /\ seen' = seen \cup When(Relied(a), "revoked")
        /\ UNCHANGED <<op, minted, kept>>
    BY <1>2 DEF RevokeKyc
  <2>2. seen \subseteq seen'
    BY <2>1
  <2>3. ASSUME "revoked" \notin seen' PROVE ~Relied(a)
    BY <2>1, <2>3 DEF When
  <2>4. CASE "revoked" \in seen'
    BY <2>1, <2>2, <2>4 DEF ChainOK, AnchoredTogether, At
  <2>5. CASE "revoked" \notin seen'
    BY <2>1, <2>2, <2>3, <2>5 DEF ChainOK, AnchoredTogether, At, Relied
  <2> QED BY <2>4, <2>5
<1>3. ASSUME NEW i \in DOMAIN minted, ExecuteMint(i) PROVE ChainOK'
  <2>1. UNCHANGED <<op, kept, listed, seen>> /\ i \in DOMAIN minted /\ ExecuteMint(i)
    BY <1>3 DEF ExecuteMint
  <2>2. /\ DOMAIN minted' = DOMAIN minted
        /\ \A j \in DOMAIN minted : /\ minted'[j].to = minted[j].to
                                    /\ minted'[j].cid = minted[j].cid
                                    /\ j # i => minted'[j].fate = minted[j].fate
        /\ minted[i].fate = "pending"
        /\ minted'[i].fate = IF minted[i].to \in listed THEN "live" ELSE "refused"
    BY <2>1, MintExecuted
  <2>3. /\ \A o \in Ops : At(o, "mint", "answer")' =>
               op'[o].mint \in DOMAIN minted' /\ minted'[op'[o].mint].cid = op'[o].snap.cid
        /\ \A k \in kept' : k.mint \in DOMAIN minted'
        /\ AnchoredTogether'
    BY <2>1, <2>2 DEF ChainOK, AnchoredTogether, At
  <2>4. ASSUME "revoked" \notin seen
        PROVE  /\ \A o \in Ops : At(o, "mint", "whitelisted") => op[o].who \in listed
               /\ \A j \in DOMAIN minted :
                      minted'[j].fate # "refused" /\ (minted'[j].fate = "pending" => minted[j].to \in listed)
    BY <2>1, <2>2, <2>4 DEF ChainOK
  <2> QED BY <2>1, <2>2, <2>3, <2>4 DEF ChainOK, At
<1> QED BY <1>1, <1>2, <1>3

\* Every step of the dialogue and of the chain keeps what they know of each other.
LEMMA ChainStep ==
    ASSUME WizardInv, ChainOK, [Next]_vars
    PROVE  ChainOK'
<1>1. CASE Confirm \/ LeaveDocument \/ Reset \/ Switch \/ UNCHANGED vars
  <2>1. UNCHANGED <<op, listed, minted, kept>> /\ seen \subseteq seen'
    BY <1>1 DEF Confirm, LeaveDocument, Reset, Switch, vars, lasting
  <2> QED BY <2>1, ChainFrame
<1>2. CASE Reload \/ Restart
  <2>1. /\ UNCHANGED <<listed, minted, kept>> /\ seen \subseteq seen'
        /\ op' = [o \in Ops |-> IF op[o].kind = "mint"
                                THEN [op[o] EXCEPT !.heard = FALSE] ELSE Idle]
    BY <1>2 DEF Reload, Restart, Reloads, lasting
  <2>2. \A p \in Ops : op'[p].kind = "mint" =>
            /\ op[p].kind = "mint" /\ op[p].pc = op'[p].pc /\ op[p].who = op'[p].who
            /\ op[p].snap = op'[p].snap /\ op[p].mint = op'[p].mint
    <3> SUFFICES ASSUME NEW p \in Ops, op'[p].kind = "mint"
                 PROVE  /\ op[p].kind = "mint" /\ op[p].pc = op'[p].pc /\ op[p].who = op'[p].who
                        /\ op[p].snap = op'[p].snap /\ op[p].mint = op'[p].mint
      OBVIOUS
    <3>1. op[p].kind = "mint"
      BY <2>1, IdleType
    <3>2. op'[p] = [op[p] EXCEPT !.heard = FALSE] /\ op[p] \in Handler
      BY <2>1, <3>1, Typed
    <3> QED BY <3>1, <3>2 DEF Handler
  <2> QED BY <2>1, <2>2, ChainFrame
<1>3. CASE \/ \E a \in Wallets : ExecuteOther(a) \/ RevokeKyc(a)
           \/ \E i \in DOMAIN minted : ExecuteMint(i)
  BY <1>3, OutsideChain
<1>4. ASSUME NEW o \in Ops, Describing(o) \/ Anchoring(o) \/ Attesting(o) PROVE ChainOK'
  <2>1. CASE UNCHANGED op
    <3>1. UNCHANGED <<listed, minted, kept>> /\ seen \subseteq seen'
      BY <1>4 DEF Describing, Anchoring, Attesting, Send, Pay, Extract, SendFails, Choose,
            Uploaded, UploadFails, Attest, SignAttestation, Whitelist, AttestFails, Marks, lasting
    <3> QED BY <2>1, <3>1, ChainFrame
  <2>2. CASE ~UNCHANGED op
    <3>1. UNCHANGED <<listed, minted, kept>> /\ seen \subseteq seen'
      BY <1>4 DEF Describing, Anchoring, Attesting, Send, Pay, Extract, SendFails, Choose,
            Uploaded, UploadFails, Attest, SignAttestation, Whitelist, AttestFails, Marks, lasting
    <3>2. \/ Starts(o, "send", "pay", None) \/ Starts(o, "kyc", "sign", None)
          \/ \E d \in Docs : Starts(o, "upload", "ipfs", d)
          \/ Ends(o)
          \/ op[o].kind = "send" /\ Goes(o, "extract")
          \/ op[o].kind = "kyc" /\ Goes(o, "post")
      BY <1>4, <2>2 DEF Describing, Anchoring, Attesting, Send, Pay, Extract, SendFails, Choose,
            Uploaded, UploadFails, Attest, SignAttestation, Whitelist, AttestFails, At
    <3>3. op'[o].kind # "mint" /\ \A p \in Ops \ {o} : op'[p] = op[p]
      BY <3>2, Started, Ended, Continues
    <3> QED BY <3>1, <3>3, ChainHandler
  <2> QED BY <2>1, <2>2
<1>5. ASSUME NEW o \in Ops, Minting1(o) PROVE ChainOK'
  <2>1. CASE Mint(o) \/ SubmitKyc(o) \/ MintFails(o)
    <3>1. /\ UNCHANGED <<listed, minted, kept>> /\ seen \subseteq seen'
          /\ \/ Starts(o, "mint", "kyc", None) \/ Ends(o)
             \/ op[o].kind = "mint" /\ Goes(o, "wait")
      BY <2>1 DEF Mint, SubmitKyc, MintFails, Marks, At, lasting
    <3>2. /\ op'[o].kind # "mint" \/ op'[o].pc \in {"kyc", "wait"}
          /\ \A p \in Ops \ {o} : op'[p] = op[p]
      BY <3>1, Started, Ended, Continues
    <3> QED BY <3>1, <3>2, ChainHandler
  <2>2. CASE Lost(o)
    <3>1. /\ UNCHANGED <<listed, minted, kept>> /\ seen \subseteq seen'
          /\ op' = [op EXCEPT ![o] = [op[o] EXCEPT !.heard = FALSE]]
      BY <2>2, Typed DEF Lost, Marks, lasting
    <3> DEFINE rec == [op[o] EXCEPT !.heard = FALSE]
    <3>2. /\ rec.kind = op[o].kind /\ rec.pc = op[o].pc /\ rec.who = op[o].who
          /\ rec.snap = op[o].snap /\ rec.mint = op[o].mint
      BY Typed DEF Handler
    <3> HIDE DEF rec
    <3>3. op'[o] = rec /\ \A p \in Ops \ {o} : op'[p] = op[p]
      BY <3>1, Typed DEF rec
    <3> QED BY <3>1, <3>2, <3>3, ChainFrame
  <2> QED BY <1>5, <2>1, <2>2, ExecuteKycChain, SubmitMintChain, MintedChain DEF Minting1
<1> QED BY <1>1, <1>2, <1>3, <1>4, <1>5 DEF Next

\* Every reachable state satisfies the invariant.
THEOREM DialogueInvariant == Spec => [](WizardInv /\ ChainOK)
<1>1. Init => WizardInv /\ ChainOK
  <2> SUFFICES ASSUME Init PROVE WizardInv /\ ChainOK
    OBVIOUS
  <2>1. /\ DOMAIN minted = {} /\ kept = {}
        /\ \A o \in Ops : op[o].kind = "idle"
    BY IdleType DEF Init
  <2>2. ChainOK
    BY <2>1 DEF ChainOK, AnchoredTogether, At
  <2> QED BY <2>2, WizardInit
<1>2. WizardInv /\ ChainOK /\ [Next]_vars => (WizardInv /\ ChainOK)'
  BY WizardStep, ChainStep
<1> QED BY <1>1, <1>2, PTL DEF Spec

\* The chain refuses no mint that the page has called live, unless the recipient was
\* revoked after the set_kyc that the mint route waited for: that set_kyc was executed
\* before the mint was submitted, whatever whitelisting or revoking came before.
THEOREM MintsWaitForKyc == Spec => []MintsAreLive
<1>1. ChainOK => MintsAreLive
  BY DEF ChainOK, MintsAreLive
<1> QED BY <1>1, DialogueInvariant, PTL

\* One extraction is minted once, unless the page stopped waiting for a mint under
\* way: until then a mint keeps the page at "mint", loading, and its answer moves it
\* to "done", where no draft is left to return to.
THEOREM OneMintPerAsset == Spec => []MintedOnce
<1>1. WizardInv => MintedOnce
  BY DEF WizardInv, MintsOK, MintedOnce
<1> QED BY <1>1, DialogueInvariant, PTL

\* The hash stored with a token and the link its mint put on the chain are of one
\* document, unless a second one was chosen: the page, the draft and the renderings of
\* all handlers pair them, and the answer is stored for the mint of its own request.
THEOREM AnchorsOfOneDocument == Spec => []AnchoredTogether
<1>1. ChainOK => AnchoredTogether
  BY DEF ChainOK
<1> QED BY <1>1, DialogueInvariant, PTL

\* A signed attestation is not left at its step without a handler, unless its
\* request failed or the page was reloaded.
THEOREM AttestationGoesOn == Spec => []NotStuckAtKyc
<1>1. WizardInv => NotStuckAtKyc
  BY DEF WizardInv
<1> QED BY <1>1, DialogueInvariant, PTL

\* From the review to the mint, a draft exists that carries the extraction the page
\* shows: handlers write the metadata of their rendering, which are those of the page.
THEOREM DraftSurvives == Spec => []DraftIsUsable
<1>1. WizardInv => DraftIsUsable
  <2> SUFFICES ASSUME WizardInv, Step \in {"review", "document", "kyc", "mint"}
               PROVE  draft # None /\ draft.meta # 0 /\ draft.step # "describe"
    BY DEF DraftIsUsable
  <2> QED BY DEF WizardInv, PageOK, DraftOK
<1> QED BY <1>1, DialogueInvariant, PTL

(***************************************************************************)
(* The offer form (OfferPage).  The offers are started one after the other *)
(* and the form shows the last of them; whatever is on its way to the form *)
(* says what that offer's route has done, and what it has done stays done. *)
(***************************************************************************)
OffersAssumption == MaxOffers \in Nat

Phases == {"idle", "begin", "kyc", "submit", "confirm", "issuer", "investor", "table", "over"}
Things == {"kyc", "issuer", "investor", "table"}
Said == {"checking", "someVerified", "allVerified", "submitting", "submitted", "waiting",
         "confirmed", "registering", "issuer", "investor", "done", "error"}
StepMarks == {"waiting", "active", "done", "skipped", "error"}

\* What has to be done before something may be said of it.
Complete(done) == /\ onChain => {"kyc", "issuer", "investor"} \subseteq done
                  /\ hasRow => "table" \in done
TrueOf(done) == {e \in Said : /\ e = "confirmed" => "kyc" \in done
                              /\ e \in {"issuer", "investor"} => "issuer" \in done
                              /\ e = "done" => Complete(done)}
Honest(marks, done) ==
    /\ marks[3] = "done" => "kyc" \in done
    /\ marks[4] = "done" => "issuer" \in done
    /\ marks[5] = "done" => Complete(done)

OfferTypes ==
    /\ route \in [F!Offers -> [pc : Phases, done : SUBSET Things]]
    /\ DOMAIN events = F!Offers
    /\ steps \in [1..5 -> StepMarks]
    /\ result \in {"none", "ok", "error"}

ServedOK(o) ==
    /\ route[o].pc \in {"issuer", "investor", "table"} => "kyc" \in route[o].done
    /\ route[o].pc \in {"investor", "table"} => "issuer" \in route[o].done
    /\ route[o].pc = "table" => "investor" \in route[o].done
    /\ events[o] \in Seq(TrueOf(route[o].done))

InTurn ==
    /\ F!Last \in 0..MaxOffers
    /\ \A o \in F!Offers : route[o].pc = "idle" <=> F!Last < o
    /\ current \in {0, F!Last}

FormOK ==
    /\ current # 0 => result = "none"
    /\ result = "ok" => steps[5] = "done"
    /\ result = "error" => \A s \in 1..5 : steps[s] # "active"
    /\ F!Last = 0 => steps = F!Blank /\ result = "none"
    /\ F!Last # 0 => Honest(steps, route[F!Last].done)

OfferInv == OfferTypes /\ (\A o \in F!Offers : ServedOK(o)) /\ InTurn /\ FormOK

\* The last offer is the one up to which all have been started.
LEMMA LastIs ==
    ASSUME OffersAssumption, NEW n \in 0..MaxOffers, NEW r,
           \A o \in F!Offers : r[o].pc = "idle" <=> n < o
    PROVE  n = IF \A o \in F!Offers : r[o].pc = "idle" THEN 0
               ELSE CHOOSE o \in F!Offers : /\ ~(r[o].pc = "idle")
                                            /\ \A p \in F!Offers : ~(r[p].pc = "idle") => p <= o
<1> USE DEF F!Offers, OffersAssumption
<1> DEFINE P(o) == ~(r[o].pc = "idle") /\ \A p \in F!Offers : ~(r[p].pc = "idle") => p <= o
<1>1. CASE n = 0
  BY <1>1
<1>2. CASE n # 0
  <2>1. n \in F!Offers /\ P(n)
    BY <1>2
  <2>2. PICK c : c = CHOOSE o \in F!Offers : P(o)
    OBVIOUS
  <2>3. c \in F!Offers /\ P(c)
    BY <2>1, <2>2
  <2>4. c <= n /\ n <= c
    BY <2>1, <2>3
  <2>5. c = n
    BY <2>3, <2>4
  <2>6. ~(\A o \in F!Offers : r[o].pc = "idle")
    BY <2>1
  <2> QED BY <2>2, <2>5, <2>6
<1> QED BY <1>1, <1>2

\* Before a step and after it.
LEMMA LastStays ==
    ASSUME OffersAssumption, InTurn, \A o \in F!Offers : (route'[o].pc = "idle") <=> (route[o].pc = "idle")
    PROVE  F!Last' = F!Last
<1>1. PICK n : n = F!Last
  OBVIOUS
<1>2. PICK r : r = route'
  OBVIOUS
<1>3. n \in 0..MaxOffers /\ \A o \in F!Offers : r[o].pc = "idle" <=> n < o
  BY <1>1, <1>2 DEF InTurn
<1>4. F!Last' = IF \A o \in F!Offers : r[o].pc = "idle" THEN 0
                ELSE CHOOSE o \in F!Offers : /\ ~(r[o].pc = "idle")
                                             /\ \A p \in F!Offers : ~(r[p].pc = "idle") => p <= o
  BY <1>2 DEF F!Last, F!At, F!Offers
<1> QED BY <1>1, <1>3, <1>4, LastIs

\* What is true of what has been done is true of more.
LEMMA TruthGrows ==
    ASSUME NEW A, NEW B, A \subseteq B, UNCHANGED <<hasRow, onChain>>
    PROVE  /\ TrueOf(A) \subseteq TrueOf(B) /\ TrueOf(B)' = TrueOf(B)
           /\ \A m : Honest(m, A) => Honest(m, B)'
BY DEF TrueOf, Honest, Complete

\* A step of the route: it does something, says so, and goes on if anybody listens.
LEMMA DoesKeeps ==
    ASSUME OffersAssumption, OfferInv, NEW o \in F!Offers, NEW d \in SUBSET Things,
           NEW pc \in Phases \ {"idle"}, NEW said, F!Does(o, d, pc, said),
           route[o].pc # "idle", said \in Seq(TrueOf(route[o].done \cup d)),
           pc \in {"issuer", "investor", "table"} => "kyc" \in route[o].done \cup d,
           pc \in {"investor", "table"} => "issuer" \in route[o].done \cup d,
           pc = "table" => "investor" \in route[o].done \cup d
    PROVE  OfferInv'
<1>1. PICK D : D = route[o].done
  OBVIOUS
<1>2. PICK q : q = IF link[o] = "cancelled" THEN "over" ELSE pc
  OBVIOUS
<1>3. PICK E : E = D \cup d
  OBVIOUS
<1>4. OfferTypes /\ ServedOK(o) /\ InTurn /\ FormOK /\ \A p \in F!Offers : ServedOK(p)
  BY DEF OfferInv
<1>5. /\ route' = [route EXCEPT ![o] = [pc |-> q, done |-> E]]
      /\ events' = IF link[o] = "open" THEN [events EXCEPT ![o] = @ \o said] ELSE events
      /\ UNCHANGED <<hasRow, onChain, link, current, steps, result>>
  <2>1. route' = [route EXCEPT ![o] = [pc |-> q, done |-> @.done \cup d]]
    BY <1>2 DEF F!Does
  <2>2. /\ events' = IF link[o] = "open" THEN [events EXCEPT ![o] = @ \o said] ELSE events
        /\ UNCHANGED <<hasRow, onChain, link, current, steps, result>>
    BY DEF F!Does, F!page
  <2>3. o \in DOMAIN route
    BY <1>4 DEF OfferTypes
  <2> QED BY <1>1, <1>3, <2>1, <2>2, <2>3
<1>6. D \in SUBSET Things /\ E \in SUBSET Things /\ D \subseteq E /\ q \in Phases \ {"idle"}
  <2>1. route[o] \in [pc : Phases, done : SUBSET Things]
    BY <1>4 DEF OfferTypes
  <2> QED BY <1>1, <1>2, <1>3, <2>1 DEF Phases
<1>7. OfferTypes'
  <2>1. [pc |-> q, done |-> E] \in [pc : Phases, done : SUBSET Things]
    BY <1>6
  <2>2. route' \in [F!Offers -> [pc : Phases, done : SUBSET Things]]
    BY <1>4, <1>5, <2>1 DEF OfferTypes
  <2>3. DOMAIN events' = F!Offers
    BY <1>4, <1>5 DEF OfferTypes
  <2> QED BY <1>4, <1>5, <2>2, <2>3 DEF OfferTypes, F!Offers
<1>8. /\ route'[o].pc = q /\ route'[o].done = E
      /\ \A p \in F!Offers \ {o} : route'[p] = route[p] /\ events'[p] = events[p]
  BY <1>4, <1>5 DEF OfferTypes
<1>9. /\ TrueOf(D) \subseteq TrueOf(E) /\ TrueOf(E)' = TrueOf(E)
      /\ \A m : Honest(m, D) => Honest(m, E)'
  BY <1>5, <1>6, TruthGrows
<1>10. events'[o] \in Seq(TrueOf(E))
  <2>1. events[o] \in Seq(TrueOf(E))
    BY <1>1, <1>4, <1>9, SeqMonotonic DEF ServedOK
  <2>2. said \in Seq(TrueOf(E))
    BY <1>1, <1>3
  <2>3. events[o] \o said \in Seq(TrueOf(E))
    BY <2>1, <2>2, ConcatProperties
  <2> QED BY <1>4, <1>5, <2>1, <2>3 DEF OfferTypes
<1>11. ASSUME NEW p \in F!Offers PROVE ServedOK(p)'
  <2>1. CASE p = o
    <3>1. events'[o] \in Seq(TrueOf(E)')
      BY <1>9, <1>10
    <3>2. TrueOf(route[o].done)' = TrueOf(E)'
      BY <1>8 DEF TrueOf, Complete
    <3>3. /\ q \in {"issuer", "investor", "table"} => "kyc" \in E
          /\ q \in {"investor", "table"} => "issuer" \in E
          /\ q = "table" => "investor" \in E
      BY <1>1, <1>2, <1>3
    <3> QED BY <1>8, <2>1, <3>1, <3>2, <3>3 DEF ServedOK
  <2>2. CASE p # o
    <3>1. PICK G : G = route[p].done
      OBVIOUS
    <3>2. TrueOf(G)' = TrueOf(G)
      BY <1>5, TruthGrows
    <3>3. TrueOf(route[p].done)' = TrueOf(G)' /\ TrueOf(route[p].done) = TrueOf(G)
      BY <1>8, <2>2, <3>1 DEF TrueOf, Complete
    <3> QED BY <1>4, <1>8, <2>2, <3>1, <3>2, <3>3 DEF ServedOK
  <2> QED BY <2>1, <2>2
<1>12. F!Last' = F!Last
  <2>1. \A p \in F!Offers : (route'[p].pc = "idle") <=> (route[p].pc = "idle")
    BY <1>6, <1>8
  <2> QED BY <1>4, <2>1, LastStays
<1>13. InTurn'
  BY <1>4, <1>5, <1>6, <1>8, <1>12 DEF InTurn, F!Offers
<1>14. FormOK'
  <2>1. CASE F!Last = 0
    BY <1>4, <1>5, <1>12, <2>1 DEF FormOK, F!Blank, F!CHECK, F!FINALISE
  <2>2. CASE F!Last # 0
    <3>1. PICK n : n = F!Last
      OBVIOUS
    <3>2. n \in F!Offers /\ Honest(steps, route[n].done)
      BY <1>4, <2>2, <3>1 DEF InTurn, FormOK, F!Offers, OffersAssumption
    <3>3. Honest(steps, route[n].done)'
      <4>1. PICK m : m = steps
        OBVIOUS
      <4>2. PICK G : G = route[n].done
        OBVIOUS
      <4>3. PICK H : H = route'[n].done
        OBVIOUS
      <4>4. G \subseteq H
        BY <1>1, <1>6, <1>8, <3>2, <4>2, <4>3
      <4>5. Honest(m, H)'
        BY <1>5, <3>2, <4>1, <4>2, <4>4, TruthGrows
      <4> QED BY <1>5, <4>1, <4>3, <4>5 DEF Honest, Complete
    <3>4. F!Last' = n
      BY <1>12, <3>1
    <3>5. Honest(steps, route[F!Last].done)'
      BY <3>3, <3>4
    <3> QED BY <1>4, <1>5, <2>2, <3>1, <3>4, <3>5 DEF FormOK
  <2> QED BY <2>1, <2>2
<1> QED BY <1>7, <1>11, <1>13, <1>14 DEF OfferInv, F!Offers

\* One thing to say, and two.
LEMMA SaysIs ==
    ASSUME NEW D, NEW a \in D, NEW b \in D
    PROVE  <<a>> \in Seq(D) /\ <<a, b>> \in Seq(D)
OBVIOUS

\* The route.
LEMMA ServeKeeps ==
    ASSUME OffersAssumption, OfferInv, NEW o \in F!Offers, F!Serve(o)
    PROVE  OfferInv'
<1>1. PICK D : D = route[o].done
  OBVIOUS
<1>2. PICK p : p = route[o].pc
  OBVIOUS
<1>3. /\ p \in {"issuer", "investor", "table"} => "kyc" \in D
      /\ p \in {"investor", "table"} => "issuer" \in D
      /\ p = "table" => "investor" \in D
      /\ D \in SUBSET Things /\ p \in Phases
  BY <1>1, <1>2 DEF OfferInv, OfferTypes, ServedOK
<1> DEFINE Goes1(d, pc, said) ==
             /\ F!Does(o, d, pc, said) /\ p # "idle"
             /\ d \in SUBSET Things /\ pc \in Phases \ {"idle"}
             /\ said \in Seq(TrueOf(D \cup d))
             /\ pc \in {"issuer", "investor", "table"} => "kyc" \in D \cup d
             /\ pc \in {"investor", "table"} => "issuer" \in D \cup d
             /\ pc = "table" => "investor" \in D \cup d
<1>4. ASSUME NEW d, NEW pc, NEW said, Goes1(d, pc, said) PROVE OfferInv'
  BY <1>1, <1>2, <1>4, DoesKeeps
<1>5. \A d : {"checking", "someVerified", "allVerified", "submitting", "submitted", "waiting",
              "registering", "error"} \subseteq TrueOf(d)
  BY DEF TrueOf, Said
<1>6. CASE F!Begin(o)
  <2>1. F!Does(o, {}, "kyc", <<"checking">>) /\ p = "begin"
    BY <1>2, <1>6 DEF F!Begin, F!At
  <2>2. <<"checking">> \in Seq(TrueOf(D \cup {}))
    BY <1>5, SaysIs
  <2>3. Goes1({}, "kyc", <<"checking">>)
    BY <2>1, <2>2 DEF Phases
  <2> QED BY <1>4, <2>3
<1>7. CASE F!Fallback(o) \/ F!UpsertToken(o)
  <2>1. F!Does(o, F!Saved, "over", <<"done">>) /\ p # "idle" /\ (p = "table" \/ ~onChain)
    BY <1>2, <1>7 DEF F!Fallback, F!UpsertToken, F!At
  <2>2. PICK d : d = F!Saved
    OBVIOUS
  <2>3. d \in SUBSET Things /\ (hasRow => "table" \in d)
    BY <2>2 DEF F!Saved, Things
  <2>4. Complete(D \cup d)
    BY <1>3, <2>1, <2>3 DEF Complete
  <2>5. "done" \in TrueOf(D \cup d)
    BY <2>4 DEF TrueOf, Said
  <2>6. <<"done">> \in Seq(TrueOf(D \cup d))
    BY <2>5, SaysIs
  <2>7. Goes1(d, "over", <<"done">>)
    BY <2>1, <2>2, <2>3, <2>6 DEF Phases
  <2> QED BY <1>4, <2>7
<1>8. CASE F!IsKyc(o)
  <2>1. \/ p = "kyc" /\ F!Does(o, {"kyc"}, "issuer", <<"allVerified", "registering">>)
        \/ p = "kyc" /\ F!Does(o, {}, "submit", <<"someVerified", "submitting">>)
    BY <1>2, <1>8 DEF F!IsKyc, F!At
  <2>2. /\ <<"allVerified", "registering">> \in Seq(TrueOf(D \cup {"kyc"}))
        /\ <<"someVerified", "submitting">> \in Seq(TrueOf(D \cup {}))
    BY <1>5, SaysIs
  <2>3. \/ Goes1({"kyc"}, "issuer", <<"allVerified", "registering">>)
        \/ Goes1({}, "submit", <<"someVerified", "submitting">>)
    BY <2>1, <2>2 DEF Phases, Things
  <2> QED BY <1>4, <2>3
<1>9. CASE F!SubmitSetKyc(o)
  <2>1. F!Does(o, {}, "confirm", <<"submitted", "waiting">>) /\ p = "submit"
    BY <1>2, <1>9 DEF F!SubmitSetKyc, F!At
  <2>2. <<"submitted", "waiting">> \in Seq(TrueOf(D \cup {}))
    BY <1>5, SaysIs
  <2>3. Goes1({}, "confirm", <<"submitted", "waiting">>)
    BY <2>1, <2>2 DEF Phases
  <2> QED BY <1>4, <2>3
<1>10. CASE F!WaitForDeploy(o)
  <2>1. F!Does(o, {"kyc"}, "issuer", <<"confirmed", "registering">>) /\ p = "confirm"
    BY <1>2, <1>10 DEF F!WaitForDeploy, F!At
  <2>2. "confirmed" \in TrueOf(D \cup {"kyc"})
    BY DEF TrueOf, Said
  <2>3. <<"confirmed", "registering">> \in Seq(TrueOf(D \cup {"kyc"}))
    BY <1>5, <2>2, SaysIs
  <2>4. Goes1({"kyc"}, "issuer", <<"confirmed", "registering">>)
    BY <2>1, <2>3 DEF Phases, Things
  <2> QED BY <1>4, <2>4
<1>11. CASE F!RegisterIssuer(o)
  <2>1. F!Does(o, {"issuer"}, "investor", <<"issuer">>) /\ p = "issuer"
    BY <1>2, <1>11 DEF F!RegisterIssuer, F!At
  <2>2. "issuer" \in TrueOf(D \cup {"issuer"})
    BY DEF TrueOf, Said
  <2>3. <<"issuer">> \in Seq(TrueOf(D \cup {"issuer"}))
    BY <2>2, SaysIs
  <2>4. Goes1({"issuer"}, "investor", <<"issuer">>)
    BY <1>3, <2>1, <2>3 DEF Phases, Things
  <2> QED BY <1>4, <2>4
<1>12. CASE F!RegisterInvestor(o)
  <2>1. F!Does(o, {"investor"}, "table", <<"investor">>) /\ p = "investor"
    BY <1>2, <1>12 DEF F!RegisterInvestor, F!At
  <2>2. "investor" \in TrueOf(D \cup {"investor"})
    BY <1>3, <2>1 DEF TrueOf, Said
  <2>3. <<"investor">> \in Seq(TrueOf(D \cup {"investor"}))
    BY <2>2, SaysIs
  <2>4. Goes1({"investor"}, "table", <<"investor">>)
    BY <1>3, <2>1, <2>3 DEF Phases, Things
  <2> QED BY <1>4, <2>4
<1>13. CASE F!Throws(o)
  <2>1. F!Does(o, {}, "over", <<"error">>) /\ p # "idle"
    BY <1>2, <1>13 DEF F!Throws
  <2>2. <<"error">> \in Seq(TrueOf(D \cup {}))
    BY <1>5, SaysIs
  <2>3. Goes1({}, "over", <<"error">>)
    BY <2>1, <2>2 DEF Phases
  <2> QED BY <1>4, <2>3
<1> QED BY <1>6, <1>7, <1>8, <1>9, <1>10, <1>11, <1>12, <1>13 DEF F!Serve

\* A step that starts no offer and does nothing: the form and what is on its way.
LEMMA FormKeeps ==
    ASSUME OffersAssumption, OfferInv, UNCHANGED <<hasRow, onChain, route>>,
           DOMAIN events' = F!Offers,
           \A o \in F!Offers : events'[o] \in Seq(TrueOf(route[o].done)),
           steps' \in [1..5 -> StepMarks], result' \in {"none", "ok", "error"},
           current' \in {0, current},
           current' # 0 => result' = "none",
           result' = "ok" => steps'[5] = "done",
           result' = "error" => \A s \in 1..5 : steps'[s] # "active",
           F!Last = 0 => steps' = F!Blank /\ result' = "none",
           F!Last # 0 => Honest(steps', route[F!Last].done)
    PROVE  OfferInv'
<1>1. OfferTypes /\ InTurn /\ \A o \in F!Offers : ServedOK(o)
  BY DEF OfferInv
<1>2. F!Last' = F!Last
  BY <1>1, LastStays
<1>3. OfferTypes'
  BY <1>1 DEF OfferTypes, F!Offers
<1>4. ASSUME NEW o \in F!Offers PROVE ServedOK(o)'
  <2>1. TrueOf(route[o].done)' = TrueOf(route[o].done)
    BY DEF TrueOf, Complete
  <2> QED BY <1>1, <2>1 DEF ServedOK
<1>5. InTurn'
  BY <1>1, <1>2 DEF InTurn, F!Offers
<1>6. FormOK'
  <2>1. PICK n : n = F!Last
    OBVIOUS
  <2>2. n # 0 => Honest(steps, route[n].done)'
    BY <2>1 DEF Honest, Complete
  <2>3. F!Last' = n
    BY <1>2, <2>1
  <2>4. F!Last' # 0 => Honest(steps, route[F!Last].done)'
    BY <2>2, <2>3
  <2>5. F!Last' = 0 => steps' = F!Blank' /\ result' = "none"
    BY <2>1, <2>3 DEF F!Blank, F!CHECK, F!FINALISE
  <2> QED BY <2>4, <2>5 DEF FormOK
<1> QED BY <1>3, <1>4, <1>5, <1>6 DEF OfferInv, F!Offers

\* Halting the steps that are active claims nothing new.
LEMMA HaltedIs ==
    ASSUME steps \in [1..5 -> StepMarks]
    PROVE  /\ F!Halted \in [1..5 -> StepMarks] /\ \A s \in 1..5 : F!Halted[s] # "active"
           /\ \A d : Honest(steps, d) => Honest(F!Halted, d)
<1>1. \A s \in 1..5 : F!Halted[s] = IF steps[s] = "active" THEN "error" ELSE steps[s]
  BY DEF F!Halted, F!CHECK, F!FINALISE
<1>2. F!Halted \in [1..5 -> StepMarks]
  BY DEF F!Halted, F!CHECK, F!FINALISE, StepMarks
<1>3. \A s \in 1..5 : F!Halted[s] # "active" /\ (F!Halted[s] = "done" => steps[s] = "done")
  BY <1>1
<1>4. 3 \in 1..5 /\ 4 \in 1..5 /\ 5 \in 1..5
  OBVIOUS
<1> QED BY <1>2, <1>3, <1>4 DEF Honest

\* A step that is marked claims what the event that marks it says.
LEMMA MarkIs ==
    ASSUME steps \in [1..5 -> StepMarks], NEW s \in 1..5, NEW mark \in StepMarks
    PROVE  /\ F!markStep(s, mark) \in [1..5 -> StepMarks]
           /\ \A i \in 1..5 : F!markStep(s, mark)[i] = "done" => steps[i] = "done" \/ (i = s /\ mark = "done")
<1>1. \A i \in 1..5 : F!markStep(s, mark)[i] = IF i = s THEN mark
                                               ELSE IF i = s + 1 /\ mark = "done" THEN "active" ELSE steps[i]
  BY DEF F!markStep, F!CHECK, F!FINALISE
<1>2. F!markStep(s, mark) \in [1..5 -> StepMarks]
  BY DEF F!markStep, F!CHECK, F!FINALISE, StepMarks
<1> QED BY <1>1, <1>2

\* The form believes what is true.
LEMMA MarkedIs ==
    ASSUME steps \in [1..5 -> StepMarks], NEW d, NEW e \in TrueOf(d), Honest(steps, d)
    PROVE  F!Marked(e) \in [1..5 -> StepMarks] /\ Honest(F!Marked(e), d)
<1>1. 1 \in 1..5 /\ 2 \in 1..5 /\ 3 \in 1..5 /\ 4 \in 1..5 /\ 5 \in 1..5
  OBVIOUS
<1>2. {"done", "skipped", "active"} \subseteq StepMarks
  BY DEF StepMarks
<1>3. e \in Said
  BY DEF TrueOf
<1>4. ASSUME NEW s \in 1..5, NEW mark \in StepMarks,
             mark = "done" => /\ s = 3 => "kyc" \in d
                              /\ s = 4 => "issuer" \in d
                              /\ s = 5 => Complete(d)
      PROVE  F!markStep(s, mark) \in [1..5 -> StepMarks] /\ Honest(F!markStep(s, mark), d)
  BY <1>1, <1>4, MarkIs DEF Honest
<1> USE DEF F!CHECK, F!WHITELIST, F!CONFIRM, F!SHARES, F!FINALISE
<1>5. CASE e \in {"checking", "someVerified"}
  BY <1>1, <1>2, <1>4, <1>5 DEF F!Marked
<1>6. CASE e = "allVerified"
  BY <1>1, <1>2, <1>4, <1>6 DEF F!Marked
<1>7. CASE e = "submitting"
  BY <1>1, <1>2, <1>4, <1>7 DEF F!Marked
<1>8. CASE e = "submitted"
  BY <1>1, <1>2, <1>4, <1>8 DEF F!Marked
<1>9. CASE e = "waiting"
  BY <1>1, <1>2, <1>4, <1>9 DEF F!Marked
<1>10. CASE e = "confirmed"
  <2>1. "kyc" \in d
    BY <1>10 DEF TrueOf
  <2> QED BY <1>1, <1>2, <1>4, <1>10, <2>1 DEF F!Marked
<1>11. CASE e = "registering"
  BY <1>1, <1>2, <1>4, <1>11 DEF F!Marked
<1>12. CASE e \in {"issuer", "investor"}
  <2>1. "issuer" \in d
    BY <1>12 DEF TrueOf
  <2> QED BY <1>1, <1>2, <1>4, <1>12, <2>1 DEF F!Marked
<1>13. CASE e = "done"
  <2>1. Complete(d)
    BY <1>13 DEF TrueOf
  <2> QED BY <1>1, <1>2, <1>4, <1>13, <2>1 DEF F!Marked
<1>14. CASE e = "error"
  <2>1. F!Marked(e) = F!Halted
    BY <1>14 DEF F!Marked
  <2> QED BY <2>1, HaltedIs
<1> QED BY <1>3, <1>5, <1>6, <1>7, <1>8, <1>9, <1>10, <1>11, <1>12, <1>13, <1>14 DEF Said

\* The page, the stream and the rest of the world.
LEMMA PageKeeps ==
    ASSUME OffersAssumption, OfferInv,
           \/ F!Receive \/ F!StreamEnds \/ F!Leave \/ F!Revoked
           \/ \E o \in F!Offers : F!Breaks(o) \/ F!Cancelled(o)
           \/ UNCHANGED F!vars
    PROVE  OfferInv'
<1>1. OfferTypes /\ InTurn /\ FormOK /\ \A o \in F!Offers : ServedOK(o)
  BY DEF OfferInv
<1>2. /\ DOMAIN events = F!Offers /\ steps \in [1..5 -> StepMarks] /\ result \in {"none", "ok", "error"}
      /\ \A o \in F!Offers : events[o] \in Seq(TrueOf(route[o].done))
  BY <1>1 DEF OfferTypes, ServedOK
<1>3. /\ current # 0 => result = "none" /\ current = F!Last /\ current \in F!Offers
      /\ result = "ok" => steps[5] = "done"
      /\ result = "error" => \A s \in 1..5 : steps[s] # "active"
      /\ F!Last = 0 => steps = F!Blank /\ result = "none"
      /\ F!Last # 0 => Honest(steps, route[F!Last].done)
  BY <1>1 DEF InTurn, FormOK, F!Offers, OffersAssumption
<1>4. <<>> \in Seq(TrueOf({})) /\ \A D : <<>> \in Seq(D)
  OBVIOUS
<1>5. CASE F!Receive
  <2>1. PICK n : n = current
    OBVIOUS
  <2>2. PICK D : D = route[n].done
    OBVIOUS
  <2>3. PICK e : e = Head(events[n])
    OBVIOUS
  <2>4. /\ n \in F!Offers /\ n # 0 /\ n = F!Last /\ events[n] # <<>>
        /\ steps' = F!Marked(e) /\ events' = [events EXCEPT ![n] = Tail(@)]
        /\ \/ e = "error" /\ result' = "error" /\ current' = 0
           \/ e # "error" /\ result' = result /\ current' = current
        /\ UNCHANGED <<hasRow, onChain, route>>
    BY <1>3, <1>5, <2>1, <2>3 DEF F!Receive, F!chain
  <2>5. e \in TrueOf(D) /\ Tail(events[n]) \in Seq(TrueOf(D))
    BY <1>2, <2>2, <2>3, <2>4, HeadTailProperties
  <2>6. F!Marked(e) \in [1..5 -> StepMarks] /\ Honest(F!Marked(e), D)
    BY <1>2, <1>3, <2>2, <2>4, <2>5, MarkedIs
  <2>7. e = "error" => F!Marked(e) = F!Halted /\ \A s \in 1..5 : F!Halted[s] # "active"
    <3>1. e = "error" => F!Marked(e) = F!Halted
      BY DEF F!Marked
    <3> QED BY <1>2, <3>1, HaltedIs
  <2>8. /\ steps' \in [1..5 -> StepMarks] /\ Honest(steps', D)
        /\ result' = "error" => \A s \in 1..5 : steps'[s] # "active"
        /\ result' \in {"none", "error"} /\ (current' # 0 => result' = "none") /\ current' \in {0, current}
    <3>1. CASE e = "error"
      BY <2>4, <2>6, <2>7, <3>1
    <3>2. CASE e # "error"
      BY <1>3, <2>1, <2>4, <2>6, <3>2
    <3> QED BY <3>1, <3>2
  <2>9. /\ DOMAIN events' = F!Offers
        /\ \A o \in F!Offers : events'[o] \in Seq(TrueOf(route[o].done))
    BY <1>2, <2>2, <2>4, <2>5
  <2>10. Honest(steps', route[F!Last].done) /\ F!Last # 0
    BY <2>2, <2>4, <2>8
  <2> QED BY <2>4, <2>8, <2>9, <2>10, FormKeeps
<1>6. CASE F!StreamEnds
  <2>1. /\ current # 0 /\ current' = 0 /\ UNCHANGED <<hasRow, onChain, route, events>>
        /\ result' \in {"ok", "error"} /\ (result' = "ok" => steps[5] = "done")
        /\ steps' = IF result' = "ok" THEN steps ELSE F!Halted
    BY <1>6 DEF F!StreamEnds, F!chain, F!FINALISE
  <2>2. F!Last # 0 /\ Honest(steps, route[F!Last].done)
    BY <1>3, <2>1
  <2>3. /\ F!Halted \in [1..5 -> StepMarks] /\ Honest(F!Halted, route[F!Last].done)
        /\ \A s \in 1..5 : F!Halted[s] # "active"
    BY <1>2, <2>2, HaltedIs
  <2>4. /\ steps' \in [1..5 -> StepMarks] /\ Honest(steps', route[F!Last].done)
        /\ result' = "ok" => steps'[5] = "done"
        /\ result' = "error" => \A s \in 1..5 : steps'[s] # "active"
    <3>1. CASE result' = "ok"
      BY <1>2, <2>1, <2>2, <3>1
    <3>2. CASE result' # "ok"
      BY <2>1, <2>3, <3>2
    <3> QED BY <3>1, <3>2
  <2> QED BY <1>2, <2>1, <2>2, <2>4, FormKeeps
<1>7. CASE F!Leave
  <2>1. /\ current' = 0 /\ steps' = F!Blank /\ result' = "none"
        /\ UNCHANGED <<hasRow, onChain, route>>
        /\ \/ events' = events
           \/ events' = [events EXCEPT ![current] = <<>>]
    BY <1>7 DEF F!Leave, F!chain
  <2>2. /\ F!Blank \in [1..5 -> StepMarks] /\ \A d : Honest(F!Blank, d)
    BY DEF F!Blank, StepMarks, Honest, F!CHECK, F!FINALISE
  <2>3. /\ DOMAIN events' = F!Offers
        /\ \A o \in F!Offers : events'[o] \in Seq(TrueOf(route[o].done))
    BY <1>2, <1>4, <2>1
  <2> QED BY <2>1, <2>2, <2>3, FormKeeps
<1>8. ASSUME NEW o \in F!Offers, F!Breaks(o) \/ F!Cancelled(o) PROVE OfferInv'
  <2>1. /\ UNCHANGED <<hasRow, onChain, route, current, steps, result>>
        /\ events' = events \/ events' = [events EXCEPT ![o] = <<>>]
    BY <1>8 DEF F!Breaks, F!Cancelled, F!chain, F!page
  <2>2. /\ DOMAIN events' = F!Offers
        /\ \A p \in F!Offers : events'[p] \in Seq(TrueOf(route[p].done))
    BY <1>2, <1>4, <2>1
  <2> QED BY <1>2, <1>3, <2>1, <2>2, FormKeeps
<1>9. CASE F!Revoked \/ UNCHANGED F!vars
  <2>1. UNCHANGED <<hasRow, onChain, route, events, current, steps, result>>
    BY <1>9 DEF F!Revoked, F!vars, F!page
  <2> QED BY <1>2, <1>3, <2>1, FormKeeps
<1> QED BY <1>5, <1>6, <1>7, <1>8, <1>9

\* A new offer: the first that was not started becomes the last that was.
LEMMA OfferStarts ==
    ASSUME OffersAssumption, OfferInv, NEW o \in F!Offers, F!HandleOffer(o)
    PROVE  OfferInv'
<1>1. OfferTypes /\ InTurn /\ FormOK /\ \A p \in F!Offers : ServedOK(p)
  BY DEF OfferInv
<1>2. /\ route[o].pc = "idle" /\ \A p \in F!Offers : p < o => route[p].pc # "idle"
      /\ current' = o /\ steps' = F!Started /\ result' = "none"
      /\ route' = [route EXCEPT ![o].pc = "begin"]
      /\ UNCHANGED <<hasRow, onChain, events>>
  BY DEF F!HandleOffer, F!At, F!chain
<1>3. o \in Nat /\ o # 0 /\ o \in 0..MaxOffers
  BY DEF F!Offers, OffersAssumption
<1>4. route[o] \in [pc : Phases, done : SUBSET Things]
  BY <1>1 DEF OfferTypes
<1>5. /\ route' \in [F!Offers -> [pc : Phases, done : SUBSET Things]]
      /\ \A p \in F!Offers : route'[p].done = route[p].done
                             /\ route'[p].pc = IF p = o THEN "begin" ELSE route[p].pc
  <2>1. [route[o] EXCEPT !.pc = "begin"] \in [pc : Phases, done : SUBSET Things]
    BY <1>4 DEF Phases
  <2>2. route' = [route EXCEPT ![o] = [route[o] EXCEPT !.pc = "begin"]]
    BY <1>2
  <2> QED BY <1>1, <1>4, <2>1, <2>2 DEF OfferTypes
<1>6. /\ F!Started \in [1..5 -> StepMarks] /\ \A d : Honest(F!Started, d)'
  BY DEF F!Started, StepMarks, Honest, F!CHECK, F!FINALISE
<1>7. OfferTypes'
  BY <1>1, <1>2, <1>5, <1>6 DEF OfferTypes, F!Offers
<1>8. ASSUME NEW p \in F!Offers PROVE ServedOK(p)'
  <2>1. TrueOf(route[p].done)' = TrueOf(route[p].done)
    BY <1>2, <1>5 DEF TrueOf, Complete
  <2>2. route'[p].pc \in {"begin", route[p].pc}
    BY <1>5
  <2> QED BY <1>1, <1>2, <1>5, <2>1, <2>2 DEF ServedOK
<1>9. \A p \in F!Offers : route'[p].pc = "idle" <=> o < p
  <2> TAKE p \in F!Offers
  <2>1. p \in Nat /\ F!Last \in Nat
    BY <1>1 DEF F!Offers, InTurn, OffersAssumption
  <2>2. (route[p].pc = "idle" <=> F!Last < p) /\ F!Last < o
    BY <1>1, <1>2 DEF InTurn
  <2>3. p < o => route[p].pc # "idle"
    BY <1>2
  <2>4. o < p => route[p].pc = "idle"
    BY <1>3, <2>1, <2>2
  <2> QED BY <1>3, <1>5, <2>1, <2>3, <2>4
<1>10. F!Last' = o
  <2>1. PICK r : r = route'
    OBVIOUS
  <2>2. F!Last' = IF \A p \in F!Offers : r[p].pc = "idle" THEN 0
                  ELSE CHOOSE p \in F!Offers : /\ ~(r[p].pc = "idle")
                                               /\ \A i \in F!Offers : ~(r[i].pc = "idle") => i <= p
    BY <2>1 DEF F!Last, F!At, F!Offers
  <2>3. \A p \in F!Offers : r[p].pc = "idle" <=> o < p
    BY <1>9, <2>1
  <2> QED BY <1>3, <2>2, <2>3, LastIs
<1>11. InTurn'
  BY <1>2, <1>3, <1>9, <1>10 DEF InTurn, F!Offers
<1>12. FormOK'
  <2>1. PICK d : d = route'[F!Last'].done
    OBVIOUS
  <2>2. Honest(F!Started, d)'
    BY <1>6
  <2>3. Honest(steps, route[F!Last].done)'
    BY <1>2, <2>1, <2>2 DEF Honest, Complete, F!Started
  <2>4. current' # 0 /\ result' = "none" /\ F!Last' # 0
    BY <1>2, <1>3, <1>10
  <2> QED BY <2>3, <2>4 DEF FormOK
<1> QED BY <1>7, <1>8, <1>11, <1>12 DEF OfferInv, F!Offers

\* The offer form never claims what was not done, however the stream breaks, the page
\* is loaded again and the route fails, and after an error no step is left spinning
\* (handleOffer and markStep of assets/[id]/page.tsx, and the route offer-shares).
THEOREM FormIsHonest ==
    ASSUME OffersAssumption
    PROVE  F!Spec => []ShownIsDone
<1>1. F!Init => OfferInv
  <2> SUFFICES ASSUME F!Init PROVE OfferInv
    OBVIOUS
  <2>1. /\ route = [o \in F!Offers |-> [pc |-> "idle", done |-> {}]]
        /\ events = [o \in F!Offers |-> <<>>]
        /\ current = 0 /\ steps = F!Blank /\ result = "none"
    BY DEF F!Init
  <2>2. F!Last = 0
    BY <2>1 DEF F!Last, F!At
  <2>3. F!Blank \in [1..5 -> StepMarks]
    BY DEF F!Blank, StepMarks, F!CHECK, F!FINALISE
  <2>4. OfferTypes
    BY <2>1, <2>3 DEF OfferTypes, Phases, Things
  <2>5. InTurn
    BY <2>1, <2>2 DEF InTurn, F!Offers, OffersAssumption
  <2>6. FormOK
    BY <2>1, <2>2 DEF FormOK
  <2>7. \A o \in F!Offers : ServedOK(o)
    BY <2>1 DEF ServedOK
  <2> QED BY <2>4, <2>5, <2>6, <2>7 DEF OfferInv
<1>2. OfferInv /\ [F!Next]_F!vars => OfferInv'
  <2> SUFFICES ASSUME OfferInv, [F!Next]_F!vars PROVE OfferInv'
    OBVIOUS
  <2>1. ASSUME NEW o \in F!Offers, F!Serve(o) PROVE OfferInv'
    BY <2>1, ServeKeeps
  <2>2. ASSUME NEW o \in F!Offers, F!HandleOffer(o) PROVE OfferInv'
    BY <2>2, OfferStarts
  <2>3. CASE \/ F!Receive \/ F!StreamEnds \/ F!Leave \/ F!Revoked
             \/ \E o \in F!Offers : F!Breaks(o) \/ F!Cancelled(o)
             \/ UNCHANGED F!vars
    BY <2>3, PageKeeps
  <2> QED BY <2>1, <2>2, <2>3 DEF F!Next
<1>3. OfferInv => ShownIsDone
  <2> SUFFICES ASSUME OfferInv PROVE ShownIsDone
    OBVIOUS
  <2>1. FormOK
    BY DEF OfferInv
  <2>2. CASE F!Last = 0
    BY <2>1, <2>2 DEF FormOK, ShownIsDone, F!ShownIsDone, F!Blank, F!CHECK, F!CONFIRM, F!SHARES, F!FINALISE
  <2>3. CASE F!Last # 0
    BY <2>1, <2>3 DEF FormOK, ShownIsDone, F!ShownIsDone, F!Done, Honest, Complete,
                      F!CHECK, F!CONFIRM, F!SHARES, F!FINALISE
  <2> QED BY <2>2, <2>3
<1> QED BY <1>1, <1>2, <1>3, PTL DEF F!Spec

(***************************************************************************)
(* The settings and their page, for any number of pages and requests.      *)
(***************************************************************************)
SettingKeys == {"emailReports", "autonomousYield"}
Toggles == [SettingKeys -> BOOLEAN]
SettingsForm == [phase : {"asking", "answered", "told", "untold"}, shown : Toggles, answer : Toggles,
                 toggled : SUBSET SettingKeys, saving : BOOLEAN, overtaken : BOOLEAN]
SaveRequest == [pc : {"writing", "over"}, page : Nat, body : Toggles, next : Nat \ {0},
                toggled : SUBSET SettingKeys, waited : BOOLEAN, informed : BOOLEAN, overtaken : BOOLEAN]

SettingsTypes ==
    /\ DOMAIN stored \subseteq SettingKeys /\ \A k \in DOMAIN stored : stored[k] \in BOOLEAN
    /\ form \in Seq(SettingsForm) /\ save \in Seq(SaveRequest)

\* A page knows what is stored, but for what its user has set, until it is overtaken.
PageTrue(p, rows) ==
    ~p.overtaken => /\ p.phase = "answered" => p.answer = rows
                    /\ p.phase = "told" => \A k \in SettingKeys \ p.toggled : p.shown[k] = rows[k]

\* A request comes of a page, says what that page says of what nobody has set there,
\* and knows what is stored, but for what it is to set, until it is overtaken.
RequestTrue(r, rows) ==
    /\ r.page \in 1..Len(form)
    /\ r.informed =>
          /\ form[r.page].phase = "told" /\ r.toggled \subseteq form[r.page].toggled
          /\ \A k \in SettingKeys \ form[r.page].toggled : r.body[k] = form[r.page].shown[k]
          /\ ~r.overtaken => \A k \in SettingKeys \ r.toggled : r.body[k] = rows[k]

SettingsInv ==
    /\ SettingsTypes
    /\ \A f \in 1..Len(form) : PageTrue(form[f], S!Overlay(stored))
    /\ \A s \in 1..Len(save) : save[s].pc = "writing" => RequestTrue(save[s], S!Overlay(stored))

\* What is stored, and what of it changes with one key.
LEMMA OverlayIs ==
    ASSUME SettingsTypes
    PROVE  /\ S!Overlay(stored) \in Toggles /\ DOMAIN S!DEFAULTS = SettingKeys
           /\ DOMAIN S!Overlay(stored) = SettingKeys
<1>1. DOMAIN S!DEFAULTS = SettingKeys /\ \A k \in SettingKeys : S!DEFAULTS[k] \in BOOLEAN
  BY DEF S!DEFAULTS, SettingKeys
<1>2. \A k \in SettingKeys : (IF k \in DOMAIN stored THEN stored[k] ELSE S!DEFAULTS[k]) \in BOOLEAN
  BY <1>1 DEF SettingsTypes
<1>3. S!Overlay(stored) = [k \in SettingKeys |-> IF k \in DOMAIN stored THEN stored[k] ELSE S!DEFAULTS[k]]
  BY <1>1 DEF S!Overlay
<1> QED BY <1>1, <1>2, <1>3 DEF Toggles

LEMMA OneKeyWritten ==
    ASSUME NEW k \in SettingKeys, NEW b,
           stored' = [j \in DOMAIN stored \cup {k} |-> IF j = k THEN b ELSE stored[j]]
    PROVE  /\ S!Overlay(stored)'[k] = b
           /\ \A j \in SettingKeys \ {k} : S!Overlay(stored)'[j] = S!Overlay(stored)[j]
<1>1. DOMAIN S!DEFAULTS = SettingKeys
  BY DEF S!DEFAULTS, SettingKeys
<1>2. /\ DOMAIN stored' = DOMAIN stored \cup {k} /\ stored'[k] = b
      /\ \A j \in DOMAIN stored \ {k} : stored'[j] = stored[j]
  OBVIOUS
<1>3. \A j \in SettingKeys : S!Overlay(stored)'[j] = IF j \in DOMAIN stored' THEN stored'[j] ELSE S!DEFAULTS[j]
  BY <1>1 DEF S!Overlay
<1>4. \A j \in SettingKeys : S!Overlay(stored)[j] = IF j \in DOMAIN stored THEN stored[j] ELSE S!DEFAULTS[j]
  BY <1>1 DEF S!Overlay
<1> QED BY <1>2, <1>3, <1>4

\* One page or one request replaced by another.
LEMMA OneReplaced ==
    ASSUME NEW D, NEW q \in Seq(D), NEW n \in DOMAIN q, NEW e \in D
    PROVE  /\ [q EXCEPT ![n] = e] \in Seq(D) /\ Len([q EXCEPT ![n] = e]) = Len(q)
           /\ DOMAIN q = 1..Len(q)
           /\ \A i \in 1..Len(q) : [q EXCEPT ![n] = e][i] = IF i = n THEN e ELSE q[i]
<1>1. DOMAIN q = 1..Len(q)
  BY LenProperties
<1> QED BY <1>1, ExceptSeq

\* Nothing is written: pages keep what they were told, and requests are of the pages.
LEMMA NothingWritten ==
    ASSUME SettingsInv, stored' = stored, form' \in Seq(SettingsForm), save' \in Seq(SaveRequest),
           1..Len(form) \subseteq 1..Len(form'),
           \A f \in 1..Len(form) : form[f].phase = "told" =>
               /\ form'[f].phase = "told" /\ form[f].toggled \subseteq form'[f].toggled
               /\ \A k \in SettingKeys \ form'[f].toggled : form'[f].shown[k] = form[f].shown[k],
           \A f \in 1..Len(form') : PageTrue(form'[f], S!Overlay(stored)),
           \A s \in 1..Len(save') : save'[s].pc = "writing" =>
               \/ s \in 1..Len(save) /\ save'[s] = save[s]
               \/ \E f \in 1..Len(form') :
                     /\ save'[s].page = f /\ save'[s].body = form'[f].shown
                     /\ save'[s].toggled = form'[f].toggled /\ save'[s].overtaken = form'[f].overtaken
                     /\ save'[s].informed <=> form'[f].phase = "told"
    PROVE  SettingsInv'
<1>1. PICK rows : rows = S!Overlay(stored)
  OBVIOUS
<1>2. S!Overlay(stored)' = rows
  BY <1>1 DEF S!Overlay
<1>3. SettingsTypes'
  BY DEF SettingsInv, SettingsTypes
<1>4. \A f \in 1..Len(form') : PageTrue(form[f], S!Overlay(stored))'
  BY <1>1, <1>2 DEF PageTrue
<1>5. ASSUME NEW s \in 1..Len(save'), save'[s].pc = "writing" PROVE RequestTrue(save[s], S!Overlay(stored))'
  <2>1. PICK r : r = save'[s]
    OBVIOUS
  <2>2. CASE s \in 1..Len(save) /\ r = save[s]
    <3>1. RequestTrue(r, rows)
      BY <1>1, <1>5, <2>1, <2>2 DEF SettingsInv
    <3>2. RequestTrue(r, rows)'
      <4>1. r.page \in 1..Len(form')
        BY <3>1 DEF RequestTrue
      <4>2. ASSUME r.informed
            PROVE  /\ form'[r.page].phase = "told" /\ r.toggled \subseteq form'[r.page].toggled
                   /\ \A k \in SettingKeys \ form'[r.page].toggled : r.body[k] = form'[r.page].shown[k]
                   /\ ~r.overtaken => \A k \in SettingKeys \ r.toggled : r.body[k] = rows[k]
        <5>1. PICK f : f = r.page
          OBVIOUS
        <5>2. /\ f \in 1..Len(form) /\ form[f].phase = "told" /\ r.toggled \subseteq form[f].toggled
              /\ \A k \in SettingKeys \ form[f].toggled : r.body[k] = form[f].shown[k]
              /\ ~r.overtaken => \A k \in SettingKeys \ r.toggled : r.body[k] = rows[k]
          BY <3>1, <4>2, <5>1 DEF RequestTrue
        <5>3. /\ form'[f].phase = "told" /\ form[f].toggled \subseteq form'[f].toggled
              /\ \A k \in SettingKeys \ form'[f].toggled : form'[f].shown[k] = form[f].shown[k]
          BY <5>2
        <5> QED BY <5>1, <5>2, <5>3
      <4> QED BY <4>1, <4>2 DEF RequestTrue
    <3> QED BY <1>2, <2>1, <3>2 DEF RequestTrue
  <2>3. CASE \E f \in 1..Len(form') :
                /\ r.page = f /\ r.body = form'[f].shown
                /\ r.toggled = form'[f].toggled /\ r.overtaken = form'[f].overtaken
                /\ r.informed <=> form'[f].phase = "told"
    <3>1. PICK f \in 1..Len(form') :
                /\ r.page = f /\ r.body = form'[f].shown
                /\ r.toggled = form'[f].toggled /\ r.overtaken = form'[f].overtaken
                /\ r.informed <=> form'[f].phase = "told"
      BY <2>3
    <3>2. PageTrue(form'[f], rows)
      BY <1>1
    <3>3. RequestTrue(r, rows)'
      BY <3>1, <3>2 DEF RequestTrue, PageTrue
    <3> QED BY <1>2, <2>1, <3>3 DEF RequestTrue
  <2> QED BY <1>5, <2>1, <2>2, <2>3
<1> QED BY <1>3, <1>4, <1>5 DEF SettingsInv

\* A function of the numbers up to n is a sequence of length n.
LEMMA FunctionIsSeq ==
    ASSUME NEW D, NEW n \in Nat, NEW q \in [1..n -> D]
    PROVE  q \in Seq(D) /\ Len(q) = n
OBVIOUS

\* One key of one request: all who do not know what it writes are overtaken.
LEMMA KeyWritten ==
    ASSUME SettingsInv, NEW s \in DOMAIN save, S!WriteKey(s) PROVE SettingsInv'
<1>1. SettingsTypes /\ DOMAIN form = 1..Len(form) /\ DOMAIN save = 1..Len(save)
      /\ Len(form) \in Nat /\ Len(save) \in Nat
  BY LenProperties DEF SettingsInv, SettingsTypes
<1>2. PICK r : r = save[s]
  OBVIOUS
<1>3. PICK k : k = S!Keys[r.next]
  OBVIOUS
<1>4. PICK rows : rows = S!Overlay(stored)
  OBVIOUS
<1>5. PICK new : new = S!Overlay(stored)'
  OBVIOUS
<1>6. r \in SaveRequest /\ r.pc = "writing" /\ RequestTrue(r, rows) /\ k \in SettingKeys
  <2>1. r \in SaveRequest /\ r.pc = "writing" /\ r.next <= Len(S!Keys)
    BY <1>1, <1>2, ElementOfSeq DEF S!WriteKey, SettingsTypes
  <2>2. r.next \in 1..2
    BY <2>1 DEF S!Keys, SaveRequest
  <2>3. RequestTrue(r, rows)
    BY <1>1, <1>2, <1>4, <2>1 DEF SettingsInv
  <2> QED BY <1>3, <2>1, <2>2, <2>3 DEF S!Keys, SettingKeys
<1>7. /\ new[k] = r.body[k] /\ \A j \in SettingKeys \ {k} : new[j] = rows[j]
      /\ DOMAIN stored' \subseteq SettingKeys /\ \A j \in DOMAIN stored' : stored'[j] \in BOOLEAN
  <2>1. stored' = [j \in DOMAIN stored \cup {k} |-> IF j = k THEN r.body[k] ELSE stored[j]]
    BY <1>2, <1>3 DEF S!WriteKey
  <2>2. r.body[k] \in BOOLEAN
    BY <1>6 DEF SaveRequest, Toggles
  <2>3. /\ S!Overlay(stored)'[k] = r.body[k]
        /\ \A j \in SettingKeys \ {k} : S!Overlay(stored)'[j] = S!Overlay(stored)[j]
    BY <1>6, <2>1, OneKeyWritten
  <2> QED BY <1>1, <1>4, <1>5, <1>6, <2>1, <2>2, <2>3 DEF SettingsTypes
<1>8. /\ form' = [f \in 1..Len(form) |-> IF S!Overtakes(s, f) THEN [form[f] EXCEPT !.overtaken = TRUE] ELSE form[f]]
      /\ save' = [i \in 1..Len(save) |->
                    IF i = s THEN [r EXCEPT !.next = r.next + 1]
                    ELSE IF save[i].pc = "writing" THEN [save[i] EXCEPT !.overtaken = TRUE] ELSE save[i]]
  BY <1>1, <1>2 DEF S!WriteKey
<1>9. ASSUME NEW f \in 1..Len(form)
      PROVE  /\ form'[f] \in SettingsForm /\ form'[f].phase = form[f].phase
             /\ form'[f].toggled = form[f].toggled /\ form'[f].shown = form[f].shown
             /\ PageTrue(form'[f], new)
  <2>1. PICK p : p = form[f]
    OBVIOUS
  <2>2. p \in SettingsForm /\ PageTrue(p, rows)
    BY <1>1, <1>4, <2>1, ElementOfSeq DEF SettingsInv, SettingsTypes
  <2>3. CASE S!Overtakes(s, f)
    <3>1. form'[f] = [p EXCEPT !.overtaken = TRUE]
      BY <1>8, <2>1, <2>3
    <3>2. /\ form'[f] \in SettingsForm /\ form'[f].phase = p.phase /\ form'[f].overtaken
          /\ form'[f].toggled = p.toggled /\ form'[f].shown = p.shown
      BY <2>2, <3>1 DEF SettingsForm
    <3> QED BY <2>1, <3>2 DEF PageTrue
  <2>4. CASE ~S!Overtakes(s, f)
    <3>1. form'[f] = p
      BY <1>8, <2>1, <2>4
    <3>2. p.phase \in {"answered", "told"} => r.page = f /\ r.informed
      BY <1>2, <2>1, <2>4 DEF S!Overtakes
    <3>3. r.informed => form[r.page].phase = "told"
      BY <1>6 DEF RequestTrue
    <3>4. p.phase # "answered"
      BY <2>1, <3>2, <3>3
    <3>5. ASSUME ~p.overtaken, p.phase = "told", NEW j \in SettingKeys \ p.toggled
          PROVE  p.shown[j] = new[j]
      <4>1. p.shown[j] = rows[j] /\ r.body[j] = p.shown[j]
        BY <1>6, <2>1, <2>2, <3>2, <3>5 DEF PageTrue, RequestTrue
      <4> QED BY <1>7, <4>1
    <3>6. PageTrue(p, new)
      BY <3>4, <3>5 DEF PageTrue
    <3> QED BY <2>1, <2>2, <3>1, <3>6
  <2> QED BY <2>3, <2>4
<1>10. form' \in Seq(SettingsForm) /\ Len(form') = Len(form)
  <2>1. form' \in [1..Len(form) -> SettingsForm]
    BY <1>8, <1>9
  <2> QED BY <1>1, <2>1, FunctionIsSeq
<1>11. ASSUME NEW i \in 1..Len(save)
       PROVE  /\ save'[i] \in SaveRequest
              /\ save'[i].pc = "writing" => RequestTrue(save'[i], new)
  <2>1. PICK q : q = save[i]
    OBVIOUS
  <2>2. q \in SaveRequest
    BY <1>1, <2>1, ElementOfSeq DEF SettingsTypes
  <2>3. q.pc = "writing" => RequestTrue(q, rows)
    BY <1>4, <2>1 DEF SettingsInv
  <2>4. CASE i = s
    <3>1. save'[i] = [r EXCEPT !.next = r.next + 1]
      BY <1>8, <2>4
    <3>2. /\ save'[i] \in SaveRequest /\ save'[i].page = r.page /\ save'[i].body = r.body
          /\ save'[i].toggled = r.toggled /\ save'[i].informed = r.informed /\ save'[i].overtaken = r.overtaken
      BY <1>6, <3>1 DEF SaveRequest
    <3>3. RequestTrue(r, new)
      BY <1>6, <1>7 DEF RequestTrue
    <3>4. RequestTrue(save'[i], new)
      BY <3>2, <3>3 DEF RequestTrue
    <3> QED BY <3>2, <3>4
  <2>5. CASE i # s /\ q.pc = "writing"
    <3>1. save'[i] = [q EXCEPT !.overtaken = TRUE]
      BY <1>8, <2>1, <2>5
    <3>2. /\ save'[i] \in SaveRequest /\ save'[i].page = q.page /\ save'[i].body = q.body
          /\ save'[i].toggled = q.toggled /\ save'[i].informed = q.informed /\ save'[i].overtaken
      BY <2>2, <3>1 DEF SaveRequest
    <3>3. RequestTrue(save'[i], new)
      BY <2>3, <2>5, <3>2 DEF RequestTrue
    <3> QED BY <3>2, <3>3
  <2>6. CASE i # s /\ q.pc # "writing"
    BY <1>8, <2>1, <2>2, <2>6
  <2> QED BY <2>4, <2>5, <2>6
<1>12. save' \in Seq(SaveRequest) /\ Len(save') = Len(save)
  <2>1. save' \in [1..Len(save) -> SaveRequest]
    BY <1>8, <1>11
  <2> QED BY <1>1, <2>1, FunctionIsSeq
<1>13. SettingsTypes'
  BY <1>7, <1>10, <1>12 DEF SettingsTypes
<1>14. \A f \in 1..Len(form') : PageTrue(form[f], S!Overlay(stored))'
  BY <1>5, <1>9, <1>10 DEF PageTrue
<1>15. ASSUME NEW i \in 1..Len(save'), save'[i].pc = "writing" PROVE RequestTrue(save[i], S!Overlay(stored))'
  <2>1. PICK q : q = save'[i]
    OBVIOUS
  <2>2. RequestTrue(q, new)
    BY <1>11, <1>12, <1>15, <2>1
  <2>3. RequestTrue(q, new)'
    <3>1. PICK f : f = q.page
      OBVIOUS
    <3>2. f \in 1..Len(form) /\ f \in 1..Len(form')
      BY <1>10, <2>2, <3>1 DEF RequestTrue
    <3>3. form'[f].phase = form[f].phase /\ form'[f].toggled = form[f].toggled /\ form'[f].shown = form[f].shown
      BY <1>9, <3>2
    <3>4. /\ q.informed =>
             /\ form[f].phase = "told" /\ q.toggled \subseteq form[f].toggled
             /\ \A j \in SettingKeys \ form[f].toggled : q.body[j] = form[f].shown[j]
             /\ ~q.overtaken => \A j \in SettingKeys \ q.toggled : q.body[j] = new[j]
      BY <2>2, <3>1 DEF RequestTrue
    <3>5. /\ q.informed =>
             /\ form'[f].phase = "told" /\ q.toggled \subseteq form'[f].toggled
             /\ \A j \in SettingKeys \ form'[f].toggled : q.body[j] = form'[f].shown[j]
             /\ ~q.overtaken => \A j \in SettingKeys \ q.toggled : q.body[j] = new[j]
      BY <3>3, <3>4
    <3> QED BY <3>1, <3>2, <3>5 DEF RequestTrue
  <2> QED BY <1>5, <2>1, <2>3 DEF RequestTrue
<1> QED BY <1>13, <1>14, <1>15 DEF SettingsInv

\* One page moves, and what it was told it keeps; at most it sends what it then shows.
LEMMA PageMoves ==
    ASSUME SettingsInv, stored' = stored, NEW f \in DOMAIN form, NEW q \in SettingsForm,
           form' = [form EXCEPT ![f] = q], PageTrue(q, S!Overlay(stored)),
           form[f].phase = "told" =>
               /\ q.phase = "told" /\ form[f].toggled \subseteq q.toggled
               /\ \A k \in SettingKeys \ q.toggled : q.shown[k] = form[f].shown[k],
           \/ save' = save
           \/ \E waited \in BOOLEAN : S!Request(f, q, waited)
    PROVE  SettingsInv'
<1>1. SettingsTypes /\ form \in Seq(SettingsForm) /\ save \in Seq(SaveRequest)
      /\ DOMAIN form = 1..Len(form)
  BY LenProperties DEF SettingsInv, SettingsTypes
<1>2. /\ form' \in Seq(SettingsForm) /\ Len(form') = Len(form)
      /\ \A i \in 1..Len(form) : form'[i] = IF i = f THEN q ELSE form[i]
  BY <1>1, ExceptSeq
<1>3. \A i \in 1..Len(form) : form[i].phase = "told" =>
          /\ form'[i].phase = "told" /\ form[i].toggled \subseteq form'[i].toggled
          /\ \A k \in SettingKeys \ form'[i].toggled : form'[i].shown[k] = form[i].shown[k]
  BY <1>2
<1>4. \A i \in 1..Len(form') : PageTrue(form'[i], S!Overlay(stored))
  BY <1>2 DEF SettingsInv
<1>5. CASE save' = save
  <2>1. \A s \in 1..Len(save') : s \in 1..Len(save) /\ save'[s] = save[s]
    BY <1>5
  <2>2. save' \in Seq(SaveRequest) /\ 1..Len(form) \subseteq 1..Len(form')
    BY <1>1, <1>2, <1>5
  <2> QED BY <1>2, <1>3, <1>4, <2>1, <2>2, NothingWritten
<1>6. CASE \E waited \in BOOLEAN : S!Request(f, q, waited)
  <2>1. PICK waited \in BOOLEAN : S!Request(f, q, waited)
    BY <1>6
  <2>2. PICK told \in BOOLEAN : told <=> q.phase = "told"
    OBVIOUS
  <2>3. (q.phase = "told") = told
    BY <2>2
  <2>4. PICK r : r = [pc |-> "writing", page |-> f, body |-> q.shown, next |-> 1,
                 toggled |-> q.toggled, waited |-> waited, informed |-> told, overtaken |-> q.overtaken]
    OBVIOUS
  <2>5. save' = Append(save, r)
    BY <2>1, <2>3, <2>4 DEF S!Request
  <2>6. f \in Nat
    BY <1>1
  <2>7. /\ r \in SaveRequest /\ r.page = f /\ r.body = q.shown /\ r.toggled = q.toggled
        /\ r.overtaken = q.overtaken /\ (r.informed <=> q.phase = "told")
    BY <2>2, <2>4, <2>6 DEF SaveRequest, SettingsForm
  <2>8. /\ save' \in Seq(SaveRequest) /\ Len(save') = Len(save) + 1 /\ Len(save) \in Nat
        /\ \A s \in 1..Len(save) : save'[s] = save[s]
        /\ save'[Len(save) + 1] = r
    BY <1>1, <2>5, <2>7, AppendProperties, LenProperties
  <2>9. f \in 1..Len(form') /\ form'[f] = q
    BY <1>1, <1>2
  <2>10. ASSUME NEW s \in 1..Len(save')
         PROVE  \/ s \in 1..Len(save) /\ save'[s] = save[s]
                \/ \E g \in 1..Len(form') :
                     /\ save'[s].page = g /\ save'[s].body = form'[g].shown
                     /\ save'[s].toggled = form'[g].toggled /\ save'[s].overtaken = form'[g].overtaken
                     /\ save'[s].informed <=> form'[g].phase = "told"
    <3>1. s \in 1..Len(save) \/ s = Len(save) + 1
      BY <2>8
    <3> QED BY <2>7, <2>8, <2>9, <3>1
  <2>11. 1..Len(form) \subseteq 1..Len(form')
    BY <1>2
  <2> QED BY <1>2, <1>3, <1>4, <2>8, <2>10, <2>11, NothingWritten
<1> QED BY <1>5, <1>6

\* What the user does on a page, and what the server answers it.
LEMMA PageActs ==
    ASSUME SettingsInv, NEW f \in DOMAIN form,
           \/ S!GetSettings(f) \/ S!Answered(f) \/ S!handleSave(f) \/ S!Revoke(f)
           \/ \E k \in DOMAIN S!DEFAULTS : S!Toggle(f, k)
    PROVE  SettingsInv'
<1>1. SettingsTypes /\ form \in Seq(SettingsForm) /\ DOMAIN form = 1..Len(form)
      /\ S!Overlay(stored) \in Toggles /\ DOMAIN S!DEFAULTS = SettingKeys
  BY LenProperties, OverlayIs DEF SettingsInv, SettingsTypes
<1>2. PICK p : p = form[f]
  OBVIOUS
<1>3. PICK rows : rows = S!Overlay(stored)
  OBVIOUS
<1>4. p \in SettingsForm /\ PageTrue(p, rows) /\ rows \in Toggles
  BY <1>1, <1>2, <1>3, ElementOfSeq DEF SettingsInv
<1>5. S!DEFAULTS \in Toggles
  BY DEF S!DEFAULTS, Toggles, SettingKeys
<1>6. ASSUME S!GetSettings(f) PROVE SettingsInv'
  <2>1. PICK q : q = [p EXCEPT !.phase = "answered", !.answer = rows]
    OBVIOUS
  <2>2. q \in SettingsForm /\ q.phase = "answered" /\ q.answer = rows
    BY <1>4, <2>1 DEF SettingsForm
  <2>3. form' = [form EXCEPT ![f] = q] /\ stored' = stored /\ save' = save /\ form[f].phase = "asking"
    BY <1>1, <1>2, <1>3, <1>6, <2>1 DEF S!GetSettings, S!getSettings
  <2>4. PageTrue(q, S!Overlay(stored))
    BY <1>3, <2>2 DEF PageTrue
  <2> QED BY <2>2, <2>3, <2>4, PageMoves
<1>7. ASSUME S!Answered(f) PROVE SettingsInv'
  <2>1. stored' = stored /\ save' = save /\ p.phase = "answered"
    BY <1>2, <1>7 DEF S!Answered
  <2>2. CASE form' = [form EXCEPT ![f].phase = "told", ![f].shown = S!Told(form[f]), ![f].answer = S!DEFAULTS]
    <3>1. PICK q : q = [p EXCEPT !.phase = "told", !.shown = p.answer, !.answer = S!DEFAULTS]
      OBVIOUS
    <3>2. q \in SettingsForm /\ q.phase = "told" /\ q.shown = p.answer /\ q.overtaken = p.overtaken
      BY <1>4, <1>5, <3>1 DEF SettingsForm
    <3>3. form' = [form EXCEPT ![f] = q]
      BY <1>1, <1>2, <2>2, <3>1 DEF S!Told
    <3>4. PageTrue(q, S!Overlay(stored))
      BY <1>3, <1>4, <2>1, <3>2 DEF PageTrue
    <3> QED BY <1>2, <2>1, <3>2, <3>3, <3>4, PageMoves
  <2>3. CASE form' = [form EXCEPT ![f].phase = "untold", ![f].answer = S!DEFAULTS]
    <3>1. PICK q : q = [p EXCEPT !.phase = "untold", !.answer = S!DEFAULTS]
      OBVIOUS
    <3>2. q \in SettingsForm /\ q.phase = "untold"
      BY <1>4, <1>5, <3>1 DEF SettingsForm
    <3>3. form' = [form EXCEPT ![f] = q]
      BY <1>1, <1>2, <2>3, <3>1
    <3>4. PageTrue(q, S!Overlay(stored))
      BY <3>2 DEF PageTrue
    <3> QED BY <1>2, <2>1, <3>2, <3>3, <3>4, PageMoves
  <2> QED BY <1>7, <2>2, <2>3 DEF S!Answered
<1>8. ASSUME NEW k \in DOMAIN S!DEFAULTS, S!Toggle(f, k) PROVE SettingsInv'
  <2>1. stored' = stored /\ save' = save /\ k \in SettingKeys
    BY <1>1, <1>8 DEF S!Toggle
  <2>2. PICK shown : shown = [p.shown EXCEPT ![k] = ~p.shown[k]]
    OBVIOUS
  <2>3. shown \in Toggles /\ \A j \in SettingKeys \ {k} : shown[j] = p.shown[j]
    BY <1>4, <2>1, <2>2 DEF SettingsForm, Toggles
  <2>4. PICK q : q = [p EXCEPT !.shown = shown, !.toggled = p.toggled \cup {k}]
    OBVIOUS
  <2>5. /\ q \in SettingsForm /\ q.phase = p.phase /\ q.overtaken = p.overtaken /\ q.answer = p.answer
        /\ q.shown = shown /\ q.toggled = p.toggled \cup {k}
    BY <1>4, <2>1, <2>3, <2>4 DEF SettingsForm
  <2>6. form' = [form EXCEPT ![f] = q]
    BY <1>1, <1>2, <1>4, <1>8, <2>2, <2>4 DEF S!Toggle, SettingsForm
  <2>7. PageTrue(q, S!Overlay(stored))
    BY <1>3, <1>4, <2>3, <2>5 DEF PageTrue
  <2>8. \A j \in SettingKeys \ q.toggled : q.shown[j] = form[f].shown[j]
    BY <1>2, <2>3, <2>5
  <2> QED BY <1>2, <2>1, <2>5, <2>6, <2>7, <2>8, PageMoves
<1>9. ASSUME S!handleSave(f) PROVE SettingsInv'
  <2>1. PICK q : q = [p EXCEPT !.saving = TRUE]
    OBVIOUS
  <2>2. /\ q \in SettingsForm /\ q.phase = p.phase /\ q.overtaken = p.overtaken /\ q.answer = p.answer
        /\ q.shown = p.shown /\ q.toggled = p.toggled
    BY <1>4, <2>1 DEF SettingsForm
  <2>3. form' = [form EXCEPT ![f] = q] /\ stored' = stored /\ S!Request(f, p, TRUE)
    BY <1>1, <1>2, <1>9, <2>1 DEF S!handleSave
  <2>4. S!Request(f, q, TRUE)
    BY <2>2, <2>3 DEF S!Request
  <2>5. PageTrue(q, S!Overlay(stored))
    BY <1>3, <1>4, <2>2 DEF PageTrue
  <2> QED BY <1>2, <2>2, <2>3, <2>4, <2>5, PageMoves
<1>10. ASSUME S!Revoke(f) PROVE SettingsInv'
  <2>1. PICK shown : shown = [k \in SettingKeys |-> p.shown[k] /\ k \notin {"autonomousYield"}]
    OBVIOUS
  <2>2. shown \in Toggles /\ \A j \in SettingKeys \ {"autonomousYield"} : shown[j] = p.shown[j]
    BY <1>4, <2>1 DEF SettingsForm, Toggles
  <2>3. PICK q : q = [p EXCEPT !.shown = shown, !.toggled = p.toggled \cup {"autonomousYield"}]
    OBVIOUS
  <2>4. /\ q \in SettingsForm /\ q.phase = p.phase /\ q.overtaken = p.overtaken /\ q.answer = p.answer
        /\ q.shown = shown /\ q.toggled = p.toggled \cup {"autonomousYield"}
    BY <1>4, <2>2, <2>3 DEF SettingsForm, SettingKeys
  <2>5. DOMAIN p.shown = SettingKeys
    BY <1>4 DEF SettingsForm, Toggles
  <2>6. form' = [form EXCEPT ![f] = q] /\ S!Request(f, q, FALSE) /\ stored' = stored
    BY <1>2, <1>10, <2>1, <2>3, <2>5 DEF S!Revoke, S!AgentKeys
  <2>7. PageTrue(q, S!Overlay(stored))
    BY <1>3, <1>4, <2>2, <2>4 DEF PageTrue
  <2>8. \A j \in SettingKeys \ q.toggled : q.shown[j] = form[f].shown[j]
    BY <1>2, <2>2, <2>4
  <2> QED BY <1>2, <2>4, <2>6, <2>7, <2>8, PageMoves
<1> QED BY <1>6, <1>7, <1>8, <1>9, <1>10

\* A page that is opened has not been told anything.
LEMMA PageOpens ==
    ASSUME SettingsInv, S!Open PROVE SettingsInv'
<1>1. SettingsTypes /\ form \in Seq(SettingsForm) /\ save \in Seq(SaveRequest) /\ Len(form) \in Nat
  BY LenProperties DEF SettingsInv, SettingsTypes
<1>2. form' = Append(form, S!Fresh) /\ stored' = stored /\ save' = save
  BY DEF S!Open
<1>3. S!Fresh \in SettingsForm /\ S!Fresh.phase = "asking"
  BY DEF S!Fresh, S!DEFAULTS, SettingsForm, Toggles, SettingKeys
<1>4. /\ form' \in Seq(SettingsForm) /\ Len(form') = Len(form) + 1
      /\ \A i \in 1..Len(form) : form'[i] = form[i]
      /\ form'[Len(form) + 1] = S!Fresh
  BY <1>1, <1>2, <1>3, AppendProperties
<1>5. PageTrue(S!Fresh, S!Overlay(stored))
  BY <1>3 DEF PageTrue
<1>6. \A i \in 1..Len(form') : PageTrue(form'[i], S!Overlay(stored))
  <2> TAKE i \in 1..Len(form')
  <2>1. i \in 1..Len(form) \/ i = Len(form) + 1
    BY <1>1, <1>4
  <2> QED BY <1>4, <1>5, <2>1 DEF SettingsInv
<1>7. 1..Len(form) \subseteq 1..Len(form')
  BY <1>1, <1>4
<1>8. \A s \in 1..Len(save') : s \in 1..Len(save) /\ save'[s] = save[s]
  BY <1>2
<1> QED BY <1>1, <1>2, <1>4, <1>6, <1>7, <1>8, NothingWritten

\* A request that is over writes nothing any more.
LEMMA RequestEnds ==
    ASSUME SettingsInv, NEW s \in DOMAIN save, S!Ends(s) PROVE SettingsInv'
<1>1. SettingsTypes /\ form \in Seq(SettingsForm) /\ save \in Seq(SaveRequest)
      /\ DOMAIN form = 1..Len(form) /\ DOMAIN save = 1..Len(save)
  BY LenProperties DEF SettingsInv, SettingsTypes
<1>2. S!Over \in SaveRequest /\ S!Over.pc = "over"
  BY DEF S!Over, S!DEFAULTS, SaveRequest, Toggles, SettingKeys
<1>3. save' = [save EXCEPT ![s] = S!Over] /\ stored' = stored
  BY DEF S!Ends
<1>4. /\ save' \in Seq(SaveRequest) /\ Len(save') = Len(save)
      /\ \A i \in 1..Len(save) : save'[i] = IF i = s THEN S!Over ELSE save[i]
  BY <1>1, <1>2, <1>3, ExceptSeq
<1>5. \A i \in 1..Len(save') : save'[i].pc = "writing" => i \in 1..Len(save) /\ save'[i] = save[i]
  BY <1>2, <1>4
<1>6. /\ form' \in Seq(SettingsForm) /\ Len(form') = Len(form)
      /\ \A f \in 1..Len(form) : \/ form'[f] = form[f]
                                 \/ form'[f] = [form[f] EXCEPT !.saving = FALSE]
  <2>1. CASE form' = form
    BY <1>1, <2>1
  <2>2. CASE save[s].waited /\ form' = [form EXCEPT ![save[s].page].saving = FALSE]
    <3>1. PICK g : g = save[s].page
      OBVIOUS
    <3>2. g \in 1..Len(form)
      BY <1>1, <3>1 DEF SettingsInv, RequestTrue, S!Ends
    <3>3. PICK q : q = [form[g] EXCEPT !.saving = FALSE]
      OBVIOUS
    <3>4. q \in SettingsForm
      <4>1. form[g] \in SettingsForm
        BY <1>1, <3>2, ElementOfSeq
      <4> QED BY <3>3, <4>1 DEF SettingsForm
    <3>5. form' = [form EXCEPT ![g] = q]
      BY <1>1, <2>2, <3>1, <3>2, <3>3
    <3>6. /\ form' \in Seq(SettingsForm) /\ Len(form') = Len(form)
          /\ \A f \in 1..Len(form) : form'[f] = IF f = g THEN q ELSE form[f]
      BY <1>1, <3>2, <3>4, <3>5, ExceptSeq
    <3> QED BY <3>3, <3>6
  <2> QED BY <2>1, <2>2 DEF S!Ends
<1>7. ASSUME NEW f \in 1..Len(form)
      PROVE  /\ form'[f].phase = form[f].phase /\ form'[f].toggled = form[f].toggled
             /\ form'[f].shown = form[f].shown /\ form'[f].answer = form[f].answer
             /\ form'[f].overtaken = form[f].overtaken
  <2>1. form[f] \in SettingsForm
    BY <1>1, ElementOfSeq
  <2>2. CASE form'[f] = [form[f] EXCEPT !.saving = FALSE]
    BY <2>1, <2>2 DEF SettingsForm
  <2> QED BY <1>6, <2>2
<1>8. \A f \in 1..Len(form) : form[f].phase = "told" =>
          /\ form'[f].phase = "told" /\ form[f].toggled \subseteq form'[f].toggled
          /\ \A k \in SettingKeys \ form'[f].toggled : form'[f].shown[k] = form[f].shown[k]
  BY <1>7
<1>9. \A f \in 1..Len(form') : PageTrue(form'[f], S!Overlay(stored))
  BY <1>6, <1>7 DEF SettingsInv, PageTrue
<1>10. 1..Len(form) \subseteq 1..Len(form')
  BY <1>6
<1> QED BY <1>3, <1>4, <1>5, <1>6, <1>8, <1>9, <1>10, NothingWritten

LEMMA SettingsInvariant == S!Spec => []SettingsInv
<1>1. S!Init => SettingsInv
  <2> SUFFICES ASSUME S!Init PROVE SettingsInv
    OBVIOUS
  <2>1. stored = [k \in {} |-> FALSE] /\ form = <<>> /\ save = <<>>
    BY DEF S!Init
  <2>2. /\ form \in Seq(SettingsForm) /\ save \in Seq(SaveRequest) /\ DOMAIN stored = {}
        /\ 1..Len(form) = {} /\ 1..Len(save) = {}
    BY <2>1
  <2> QED BY <2>2 DEF SettingsInv, SettingsTypes
<1>2. SettingsInv /\ [S!Next]_S!vars => SettingsInv'
  <2> SUFFICES ASSUME SettingsInv, [S!Next]_S!vars PROVE SettingsInv'
    OBVIOUS
  <2>1. CASE UNCHANGED S!vars
    <3>1. form' = form /\ save' = save /\ stored' = stored
      BY <2>1 DEF S!vars
    <3>2. 1..Len(form) \subseteq 1..Len(form')
      BY <3>1
    <3>3. form' \in Seq(SettingsForm) /\ save' \in Seq(SaveRequest)
      BY <3>1 DEF SettingsInv, SettingsTypes
    <3>4. \A f \in 1..Len(form') : PageTrue(form'[f], S!Overlay(stored))
      BY <3>1 DEF SettingsInv
    <3> QED BY <3>1, <3>2, <3>3, <3>4, NothingWritten
  <2>2. CASE S!Next
    BY <2>2, PageOpens, PageActs, KeyWritten, RequestEnds DEF S!Next
  <2> QED BY <2>1, <2>2
<1> QED BY <1>1, <1>2, PTL DEF S!Spec

\* Saving changes a setting only if the user of that page has set it, although the page
\* sends all of them: unless it was saved before the page was told what is stored, or
\* another save wrote after the page was told.
THEOREM OnlySetIsSaved == S!Spec => OnlyWhatWasSet
<1>1. ASSUME SettingsInv, [S!Next]_S!vars, stored' # stored
      PROVE  \A k \in DOMAIN S!DEFAULTS : S!Overlay(stored')[k] # S!Overlay(stored)[k] =>
                \E s \in DOMAIN save : /\ save'[s].next = save[s].next + 1 /\ k = S!Keys[save[s].next]
                                       /\ \/ k \in save[s].toggled
                                          \/ ~save[s].informed
                                          \/ save[s].overtaken
  <2>1. PICK s \in DOMAIN save : S!WriteKey(s)
    <3>1. S!Next
      BY <1>1 DEF S!vars
    <3> QED BY <1>1, <3>1 DEF S!Next, S!Open, S!GetSettings, S!Answered, S!handleSave, S!Revoke, S!Toggle, S!Ends
  <2>2. PICK r : r = save[s]
    OBVIOUS
  <2>3. PICK name : name = S!Keys[r.next]
    OBVIOUS
  <2>4. SettingsTypes /\ DOMAIN save = 1..Len(save) /\ DOMAIN S!DEFAULTS = SettingKeys
    BY <1>1, LenProperties, OverlayIs DEF SettingsInv, SettingsTypes
  <2>5. /\ r \in SaveRequest /\ r.pc = "writing" /\ r.next <= 2
        /\ stored' = [j \in DOMAIN stored \cup {name} |-> IF j = name THEN r.body[name] ELSE stored[j]]
        /\ save'[s] = [r EXCEPT !.next = r.next + 1]
    BY <2>1, <2>2, <2>3, <2>4, ElementOfSeq DEF S!WriteKey, S!Keys, SettingsTypes
  <2>6. save'[s].next = r.next + 1
    BY <2>5 DEF SaveRequest
  <2>7. name \in SettingKeys
    <3>1. r.next \in 1..2
      BY <2>5 DEF SaveRequest
    <3> QED BY <2>3, <3>1 DEF S!Keys, SettingKeys
  <2>8. /\ S!Overlay(stored)'[name] = r.body[name]
        /\ \A j \in SettingKeys \ {name} : S!Overlay(stored)'[j] = S!Overlay(stored)[j]
    BY <2>5, <2>7, OneKeyWritten
  <2>9. S!Overlay(stored') = S!Overlay(stored)'
    BY DEF S!Overlay
  <2>10. r.informed /\ ~r.overtaken /\ name \notin r.toggled => r.body[name] = S!Overlay(stored)[name]
    BY <1>1, <2>2, <2>4, <2>5, <2>7 DEF SettingsInv, RequestTrue
  <2> QED BY <2>2, <2>3, <2>4, <2>6, <2>8, <2>9, <2>10
<1>2. SettingsInv /\ [S!Next]_S!vars =>
         [\A k \in DOMAIN S!DEFAULTS : S!Overlay(stored')[k] # S!Overlay(stored)[k] =>
                \E s \in DOMAIN save : /\ save'[s].next = save[s].next + 1 /\ k = S!Keys[save[s].next]
                                       /\ \/ k \in save[s].toggled
                                          \/ ~save[s].informed
                                          \/ save[s].overtaken]_stored
  BY <1>1
<1> QED BY <1>2, SettingsInvariant, PTL DEF S!Spec, OnlyWhatWasSet, S!OnlyWhatWasSet

(***************************************************************************)
(* The key of the page (Transactions).                                     *)
(***************************************************************************)
ExtensionType == extension \in [connected : BOOLEAN, active : WalletKeys]

\* The key of the page is the active key of a connected extension, or none, unless an
\* answer of the extension arrived out of date.  It is inductive: every handler sets
\* the key with the event that could make it wrong.
THEOREM PageKeyIsActive == T!Spec => []KeyIsActive
<1> DEFINE Inv == ExtensionType /\ KeyIsActive
<1>1. T!Init => Inv
  BY DEF T!Init, KeyIsActive, T!KeyIsActive, ExtensionType
<1>2. Inv /\ [T!Next]_T!vars => Inv'
  <2> SUFFICES ASSUME ExtensionType, KeyIsActive, [T!Next]_T!vars PROVE Inv'
    OBVIOUS
  <2>1. CASE UNCHANGED <<T!wallet, late>>
    BY <2>1 DEF T!wallet, KeyIsActive, T!KeyIsActive, ExtensionType
  <2>2. CASE T!Ask
    BY <2>2 DEF T!Ask, KeyIsActive, T!KeyIsActive, ExtensionType
  <2>3. CASE T!Answer
    BY <2>3 DEF T!Answer, KeyIsActive, T!KeyIsActive, ExtensionType
  <2>4. CASE T!Disconnected
    BY <2>4 DEF T!Disconnected, KeyIsActive, T!KeyIsActive, ExtensionType
  <2>5. CASE T!Locked
    BY <2>5 DEF T!Locked, KeyIsActive, T!KeyIsActive, ExtensionType
  <2>6. CASE \E k \in WalletKeys : T!Connected(k)
    BY <2>6 DEF T!Connected, KeyIsActive, T!KeyIsActive, ExtensionType
  <2>7. CASE \E k \in WalletKeys : T!KeyChanged(k)
    BY <2>7 DEF T!KeyChanged, KeyIsActive, T!KeyIsActive, ExtensionType
  <2>8. CASE \E f \in Flows : T!Step(f) \/ \E kind \in T!Kinds : T!Click(f, kind)
    <3>1. PICK f \in Flows : T!Step(f) \/ \E kind \in T!Kinds : T!Click(f, kind)
      BY <2>8
    <3>2. UNCHANGED <<T!wallet, late>>
      BY <3>1 DEF T!Step, T!Click, T!SeedBuyer, T!MakeTransfer, T!BuildTx, T!MakeContractTx,
         T!SignTransaction, T!SubmitDeploy, T!SignAndSubmit, T!SubmitTransaction, T!SignMessage,
         T!Delegate, T!ClaimYield, T!SubmitMint, T!RegisterNothing, T!WithFallback, T!GiveUp, T!Poll
    <3> QED BY <2>1, <3>2
  <2>9. CASE \E n \in DOMAIN txs : T!Execute(n)
    BY <2>1, <2>9 DEF T!Execute
  <2>10. CASE UNCHANGED T!vars
    BY <2>1, <2>10 DEF T!vars
  <2> QED BY <2>2, <2>3, <2>4, <2>5, <2>6, <2>7, <2>8, <2>9, <2>10 DEF T!Next
<1> QED BY <1>1, <1>2, PTL DEF T!Spec
=============================================================================
