-------------------------------- MODULE Wizard -------------------------------
(***************************************************************************)
(* The tokenization dialogue of one browser tab: describe, review,         *)
(* document, kyc, mint, done; the draft it keeps in localStorage; and the  *)
(* requests of the server it waits for (payment, extraction, upload,       *)
(* attestation, mint), which go on when the page is reloaded.              *)
(*                                                                         *)
(* An event handler is a record op[o]: its pc names the await it is in,    *)
(* `snap' is the page as it was rendered when the handler was called: an   *)
(* async function of React goes on with the values of that rendering, and  *)
(* saveDraft writes them.  `heard' becomes FALSE when nobody waits for the *)
(* answer of the server any more.                                          *)
(***************************************************************************)
EXTENDS Naturals, Sequences, FiniteSets

CONSTANTS Wallets,
          Docs,          \* files, by their SHA-256
          None,          \* null
          KeyFile,       \* whether the whitelist route finds a key on disk
          Ops,           \* bound: handlers that run at the same time
          MaxPayments,   \* bound: payments, and so extractions
          MaxMints       \* bound: mint transactions

VARIABLES page,          \* the state of the React component
          draft,         \* "casperlaunch:tokenize:draft", or None
          wallet,        \* the active key of the extension, or None
          op,            \* the handlers in flight
          paid,          \* payments the chain accepted
          extracted,     \* descriptions the AI has turned into metadata
          sent,          \* accounts with a set_kyc under way whose end nobody awaits
          listed,        \* accounts the RWA contract has whitelisted
          minted,        \* the mint transactions, in the order they were accepted
          kept,          \* the rows of tokens: their mint, and the hash of the document
          seen           \* history: the disturbances that have happened

\* What outlives the page.
lasting == <<paid, extracted, sent, listed, minted, kept>>
vars == <<page, draft, wallet, op, lasting, seen>>

Steps == <<"describe", "review", "document", "kyc", "mint", "done">>
StepNames == {Steps[i] : i \in DOMAIN Steps}

\* Metadata is named by the extraction that produced it; 0 is null.
Saved == [step : StepNames, meta : 0..MaxPayments, doc : Docs \cup {None},
          cid : Docs \cup {None}, kyc : BOOLEAN]
\* null is no object, and no string.
ASSUME NoneAssumption  == None \notin Wallets \cup Docs \cup Saved
ASSUME KeyFileAssumption == KeyFile \in BOOLEAN
ASSUME BoundsAssumption == MaxPayments \in Nat /\ MaxMints \in Nat

Fresh == [step |-> "describe", meta |-> 0, doc |-> None, cid |-> None, kyc |-> FALSE]
Idle == [kind |-> "idle", pc |-> "", who |-> None, file |-> None, snap |-> Fresh,
         heard |-> FALSE, mint |-> 0]
NewPage(saved) == [saved |-> saved, loading |-> FALSE, signing |-> FALSE]

At(o, kind, pc) == op[o].kind = kind /\ op[o].pc = pc
Step == page.saved.step
Shown(saved) == page' = [page EXCEPT !.saved = saved]
Goes(o, pc) == op' = [op EXCEPT ![o].pc = pc]
Ends(o) == op' = [op EXCEPT ![o] = Idle]

Starts(o, kind, pc, file) ==
    /\ op[o] = Idle
    /\ op' = [op EXCEPT ![o] = [kind |-> kind, pc |-> pc, who |-> wallet, file |-> file,
                                snap |-> page.saved, heard |-> TRUE, mint |-> 0]]

\* A mint is under way whose answer the page awaits.
Minting(S) == \E o \in S : op[o].kind = "mint" /\ op[o].heard

\* setLoading(false) at the end of a handler frees the buttons, also when
\* another handler is still running.
Freed(saved) == [page EXCEPT !.saved = saved, !.loading = FALSE]
When(condition, disturbance) == IF condition THEN {disturbance} ELSE {}
Marks(o, more) == seen' = seen \cup more \cup When(Minting(Ops \ {o}), "freed")

-----------------------------------------------------------------------------
(* What the page offers.                                                    *)

MayDescribe == Step \in {"describe", "review"} /\ ~page.loading
MayAnchor == Step = "document"
MayAttest == Step = "kyc" /\ ~page.saved.kyc /\ ~page.signing /\ wallet # None
MayMint == Step = "mint" /\ ~page.loading /\ wallet # None
MayReset == Step = "mint" /\ page.loading

-----------------------------------------------------------------------------
(* Describing the asset: sign and pay 3 CSPR, then extract.                 *)

Confirm ==
    /\ MayDescribe /\ Step = "review"
    /\ Shown([page.saved EXCEPT !.step = "document"])
    /\ draft' = [page.saved EXCEPT !.step = "document"]
    /\ UNCHANGED <<wallet, op, lasting, seen>>

Send(o) ==
    /\ MayDescribe
    /\ \/ /\ wallet = None
          /\ Shown([page.saved EXCEPT !.step = "describe"])
          /\ UNCHANGED op
       \/ /\ wallet # None
          /\ Starts(o, "send", "pay", None)
          /\ page' = [page EXCEPT !.loading = TRUE]
    /\ UNCHANGED <<draft, wallet, lasting, seen>>

\* The popup, then make-x402-payment: the agent pays itself and does not look at
\* the signature.
Pay(o) ==
    /\ At(o, "send", "pay")
    /\ paid < MaxPayments
    /\ paid' = paid + 1
    /\ Goes(o, "extract")
    /\ UNCHANGED <<page, draft, wallet, extracted, sent, listed, minted, kept, seen>>

\* The gate of ai/tokenize.  A hash of 64 hex digits passes without a look at
\* the chain; verifyPayment, for all others, asks for 64 hex digits first.
VerifyPayment(header, executed) == header # None /\ executed
Gate(header) == header # None \/ \E executed \in BOOLEAN : VerifyPayment(header, executed)

\* What saveDraft writes: the rendering of the click, and the overrides.
ReviewedStale(o) == [op[o].snap EXCEPT !.step = "review"]   \* (A slip: the old metadata)
Reviewed(o) == [op[o].snap EXCEPT !.meta = extracted + 1, !.step = "review"]

Extract(o) ==
    /\ At(o, "send", "extract")
    /\ Gate(paid)
    /\ extracted' = extracted + 1
    /\ page' = Freed([page.saved EXCEPT !.meta = extracted + 1, !.step = "review"])
    /\ draft' = Reviewed(o)
    /\ Marks(o, {})
    /\ Ends(o)
    /\ UNCHANGED <<wallet, paid, sent, listed, minted, kept>>

\* Any of the three throws: the dialogue returns to its first step, the draft stays.
SendFails(o) ==
    /\ op[o].kind = "send"
    /\ page' = Freed([page.saved EXCEPT !.step = "describe"])
    /\ Marks(o, {})
    /\ Ends(o)
    /\ UNCHANGED <<draft, wallet, lasting>>

-----------------------------------------------------------------------------
(* The backing document.  A file may be dropped while another one uploads.  *)

\* The hash is computed in the browser, at once; the upload is awaited.
Choose(o, d) ==
    /\ MayAnchor
    /\ Starts(o, "upload", "ipfs", d)
    /\ page' = [page EXCEPT !.saved.doc = d, !.loading = TRUE]
    /\ draft' = [page.saved EXCEPT !.doc = d]
    /\ seen' = seen \cup When(page.saved.doc # None, "rechosen")
    /\ UNCHANGED <<wallet, lasting>>

\* saveDraft of a rendering that the page has left behind.
Late == When(Step # "document", "freed")

Uploaded(o) ==
    /\ At(o, "upload", "ipfs")
    /\ page' = Freed([page.saved EXCEPT !.cid = op[o].file])
    /\ draft' = [op[o].snap EXCEPT !.doc = op[o].file, !.cid = op[o].file]
    /\ Marks(o, Late)
    /\ Ends(o)
    /\ UNCHANGED <<wallet, lasting>>

\* Without IPFS the hash alone is kept: "hash-only fallback".
UploadFails(o) ==
    /\ op[o].kind = "upload"
    /\ page' = Freed(page.saved)
    /\ Marks(o, {})
    /\ Ends(o)
    /\ UNCHANGED <<draft, wallet, lasting>>

\* Skip, or Proceed, which asks for a document: a document chosen stays chosen.
LeaveDocument ==
    /\ MayAnchor
    /\ Shown([page.saved EXCEPT !.step = "kyc"])
    /\ draft' = [page.saved EXCEPT !.step = "kyc"]
    /\ UNCHANGED <<wallet, op, lasting, seen>>

-----------------------------------------------------------------------------
(* The attestation.                                                        *)

Attest(o) ==
    /\ MayAttest
    /\ Starts(o, "kyc", "sign", None)
    /\ page' = [page EXCEPT !.signing = TRUE]
    /\ UNCHANGED <<draft, wallet, lasting, seen>>

SignAttestation(o) ==
    /\ At(o, "kyc", "sign")
    /\ Shown([page.saved EXCEPT !.kyc = TRUE])
    /\ draft' = [op[o].snap EXCEPT !.kyc = TRUE]
    /\ Goes(o, "post")
    /\ UNCHANGED <<wallet, lasting, seen>>

\* kyc/whitelist: without a key on disk, or when the node refuses, nothing is sent.
Whitelisting(o) == sent' \in {sent} \cup (IF KeyFile THEN {sent \cup {op[o].who}} ELSE {})

\* kyc/whitelist, and the page with its answer: whether the wallet could be
\* whitelisted or not, the dialogue goes on; the draft forgets the attestation.
AfterAttestation(o) == [op[o].snap EXCEPT !.step = "mint"]

\* (A slip: it goes on only when the wallet was whitelisted.)
WhitelistNeedsChain(o) ==
    /\ At(o, "kyc", "post")
    /\ Whitelisting(o)
    /\ page' = [page EXCEPT !.saved.step = IF op[o].who \in sent' THEN "mint" ELSE "kyc",
                            !.signing = FALSE]
    /\ draft' = AfterAttestation(o)
    /\ Ends(o)
    /\ UNCHANGED <<wallet, paid, extracted, listed, minted, kept, seen>>

Whitelist(o) ==
    /\ At(o, "kyc", "post")
    /\ Whitelisting(o)
    /\ page' = [page EXCEPT !.saved.step = "mint", !.signing = FALSE]
    /\ draft' = AfterAttestation(o)
    /\ Ends(o)
    /\ UNCHANGED <<wallet, paid, extracted, listed, minted, kept, seen>>

\* The popup is cancelled, or the request throws: then the page still says that
\* the attestation is signed, and has no button left to submit it.
AttestFails(o) ==
    /\ op[o].kind = "kyc"
    /\ IF op[o].pc = "post" THEN Whitelisting(o) ELSE UNCHANGED sent
    /\ page' = [page EXCEPT !.signing = FALSE]
    /\ seen' = seen \cup When(page.saved.kyc, "kycLost")
    /\ Ends(o)
    /\ UNCHANGED <<draft, wallet, paid, extracted, listed, minted, kept>>

-----------------------------------------------------------------------------
(* The mint.                                                               *)

Mint(o) ==
    /\ MayMint /\ page.saved.meta # 0
    /\ Starts(o, "mint", "kyc", None)
    /\ page' = [page EXCEPT !.loading = TRUE]
    /\ UNCHANGED <<draft, wallet, lasting, seen>>

\* The popup, then casper/mint: a set_kyc for the recipient.  The one for the agent
\* itself, submitted before and awaited with it, is left out.
SubmitKyc(o) ==
    /\ At(o, "mint", "kyc")
    /\ Goes(o, "wait")
    /\ UNCHANGED <<page, draft, wallet, lasting, seen>>

\* The chain executes the set_kyc that the route waits for.
ExecuteKyc(o) ==
    /\ At(o, "mint", "wait")
    /\ listed' = listed \cup {op[o].who}
    /\ Goes(o, "whitelisted")
    /\ UNCHANGED <<page, draft, wallet, paid, extracted, sent, minted, kept, seen>>

\* waitForDeploy returns when a node reports the execution of this transaction, and
\* throws after 4 minutes.  It does not look at the whitelist, here or later.
ConfirmedUnasked(o) == op[o].kind = "mint" /\ op[o].pc \in {"wait", "whitelisted"}   \* (A slip)
Confirmed(o) == At(o, "mint", "whitelisted")

\* The transaction carries name, type, value and link; the hash that the page sends
\* with them is not put into it.
SubmitMint(o) ==
    /\ Confirmed(o)
    /\ Len(minted) < MaxMints
    /\ minted' = Append(minted, [to |-> op[o].who, meta |-> op[o].snap.meta,
                                 cid |-> op[o].snap.cid, fate |-> "pending"])
    /\ op' = [op EXCEPT ![o].pc = "answer", ![o].mint = Len(minted) + 1]
    /\ UNCHANGED <<page, draft, wallet, paid, extracted, sent, listed, kept, seen>>

\* The page has the hash of the transaction: it says that the token is live, drops
\* the draft and stores the row, with the document as it was at the click.
DraftKept == draft                  \* (A slip: clearDraft is forgotten.)
DraftDropped == None

Minted(o) ==
    /\ At(o, "mint", "answer")
    /\ IF op[o].heard
       THEN /\ page' = Freed([page.saved EXCEPT !.step = "done"])
            /\ draft' = DraftDropped
            /\ kept' = kept \cup {[mint |-> op[o].mint, doc |-> op[o].snap.doc]}
            /\ Marks(o, {})
       ELSE UNCHANGED <<page, draft, kept, seen>>
    /\ Ends(o)
    /\ UNCHANGED <<wallet, paid, extracted, sent, listed, minted>>

\* The popup or a call of the server throws: the dialogue stays at "mint", and a
\* set_kyc may be under way that nobody awaits any more.
MintFails(o) ==
    /\ op[o].kind = "mint" /\ op[o].pc # "answer"
    /\ sent' \in {sent} \cup (IF op[o].pc = "whitelisted" THEN {} ELSE {sent \cup {op[o].who}})
    /\ IF op[o].heard THEN page' = Freed(page.saved) /\ Marks(o, {})
                      ELSE UNCHANGED <<page, seen>>
    /\ Ends(o)
    /\ UNCHANGED <<draft, wallet, paid, extracted, listed, minted, kept>>

\* The connection breaks and the server goes on.
Lost(o) ==
    /\ op[o].kind = "mint" /\ op[o].heard
    /\ op' = [op EXCEPT ![o].heard = FALSE]
    /\ page' = Freed(page.saved)
    /\ Marks(o, {"freed"})
    /\ UNCHANGED <<draft, wallet, lasting>>

\* "Cancel / reset" under the mint button.
Reset ==
    /\ MayReset
    /\ page' = [page EXCEPT !.loading = FALSE]
    /\ seen' = seen \cup When(Minting(Ops), "freed")
    /\ UNCHANGED <<draft, wallet, op, lasting>>

-----------------------------------------------------------------------------
(* The tab, the extension and the chain.                                   *)

\* A draft that has come no further than "describe" is not restored.
RestoredUnhashed(d) == IF d = None \/ d.step = "describe" THEN Fresh ELSE [d EXCEPT !.doc = None]
Restored(d) == IF d = None \/ d.step = "describe" THEN Fresh ELSE d

\* Handlers die with the page.  The request of a mint goes on, as long as it takes;
\* the other requests are short, and count as carried out before or as failed.
Reloads(d) ==
    /\ page' = NewPage(Restored(d))
    /\ draft' = d
    /\ op' = [o \in Ops |-> IF op[o].kind = "mint"
                            THEN [op[o] EXCEPT !.heard = FALSE] ELSE Idle]
    /\ seen' = seen \cup When(Minting(Ops), "freed")
                    \cup When(Restored(d).step = "kyc" /\ Restored(d).kyc, "kycLost")
    /\ UNCHANGED <<wallet, lasting>>

Reload == Reloads(draft)
Restart == Reloads(None)            \* Clear & Restart

\* Another account, or none: connect, disconnect and the events of the extension.
Switch ==
    /\ wallet' \in (Wallets \cup {None}) \ {wallet}
    /\ UNCHANGED <<page, draft, op, lasting, seen>>

\* The chain executes a set_kyc that nobody awaits: it was the only one, or not.
ExecuteOther(a) ==
    /\ a \in sent
    /\ listed' = listed \cup {a}
    /\ sent' \in {sent, sent \ {a}}
    /\ UNCHANGED <<page, draft, wallet, op, paid, extracted, minted, kept, seen>>

\* A mint relies on the whitelist: its set_kyc was executed, the mint was not yet.
Relied(a) ==
    \/ \E o \in Ops : At(o, "mint", "whitelisted") /\ op[o].who = a
    \/ \E i \in DOMAIN minted : minted[i].to = a /\ minted[i].fate = "pending"

\* The compliance agent revokes a holder whose attestation for another token expired.
RevokeKyc(a) ==
    /\ a \in listed
    /\ listed' = listed \ {a}
    /\ seen' = seen \cup When(Relied(a), "revoked")
    /\ UNCHANGED <<page, draft, wallet, op, paid, extracted, sent, minted, kept>>

\* The chain executes a mint, and reverts it when the recipient is not whitelisted.
\* The supply cap and the whitelisting of the caller are left out.
ExecuteMint(i) ==
    /\ minted[i].fate = "pending"
    /\ minted' = [minted EXCEPT ![i].fate = IF minted[i].to \in listed THEN "live" ELSE "refused"]
    /\ UNCHANGED <<page, draft, wallet, op, paid, extracted, sent, listed, kept, seen>>

-----------------------------------------------------------------------------
Init ==
    /\ page = NewPage(Fresh)
    /\ draft = None
    /\ wallet = None
    /\ op = [o \in Ops |-> Idle]
    /\ paid = 0 /\ extracted = 0
    /\ sent = {} /\ listed = {}
    /\ minted = <<>> /\ kept = {}
    /\ seen = {}

Describing(o) == Send(o) \/ Pay(o) \/ Extract(o) \/ SendFails(o)
Anchoring(o) == (\E d \in Docs : Choose(o, d)) \/ Uploaded(o) \/ UploadFails(o)
Attesting(o) == Attest(o) \/ SignAttestation(o) \/ Whitelist(o) \/ AttestFails(o)
Minting1(o) == \/ Mint(o) \/ SubmitKyc(o) \/ ExecuteKyc(o) \/ SubmitMint(o) \/ Minted(o) \/ MintFails(o) \/ Lost(o)

Next ==
    \/ Confirm \/ LeaveDocument \/ Reset \/ Reload \/ Restart \/ Switch
    \/ \E a \in Wallets : ExecuteOther(a) \/ RevokeKyc(a)
    \/ \E i \in DOMAIN minted : ExecuteMint(i)
    \/ \E o \in Ops : Describing(o) \/ Anchoring(o) \/ Attesting(o) \/ Minting1(o)

Spec == Init /\ [][Next]_vars

-----------------------------------------------------------------------------
(* Properties.                                                             *)

\* The page calls a token live once the mint transaction is accepted, before it is
\* executed.  The contract refuses it then only if the compliance agent revoked the
\* recipient between the set_kyc that the mint route waited for and the mint: the
\* route (mint/route.ts:53) never runs ahead of its own whitelisting.
MintsAreLive == \A i \in DOMAIN minted : minted[i].fate = "refused" => "revoked" \in seen

\* A mint is submitted twice for an asset only if the page stopped waiting for a mint that was
\* under way (the reset button, another handler's end, a lost connection, a
\* reload), or if an upload that came too late brought the draft back.
MintedOnce ==
    \A i, j \in DOMAIN minted :
        i # j /\ minted[i].meta = minted[j].meta => "freed" \in seen

\* The hash that the page stores with a token, the only one there is to verify a
\* document against, and the link that the mint put on the chain are of one document,
\* unless a second file was chosen: then the link of the first may stay, or come
\* later, next to the hash of the second.  That the link is never on the chain without
\* a hash in the row is part of it.
AnchoredTogether ==
    \A k \in kept : minted[k.mint].cid \in {None, k.doc} \/ "rechosen" \in seen

\* Who has signed the attestation is not left at that step, where there is nothing
\* more to press, unless the request after the signature failed or was cut off.
NotStuckAtKyc ==
    Step = "kyc" /\ page.saved.kyc => (\E o \in Ops : op[o].kind = "kyc") \/ "kycLost" \in seen

\* From the review on, a reload finds the metadata that were paid for, at a step
\* that can go on with them, although handlers save what they were rendered with.
DraftIsUsable ==
    Step \in {"review", "document", "kyc", "mint"} =>
        draft # None /\ draft.meta # 0 /\ draft.step # "describe"
=============================================================================
