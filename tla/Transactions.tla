---------------------------- MODULE Transactions ----------------------------
(***************************************************************************)
(* From a click to a result of the chain: the key a tab believes to be the *)
(* active one of its wallet extension; transactions that a route builds,   *)
(* the wallet signs and a node takes; transactions that the agent signs    *)
(* when the user has signed a message; and the server that waits until its *)
(* transaction is executed.                                                *)
(***************************************************************************)
EXTENDS Naturals, Sequences, DeployStatus

CONSTANTS Keys, None,
          Agent,         \* the account of the server
          New,           \* the keys whose account does not exist yet
          Secp,          \* the keys whose algorithm is Secp256k1
          Flows,         \* bound: clicks, each does one thing
          Clicks,        \* bound: what each of them may be for
          Nodes,         \* RPC_ENDPOINTS
          MaxPolls       \* questions before the server gives up: 240 s / 4 s

ASSUME KeysAssumption == Agent \notin Keys /\ New \cup Secp \subseteq Keys
ASSUME PollsAssumption == MaxPolls \in Nat \ {0} /\ Nodes \in Nat \ {0}

VARIABLES extension,     \* whether it is connected to the site, and its active key
          key,           \* publicKey of the wallet context
          reading,       \* the key a check or a connect has asked for, still on its way
          flow,          \* the clicks in flight
          txs,           \* transactions the node has accepted
          fate,          \* what became of them
          accounts,      \* accounts that exist
          seen           \* history: the disturbances that have happened

wallet == <<extension, key, reading>>
vars == <<wallet, flow, txs, fate, accounts, seen>>

\* What a click is for: a CSPR transfer, an escrow call and any other contract call
\* are signed in the wallet; for a stake, a claim or a mint the wallet signs a message
\* and the agent the transaction; a holder is registered without the wallet.
Kinds == {"transfer", "escrow", "contract", "stake", "claim", "mint", "register"}
FirstStep(kind) == CASE kind \in {"transfer", "escrow", "contract"} -> "build"
                     [] kind \in {"stake", "claim", "mint"} -> "message"
                     [] kind = "register" -> "node"
Idle == [kind |-> "idle", pc |-> "", who |-> None, from |-> None, signer |-> None, tx |-> 0, polls |-> 0]
At(f, pc) == flow[f].pc = pc
Goes(f, pc) == flow' = [flow EXCEPT ![f].pc = pc]
Fails(f) == flow' = [flow EXCEPT ![f] = [Idle EXCEPT !.kind = "failed"]]
-----------------------------------------------------------------------------
(* The wallet context.  Every event of the extension sets the key at once;   *)
(* what was asked for earlier may arrive later.                              *)

\* 300 ms after the page is shown, and when the user connects.
Ask ==
    /\ extension.connected /\ reading = None
    /\ reading' = extension.active
    /\ UNCHANGED <<extension, key, flow, txs, fate, accounts, seen>>

Answer ==
    /\ reading # None
    /\ key' = reading /\ reading' = None
    /\ seen' = IF extension.connected /\ reading = extension.active THEN seen ELSE seen \cup {"lateAnswer"}
    /\ UNCHANGED <<extension, flow, txs, fate, accounts>>

\* casper-wallet:connected
Connected(k) ==
    /\ ~extension.connected
    /\ extension' = [connected |-> TRUE, active |-> k]
    /\ key' = k
    /\ UNCHANGED <<reading, flow, txs, fate, accounts, seen>>

\* casper-wallet:disconnected, from the extension or by disconnectFromSite
Disconnected ==
    /\ extension.connected
    /\ extension' = [extension EXCEPT !.connected = FALSE]
    /\ key' = None
    /\ UNCHANGED <<reading, flow, txs, fate, accounts, seen>>

\* casper-wallet:locked: the site stays connected
Locked ==
    /\ extension.connected
    /\ key' = None
    /\ UNCHANGED <<extension, reading, flow, txs, fate, accounts, seen>>

\* (A slip: nobody listens for casper-wallet:active-key-changed.)
KeyChangedUnheard(k) ==
    /\ extension.connected /\ extension.active # k
    /\ extension' = [extension EXCEPT !.active = k]
    /\ UNCHANGED <<key, reading, flow, txs, fate, accounts, seen>>

KeyChanged(k) ==
    /\ extension.connected /\ extension.active # k
    /\ extension' = [extension EXCEPT !.active = k]
    /\ key' = k
    /\ UNCHANGED <<reading, flow, txs, fate, accounts, seen>>

-----------------------------------------------------------------------------
(* A click goes on with the key of the rendering it was made in.             *)

Click(f, kind) ==
    /\ flow[f] = Idle /\ key # None /\ kind \in Clicks[f]
    /\ flow' = [flow EXCEPT ![f] = [Idle EXCEPT !.kind = kind, !.who = key, !.pc = FirstStep(kind)]]
    /\ UNCHANGED <<wallet, txs, fate, accounts, seen>>

Put(initiator, to) ==
    /\ txs' = Append(txs, [initiator |-> initiator, to |-> to])
    /\ fate' = Append(fate, "pending")

\* A node has taken the transaction; its answer arrives, or the click fails with a
\* transaction on its way.
Sent(f, initiator, to, next) ==
    /\ Put(initiator, to)
    /\ \/ flow' = [flow EXCEPT ![f].pc = next, ![f].tx = Len(txs) + 1]
       \/ Fails(f)

\* What the wallet is to sign says it is from the key that the page has passed.
Unsigned(f) == flow' = [flow EXCEPT ![f].pc = "sign", ![f].from = flow[f].who]

\* make-transfer: the agent first sends the buyer the price and the gas, whoever the
\* buyer is, then waits for the account to exist, for a minute.
SeedBuyer(f) ==
    /\ At(f, "build") /\ flow[f].kind = "transfer"
    /\ Put(Agent, flow[f].who)
    /\ Goes(f, "account")
    /\ UNCHANGED <<wallet, accounts, seen>>

MakeTransfer(f) ==
    /\ At(f, "account")
    /\ \/ flow[f].who \in accounts /\ Unsigned(f)
       \/ flow[f].who \notin accounts /\ Fails(f)               \* after 60 s
    /\ UNCHANGED <<wallet, txs, fate, accounts, seen>>

\* build-tx knows how to list and to cancel in the escrow, not to buy.
BuildTx(f) ==
    /\ At(f, "build") /\ flow[f].kind = "escrow"
    /\ Unsigned(f)
    /\ UNCHANGED <<wallet, txs, fate, accounts, seen>>

MakeContractTx(f) ==
    /\ At(f, "build") /\ flow[f].kind = "contract"
    /\ Unsigned(f)
    /\ UNCHANGED <<wallet, txs, fate, accounts, seen>>

\* The extension signs with the key it is asked to sign with, if it is connected;
\* it does not look at who the transaction says it is from.
SignTransaction(f) ==
    /\ At(f, "sign")
    /\ extension.connected
    /\ flow' = [flow EXCEPT ![f].pc = "submit", ![f].signer = flow[f].who]
    /\ UNCHANGED <<wallet, txs, fate, accounts, seen>>

\* signAndSubmit writes "01" before every signature, signAndSubmitDeploy the number
\* of the algorithm of the key.
Prefix(f) == IF flow[f].kind = "transfer" /\ flow[f].signer \in Secp THEN "02" ELSE "01"
Accepts(f) ==
    /\ flow[f].signer = flow[f].from
    /\ Prefix(f) = IF flow[f].signer \in Secp THEN "02" ELSE "01"

Takes(f) == IF Accepts(f) THEN Sent(f, flow[f].from, Agent, "done")
                          ELSE Fails(f) /\ UNCHANGED <<txs, fate>>

\* signAndSubmitDeploy through submit-deploy
SubmitDeploy(f) ==
    /\ At(f, "submit") /\ flow[f].kind = "transfer"
    /\ Takes(f)
    /\ UNCHANGED <<wallet, accounts, seen>>

\* signAndSubmit asks the node itself
SignAndSubmit(f) ==
    /\ At(f, "submit") /\ flow[f].kind = "escrow"
    /\ Takes(f)
    /\ UNCHANGED <<wallet, accounts, seen>>

\* the route for what a caller has had signed by signTransaction
SubmitTransaction(f) ==
    /\ At(f, "submit") /\ flow[f].kind = "contract"
    /\ Takes(f)
    /\ UNCHANGED <<wallet, accounts, seen>>

SignMessage(f) ==
    /\ At(f, "message")
    /\ extension.connected
    /\ Goes(f, "put")
    /\ UNCHANGED <<wallet, txs, fate, accounts, seen>>

\* The delegator is the agent, whoever clicked.
Delegate(f) ==
    /\ At(f, "put") /\ flow[f].kind = "stake"
    /\ Sent(f, Agent, Agent, "done")
    /\ UNCHANGED <<wallet, accounts, seen>>

\* claim pays its caller, which is the agent again.
ClaimYield(f) ==
    /\ At(f, "put") /\ flow[f].kind = "claim"
    /\ Sent(f, Agent, Agent, "done")
    /\ UNCHANGED <<wallet, accounts, seen>>

SubmitMint(f) ==
    /\ At(f, "put") /\ flow[f].kind = "mint"
    /\ Sent(f, Agent, Agent, "wait")
    /\ UNCHANGED <<wallet, accounts, seen>>

\* register-holder, with a key file of the server; without one it answers success.
RegisterNothing(f) ==
    /\ At(f, "node") /\ flow[f].tx = 0 /\ flow[f].polls = 0
    /\ Goes(f, "done")
    /\ UNCHANGED <<wallet, txs, fate, accounts, seen>>

\* withFallback: the next of three nodes is asked when one refuses or does not
\* answer.  The transaction is the same, so a node that has it already refuses it.
WithFallback(f) ==
    /\ At(f, "node")
    /\ \/ /\ flow[f].tx = 0 /\ Put(Agent, Agent)
          /\ flow' = [flow EXCEPT ![f].pc = "done", ![f].tx = Len(txs) + 1]
       \/ IF flow[f].polls + 1 = Nodes THEN Fails(f) /\ UNCHANGED <<txs, fate>>
          ELSE \/ flow' = [flow EXCEPT ![f].polls = @ + 1] /\ UNCHANGED <<txs, fate>>
               \/ /\ flow[f].tx = 0 /\ Put(Agent, Agent)
                  /\ flow' = [flow EXCEPT ![f].polls = @ + 1, ![f].tx = Len(txs) + 1]
    /\ UNCHANGED <<wallet, accounts, seen>>

\* Cancelled in the popup, refused by a route or a node, or never answered.
GiveUp(f) ==
    /\ flow[f].pc \in {"build", "sign", "message", "put", "submit"}
    /\ Fails(f)
    /\ UNCHANGED <<wallet, txs, fate, accounts, seen>>

\* A transaction the node accepted is executed; a first transfer creates an account.
Execute(n) ==
    /\ fate[n] = "pending"
    /\ \/ /\ txs[n].initiator \in accounts
          /\ fate' = [fate EXCEPT ![n] = "success"]
          /\ accounts' = accounts \cup {txs[n].to}
       \/ fate' = [fate EXCEPT ![n] = "failure"] /\ UNCHANGED accounts
    /\ UNCHANGED <<wallet, flow, txs, seen>>

\* (A slip: the questions are not counted.)
PollUncounted(f) ==
    /\ At(f, "wait")
    /\ \E s \in getDeployStatusFromNode(fate[flow[f].tx]) :
          IF s = "confirmed" THEN Goes(f, "done")
          ELSE IF s = "failed" THEN Fails(f)
          ELSE UNCHANGED flow
    /\ UNCHANGED <<wallet, txs, fate, accounts, seen>>

\* waitForDeploy: ask both nodes every four seconds.
Poll(f) ==
    /\ At(f, "wait")
    /\ \E s \in getDeployStatusFromNode(fate[flow[f].tx]) :
          IF s = "confirmed" THEN Goes(f, "done")
          ELSE IF s = "failed" \/ flow[f].polls + 1 = MaxPolls THEN Fails(f)
          ELSE flow' = [flow EXCEPT ![f].polls = @ + 1]
    /\ UNCHANGED <<wallet, txs, fate, accounts, seen>>

-----------------------------------------------------------------------------
Init ==
    /\ extension \in [connected : BOOLEAN, active : Keys]
    /\ key = None /\ reading = None
    /\ flow = [f \in Flows |-> Idle]
    /\ txs = <<>> /\ fate = <<>>
    /\ accounts = (Keys \cup {Agent}) \ New
    /\ seen = {}

Step(f) ==
    \/ SeedBuyer(f) \/ MakeTransfer(f) \/ BuildTx(f) \/ MakeContractTx(f) \/ SignTransaction(f)
    \/ SubmitDeploy(f) \/ SignAndSubmit(f) \/ SubmitTransaction(f)
    \/ SignMessage(f) \/ Delegate(f) \/ ClaimYield(f) \/ SubmitMint(f)
    \/ RegisterNothing(f) \/ WithFallback(f) \/ GiveUp(f) \/ Poll(f)

Next ==
    \/ Ask \/ Answer \/ Disconnected \/ Locked
    \/ \E k \in Keys : Connected(k) \/ KeyChanged(k)
    \/ \E f \in Flows : Step(f) \/ \E kind \in Kinds : Click(f, kind)
    \/ \E n \in DOMAIN txs : Execute(n)

\* A timer drives the polls of the server; nothing else is bound to happen.
Fairness == \A f \in Flows : WF_vars(Poll(f))
Spec == Init /\ [][Next]_vars /\ Fairness
-----------------------------------------------------------------------------
\* The key of the page is the active key of a connected extension, or none: whatever
\* connects, switches, locks and disconnects while a question about the key is on its
\* way, unless the answer of that question is out of date when it arrives.
KeyIsActive ==
    "lateAnswer" \notin seen => key = None \/ (extension.connected /\ key = extension.active)

\* Every wait ends, whatever the chain and the nodes do: a transaction that is never
\* executed or whose failure is read as pending holds the request for MaxPolls polls.
WaitsEnd == \A f \in Flows : At(f, "wait") ~> ~At(f, "wait")
=============================================================================
