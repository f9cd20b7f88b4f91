-------------------------------- MODULE Pages --------------------------------
(***************************************************************************)
(* Four things that a browser does, each with a specification of its own:  *)
(* the wizard of the chat page, the offer form of the asset page, the      *)
(* settings, and the wallet context with what is signed and sent through   *)
(* it.  They share nothing but the name of null.                           *)
(***************************************************************************)
EXTENDS Wizard

CONSTANTS MaxOffers, MaxForms, MaxSaves,
          WalletKeys, Agent, New, Secp, Flows, Clicks, Nodes, MaxPolls
VARIABLES hasRow, onChain, verified, route, events, link, current, steps, result,
          stored, form, save,
          extension, key, reading, flow, txs, fate, accounts, late

F == INSTANCE OfferPage WITH server <- route
S == INSTANCE Settings
T == INSTANCE Transactions WITH Keys <- WalletKeys, seen <- late

offerVars == <<hasRow, onChain, verified, route, events, link, current, steps, result>>
settingsVars == <<stored, form, save>>
walletVars == <<extension, key, reading, flow, txs, fate, accounts, late>>

\* The offer form shows only what was done (OfferPage.tla).
ShownIsDone == F!ShownIsDone

\* Saving the settings changes what the user has set (Settings.tla).
OnlyWhatWasSet == S!OnlyWhatWasSet

\* The key of the page is the active one of the extension (Transactions.tla).
KeyIsActive == T!KeyIsActive
=============================================================================
