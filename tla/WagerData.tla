----------------------------- MODULE WagerData -----------------------------
(***************************************************************************)
(* What the wallet modules talk about: the wallets of an instance, the     *)
(* requests for them, and the columns of the rows and ledger entries that  *)
(* a request turns into and that never change afterwards.                  *)
(***************************************************************************)
EXTENDS Integers, Sequences, FiniteSets, WagerRules

CONSTANTS
  Wallet,       \* wallet ids
  WalletInfo,   \* wallet id -> [player, currency, opening balance]
  OpenAtStart,  \* the wallets that exist before the behaviour starts
  Cmd,          \* the requests clients and producers may send
  Request,      \* request -> its fields
  Key, Ext,     \* idempotency keys; (provider, external id) pairs
  Message,      \* ids of SQS messages, as the inbox records them
  None          \* null

\* A row of wager_transaction is named after the request that inserted it;
\* the internal OPENING row of a wallet is named after the wallet.
TxId == Cmd \cup Wallet

Requests ==
  [key : Key, ext : Ext, wallet : Wallet, context : STRING,
   kind : Kinds \ {"OPENING"}, amount : Nat, currency : STRING,
   ref : Ext \cup {None}, msg : Message \cup {None}]

ASSUME WalletAssumption ==
  /\ WalletInfo \in [Wallet -> [player : STRING, currency : STRING, opening : Nat]]
  /\ OpenAtStart \subseteq Wallet
  /\ None \notin TxId \cup Ext \cup Message

ASSUME RequestAssumption ==
  /\ Request \in [Cmd -> Requests]
  /\ Cmd \cap Wallet = {}
  /\ Ext \cap Wallet = {}
  /\ Key \cap Wallet = {}

\* WagerTransaction.opening, as CreateWallet inserts it.
OpeningRequest(w) ==
  [key |-> w, ext |-> w, wallet |-> w, context |-> WalletInfo[w].player,
   kind |-> "OPENING", amount |-> WalletInfo[w].opening,
   currency |-> WalletInfo[w].currency, ref |-> None, msg |-> None]

\* The columns of a row that never change after its insertion.
Req(t) == IF t \in Cmd THEN Request[t] ELSE OpeningRequest(t)

\* A balance column that may be null.
NoBalance == -1
Balances == Nat \cup {NoBalance}

Entries == [tx : TxId, direction : {"CREDIT", "DEBIT"}, amount : Nat,
            before : Nat, after : Nat]

Entry(t, direction, before) ==
  [tx |-> t, direction |-> direction, amount |-> Req(t).amount,
   before |-> before,
   after |-> before + SignedAmount(direction, Req(t).amount)]

HasOpeningBalance(w) == WalletInfo[w].opening > 0

\* wallet_player_currency_uq: a player has one wallet in a currency.
SamePurse(v, w) ==
  /\ WalletInfo[v].player = WalletInfo[w].player
  /\ WalletInfo[v].currency = WalletInfo[w].currency

ASSUME PurseAssumption ==
  \A v, w \in OpenAtStart : v # w => ~SamePurse(v, w)
=============================================================================
