----------------------------- MODULE WagerRules -----------------------------
(***************************************************************************)
(* The business rules of a wager transaction, as operators without state:  *)
(* which kinds move the balance and in which direction, which reference a  *)
(* reversal accepts, when a movement is refused, and when a transaction    *)
(* that waits for its reference is given up.  Everything here is decided   *)
(* from values already read; the modules that read them use these rules.   *)
(***************************************************************************)
EXTENDS Integers

Kinds == {"OPENING", "BET", "WIN", "LOSS", "REFUND", "ROLLBACK"}

\* "ABSENT" stands for the row that does not exist.
Statuses == {"ABSENT", "PENDING", "PENDING_REFERENCE", "PROCESSED", "REJECTED", "FAILED"}

TerminalStatuses == {"PROCESSED", "REJECTED", "FAILED"}

\* The statuses of the partial unique index wt_one_active_reversal_per_kind
\* and of findActiveReversalOf.  The mutant leaves PROCESSED out.
WaitingStatuses == {"PENDING", "PENDING_REFERENCE"}
ActiveStatuses == {"PENDING", "PENDING_REFERENCE", "PROCESSED"}

ReversalKinds == {"REFUND", "ROLLBACK"}

\* The rejection codes a unit of work persists.  NoFailure is the null column.
NoFailure == "NONE"
RejectionCodes ==
  {"INSUFFICIENT_FUNDS", "REVERSAL_WOULD_OVERDRAW", "WALLET_CURRENCY_MISMATCH",
   "REFERENCE_NOT_FOUND", "REFERENCE_KIND_MISMATCH",
   "REFERENCE_ATTRIBUTES_MISMATCH", "AMOUNT_MISMATCH", "ALREADY_REVERSED"}

RequiresReference(kind) == kind \in ReversalKinds

AffectsBalance(kind) == kind # "LOSS"

-----------------------------------------------------------------------------
(* References                                                              *)

\* A request WagerTransaction.create accepts.
WellFormed(r, none) ==
  /\ r.kind # "OPENING"
  /\ r.amount > 0
  /\ RequiresReference(r.kind) => r.ref # none

\* What the payload hash covers: every business field, neither the
\* idempotency key nor the message that carried the request.  The hash is
\* taken to be injective.
Payload(r) ==
  <<r.ext, r.wallet, r.context, r.kind, r.amount, r.currency, r.ref>>

KindAccepted(kind, referenceKind) ==
  \/ kind = "REFUND" /\ referenceKind = "BET"
  \/ kind = "ROLLBACK" /\ referenceKind \in {"BET", "WIN", "REFUND"}

\* The context is the pair of the player and the round.
AttributesMatch(r, reference) ==
  /\ reference.context = r.context
  /\ reference.wallet = r.wallet
  /\ reference.currency = r.currency

\* The first rule the reference breaks, in the order the code tries them.
ReferenceFailure(r, reference) ==
  CASE ~KindAccepted(r.kind, reference.kind) -> "REFERENCE_KIND_MISMATCH"
    [] /\ KindAccepted(r.kind, reference.kind)
       /\ ~AttributesMatch(r, reference) -> "REFERENCE_ATTRIBUTES_MISMATCH"
    [] /\ KindAccepted(r.kind, reference.kind)
       /\ AttributesMatch(r, reference)
       /\ reference.amount # r.amount -> "AMOUNT_MISMATCH"
    [] OTHER -> NoFailure

\* attempts already counts the failed attempt; elapsed says that the
\* time-to-live since pending_reference_since has passed.
GiveUpOnReference(attempts, maxAttempts, elapsed) ==
  attempts >= maxAttempts \/ elapsed

-----------------------------------------------------------------------------
(* Movements                                                               *)

\* REFUND credits; ROLLBACK is the inverse of its reference.
LedgerDirection(kind, referenceKind) ==
  IF \/ kind \in {"OPENING", "WIN", "REFUND"}
     \/ kind = "ROLLBACK" /\ referenceKind = "BET"
  THEN "CREDIT"
  ELSE "DEBIT"

SignedAmount(direction, amount) ==
  IF direction = "CREDIT" THEN amount ELSE -amount

\* Mutant of MovementFailure: a debit below zero passes.
CurrencyFailureOnly(r, direction, balance, currency) ==
  IF r.currency # currency THEN "WALLET_CURRENCY_MISMATCH" ELSE NoFailure

\* Why Wallet.debit or Wallet.credit throws on a wallet of this balance and
\* currency, as the code toFailureCode persists.
MovementFailure(r, direction, balance, currency) ==
  CASE r.currency # currency -> "WALLET_CURRENCY_MISMATCH"
    [] /\ r.currency = currency
       /\ balance + SignedAmount(direction, r.amount) < 0 ->
         IF RequiresReference(r.kind) THEN "REVERSAL_WOULD_OVERDRAW"
                                      ELSE "INSUFFICIENT_FUNDS"
    [] OTHER -> NoFailure
=============================================================================
