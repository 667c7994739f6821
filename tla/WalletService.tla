--------------------------- MODULE WalletService ---------------------------
(***************************************************************************)
(* What the wallet API promises its clients: each operation takes effect   *)
(* at one instant, on the balance of that instant, at most once, and its   *)
(* outcome never changes.  Only a request that may have come before its    *)
(* wallet was opened can be refused, noted or parked on what it saw a      *)
(* moment ago; it never moves money so.  No statements, locks, versions,   *)
(* messages, sweepers, retries or replays: those of the code that show no  *)
(* new outcome are stutters of this specification.                         *)
(***************************************************************************)
EXTENDS WagerData

VARIABLES
  balance,  \* wallet -> its balance, NoBalance until it is opened
  outcome,  \* transaction -> how it ended, or that it waits
  ledger    \* wallet -> its entries, in the order they took effect

serviceVars == <<balance, outcome, ledger>>

Outcomes ==
  [status : {"ABSENT", "PENDING_REFERENCE", "PROCESSED", "REJECTED"},
   failure : RejectionCodes \cup {NoFailure},
   reference : TxId \cup {None}, observed : Balances]

NoOutcome == [status |-> "ABSENT", failure |-> NoFailure, reference |-> None,
              observed |-> NoBalance]

Done(reference, observed) ==
  [status |-> "PROCESSED", failure |-> NoFailure, reference |-> reference,
   observed |-> observed]

Refused(code, observed) ==
  [status |-> "REJECTED", failure |-> code, reference |-> None,
   observed |-> observed]

\* Opening a wallet with a positive balance is its first transaction.
Opening(w) ==
  IF HasOpeningBalance(w) THEN Done(None, WalletInfo[w].opening) ELSE NoOutcome

FirstEntries(w) ==
  IF HasOpeningBalance(w) THEN <<Entry(w, "CREDIT", 0)>> ELSE <<>>

Init ==
  /\ balance = [w \in Wallet |->
                 IF w \in OpenAtStart THEN WalletInfo[w].opening ELSE NoBalance]
  /\ outcome = [t \in TxId |-> IF t \in OpenAtStart THEN Opening(t) ELSE NoOutcome]
  /\ ledger = [w \in Wallet |-> IF w \in OpenAtStart THEN FirstEntries(w) ELSE <<>>]

-----------------------------------------------------------------------------
IsOpen(w) == balance[w] # NoBalance

Accepted == {t \in TxId : outcome[t].status # "ABSENT"}

\* A transaction is decided the first time it arrives, or after waiting for
\* its reference.  Keys and external ids are taken once.
Fresh(t) ==
  /\ outcome[t].status = "ABSENT"
  /\ WellFormed(Req(t), None)
  /\ \A s \in Accepted : Req(s).key # Req(t).key /\ Req(s).ext # Req(t).ext

Undecided(t) ==
  /\ IsOpen(Req(t).wallet)
  /\ Fresh(t) \/ outcome[t].status = "PENDING_REFERENCE"

\* What a reversal may point to; null stands for the reference of the rest.
References(t) ==
  IF RequiresReference(Req(t).kind)
  THEN {s \in TxId : outcome[s].status = "PROCESSED" /\ Req(s).ext = Req(t).ref}
  ELSE {None}

Reversed(s, kind) ==
  \E t \in TxId : /\ outcome[t].status = "PROCESSED"
                  /\ outcome[t].reference = s
                  /\ Req(t).kind = kind

\* The wallet of a transaction never depends on another one, except that a
\* reversal is decided only when no reference of its own wallet is there.
Unreferenced(t) ==
  /\ RequiresReference(Req(t).kind)
  /\ \A s \in References(t) : Req(s).wallet # Req(t).wallet

Way(t, s) ==
  LedgerDirection(Req(t).kind, IF s = None THEN "NONE" ELSE Req(s).kind)

\* The first rule that t breaks on the balance b, if it points to s.
RefusalOf(t, s, b, reversed) ==
  CASE s # None /\ ReferenceFailure(Req(t), Req(s)) # NoFailure ->
         ReferenceFailure(Req(t), Req(s))
    [] /\ s # None
       /\ ReferenceFailure(Req(t), Req(s)) = NoFailure
       /\ reversed -> "ALREADY_REVERSED"
    [] OTHER ->
         IF AffectsBalance(Req(t).kind)
         THEN MovementFailure(Req(t), Way(t, s), b,
                              WalletInfo[Req(t).wallet].currency)
         ELSE NoFailure

\* The balance shown to a client, of a wallet in the currency it asked for.
Shown(t, b) ==
  IF WalletInfo[Req(t).wallet].currency = Req(t).currency THEN b ELSE NoBalance

-----------------------------------------------------------------------------
\* A request may be there before its wallet, found nothing to lock, and go on
\* when the wallet is opened.
Early(t) == Req(t).wallet \notin OpenAtStart /\ outcome[t].status = "ABSENT"

\* The balances that w has had.
Had(w) == {WalletInfo[w].opening} \cup {ledger[w][i].after : i \in 1..Len(ledger[w])}

\* The balance t is judged by, and whether s was reversed at that moment.
Seen(t) == IF Early(t) THEN Had(Req(t).wallet) ELSE {balance[Req(t).wallet]}

ReversedBefore(t, s) ==
  {Reversed(s, Req(t).kind)} \cup (IF Early(t) THEN {FALSE} ELSE {})

-----------------------------------------------------------------------------
Open(w) ==
  /\ \A v \in Wallet : IsOpen(v) => v # w /\ ~SamePurse(v, w)
  /\ balance' = [balance EXCEPT ![w] = WalletInfo[w].opening]
  /\ outcome' = [outcome EXCEPT ![w] = Opening(w)]
  /\ ledger' = [ledger EXCEPT ![w] = FirstEntries(w)]

Conclude(t, o) == outcome' = [outcome EXCEPT ![t] = o]

\* The movement and its entry.
Post(t, s) ==
  LET w == Req(t).wallet
      entry == Entry(t, Way(t, s), balance[w])
  IN
  /\ AffectsBalance(Req(t).kind)
  /\ RefusalOf(t, s, balance[w], Reversed(s, Req(t).kind)) = NoFailure
  /\ balance' = [balance EXCEPT ![w] = entry.after]
  /\ ledger' = [ledger EXCEPT ![w] = Append(@, entry)]
  /\ Conclude(t, Done(s, entry.after))

\* A LOSS is only noted.
Note(t) ==
  /\ ~AffectsBalance(Req(t).kind)
  /\ \E b \in Seen(t) : Conclude(t, Done(None, Shown(t, b)))
  /\ UNCHANGED <<balance, ledger>>

Refuse(t, s) ==
  /\ \E b \in Seen(t), reversed \in ReversedBefore(t, s) :
       /\ RefusalOf(t, s, b, reversed) # NoFailure
       /\ Conclude(t, Refused(RefusalOf(t, s, b, reversed), Shown(t, b)))
  /\ UNCHANGED <<balance, ledger>>

\* A reversal waits for its reference, and is given up after a while.
Wait(t) ==
  /\ outcome[t].status = "ABSENT"
  /\ RequiresReference(Req(t).kind)
  /\ Early(t) \/ Unreferenced(t)
  /\ Conclude(t, [NoOutcome EXCEPT !.status = "PENDING_REFERENCE"])
  /\ UNCHANGED <<balance, ledger>>

GiveUp(t) ==
  /\ outcome[t].status = "PENDING_REFERENCE"
  /\ Unreferenced(t)
  /\ Conclude(t, Refused("REFERENCE_NOT_FOUND", NoBalance))
  /\ UNCHANGED <<balance, ledger>>

Decide(t) ==
  /\ Undecided(t)
  /\ \/ Wait(t) \/ GiveUp(t) \/ Note(t)
     \/ \E s \in References(t) : Post(t, s) \/ Refuse(t, s)

Next == (\E w \in Wallet : Open(w)) \/ (\E t \in Cmd : Decide(t))

Spec == Init /\ [][Next]_serviceVars
=============================================================================
