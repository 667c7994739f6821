------------------------ MODULE LedgerReadersProofs ------------------------
(***************************************************************************)
(* Proofs about the readers of a ledger, for any wallets, requests,        *)
(* readers, pages and clocks, and with them the types of the service they  *)
(* read: no accepted operation leaves a negative balance.                  *)
(***************************************************************************)
EXTENDS LedgerReaders, TLAPS, WellFoundedInduction

ServiceTypeOK ==
  /\ balance \in [Wallet -> Balances]
  /\ outcome \in [TxId -> Outcomes]
  /\ ledger \in [Wallet -> Seq(Entries)]

\* Every ledger either stays as it is or gains one entry at its end.
Grows(w) ==
  \/ ledger'[w] = ledger[w]
  \/ /\ ledger'[w] # ledger[w]
     /\ Len(ledger'[w]) = Len(ledger[w]) + 1

-----------------------------------------------------------------------------
(* The operations of the service                                           *)

LEMMA RequestTypes ==
  ASSUME NEW t \in TxId
  PROVE  /\ Req(t).wallet \in Wallet /\ Req(t).amount \in Nat
         /\ t \in Cmd => Req(t).kind \in Kinds \ {"OPENING"}
BY WalletAssumption, RequestAssumption DEF Req, OpeningRequest, TxId, Requests

LEMMA WayTypes ==
  ASSUME NEW t, NEW s
  PROVE  Way(t, s) \in {"CREDIT", "DEBIT"}
BY DEF Way, LedgerDirection

\* An entry the rules let pass leaves a balance of zero or more.
LEMMA EntryTypes ==
  ASSUME ServiceTypeOK, NEW t \in TxId, NEW s, IsOpen(Req(t).wallet),
         NEW reversed \in BOOLEAN, AffectsBalance(Req(t).kind),
         RefusalOf(t, s, balance[Req(t).wallet], reversed) = NoFailure
  PROVE  Entry(t, Way(t, s), balance[Req(t).wallet]) \in Entries
<1> DEFINE w == Req(t).wallet
           e == Entry(t, Way(t, s), balance[w])
<1>1. w \in Wallet /\ Req(t).amount \in Nat
  BY RequestTypes
<1>2. balance[w] \in Nat
  BY <1>1 DEF ServiceTypeOK, Balances, IsOpen, NoBalance
<1>3. MovementFailure(Req(t), Way(t, s), balance[w], WalletInfo[w].currency) = NoFailure
  <2>1. CASE s # None /\ ReferenceFailure(Req(t), Req(s)) # NoFailure
    BY <2>1 DEF RefusalOf
  <2>2. CASE /\ s # None /\ ReferenceFailure(Req(t), Req(s)) = NoFailure
             /\ reversed
    BY <2>2 DEF RefusalOf, NoFailure
  <2>3. CASE /\ ~(s # None /\ ReferenceFailure(Req(t), Req(s)) # NoFailure)
             /\ ~(/\ s # None /\ ReferenceFailure(Req(t), Req(s)) = NoFailure
                  /\ reversed)
    BY <2>3 DEF RefusalOf
  <2> QED BY <2>1, <2>2, <2>3
<1>4. balance[w] + SignedAmount(Way(t, s), Req(t).amount) >= 0
  BY <1>1, <1>2, <1>3 DEF MovementFailure, NoFailure, SignedAmount
<1>5. e.after \in Nat
  BY <1>1, <1>2, <1>4 DEF Entry, SignedAmount
<1> QED
  BY <1>1, <1>2, <1>5, WayTypes DEF Entry, Entries

LEMMA RefusalTypes ==
  ASSUME NEW t, NEW s, NEW balanceSeen, NEW reversed \in BOOLEAN
  PROVE  RefusalOf(t, s, balanceSeen, reversed) \in RejectionCodes \cup {NoFailure}
<1>1. ReferenceFailure(Req(t), Req(s)) \in RejectionCodes \cup {NoFailure}
  BY DEF ReferenceFailure, RejectionCodes
<1>2. ASSUME NEW d, NEW b, NEW c
      PROVE  MovementFailure(Req(t), d, b, c) \in RejectionCodes \cup {NoFailure}
  BY DEF MovementFailure, RejectionCodes
<1> QED
  BY <1>1, <1>2 DEF RefusalOf, RejectionCodes

\* The balances a request may be judged by are balances.
LEMMA SeenTypes ==
  ASSUME ServiceTypeOK, NEW t \in TxId
  PROVE  Seen(t) \subseteq Balances
<1> DEFINE w == Req(t).wallet
<1>1. w \in Wallet /\ WalletInfo[w].opening \in Nat
  BY RequestTypes, WalletAssumption
<1>2. ASSUME NEW i \in 1..Len(ledger[w])
      PROVE  ledger[w][i].after \in Nat
  <2>1. ledger[w] \in Seq(Entries)
    BY <1>1 DEF ServiceTypeOK
  <2>2. ledger[w][i] \in Entries
    BY <2>1
  <2> QED BY <2>2 DEF Entries
<1>3. balance[w] \in Balances
  BY <1>1 DEF ServiceTypeOK
<1> QED BY <1>1, <1>2, <1>3 DEF Seen, Had, Balances

LEMMA DecideTypes ==
  ASSUME ServiceTypeOK, NEW t \in Cmd, Decide(t)
  PROVE  /\ ServiceTypeOK'
         /\ \A v \in Wallet : balance[v] # NoBalance => balance'[v] # NoBalance
         /\ \A v \in Wallet : v # Req(t).wallet =>
              balance'[v] = balance[v] /\ ledger'[v] = ledger[v]
         /\ IsOpen(Req(t).wallet)
         /\ Grows(Req(t).wallet)
<1> DEFINE w == Req(t).wallet
<1>1. t \in TxId /\ w \in Wallet
  BY RequestTypes DEF TxId
<1>2. IsOpen(w)
  BY DEF Decide, Undecided
<1>3. \A b \in Seen(t) : Shown(t, b) \in Balances
  <2>1. Seen(t) \subseteq Balances
    BY <1>1, SeenTypes
  <2> QED BY <2>1 DEF Shown, Balances
<1>4. ASSUME NEW o \in Outcomes, Conclude(t, o), UNCHANGED <<balance, ledger>>
      PROVE  ServiceTypeOK' /\ balance' = balance /\ ledger' = ledger
  BY <1>1, <1>4 DEF ServiceTypeOK, Conclude
<1>5. \A b \in Balances : Refused("REFERENCE_NOT_FOUND", b) \in Outcomes
  BY DEF Refused, Outcomes, RejectionCodes
<1>6. ASSUME Wait(t) PROVE ServiceTypeOK'
  <2>1. [NoOutcome EXCEPT !.status = "PENDING_REFERENCE"] \in Outcomes
    BY DEF NoOutcome, Outcomes, Balances
  <2> QED BY <1>4, <1>6, <2>1 DEF Wait
<1>7. ASSUME GiveUp(t) PROVE ServiceTypeOK'
  <2>1. NoBalance \in Balances
    BY DEF Balances
  <2> QED BY <1>4, <1>5, <1>7, <2>1 DEF GiveUp
<1>8. ASSUME Note(t) PROVE ServiceTypeOK'
  <2>1. \A b \in Seen(t) : Done(None, Shown(t, b)) \in Outcomes
    BY <1>3 DEF Done, Outcomes
  <2> QED BY <1>4, <1>8, <2>1 DEF Note
<1>9. ASSUME NEW s \in References(t), Refuse(t, s)
      PROVE  /\ ServiceTypeOK' /\ balance' = balance /\ ledger' = ledger
  <2>1. \A b \in Seen(t), reversed \in ReversedBefore(t, s) :
          Refused(RefusalOf(t, s, b, reversed), Shown(t, b)) \in Outcomes
    <3>1. ReversedBefore(t, s) \subseteq BOOLEAN
      BY DEF ReversedBefore, Reversed
    <3> QED BY <1>3, <3>1, RefusalTypes DEF Refused, Outcomes
  <2> QED BY <1>4, <1>9, <2>1 DEF Refuse
<1>10. ASSUME NEW s \in References(t), Post(t, s)
       PROVE  /\ ServiceTypeOK'
              /\ \A v \in Wallet : balance[v] # NoBalance => balance'[v] # NoBalance
              /\ \A v \in Wallet : v # w => balance'[v] = balance[v] /\ ledger'[v] = ledger[v]
              /\ Grows(w)
  <2> DEFINE e == Entry(t, Way(t, s), balance[w])
  <2>1. /\ balance' = [balance EXCEPT ![w] = e.after]
        /\ ledger' = [ledger EXCEPT ![w] = Append(@, e)]
        /\ outcome' = [outcome EXCEPT ![t] = Done(s, e.after)]
    BY <1>10 DEF Post, Conclude
  <2>2. e \in Entries
    BY <1>1, <1>2, <1>10, EntryTypes DEF Post, Reversed
  <2>3. e.after \in Nat
    BY <2>2 DEF Entries
  <2>4. s \in TxId \cup {None}
    BY <1>10 DEF References
  <2>5. Done(s, e.after) \in Outcomes
    BY <2>3, <2>4 DEF Done, Outcomes, Balances
  <2>6. balance' \in [Wallet -> Balances] /\ outcome' \in [TxId -> Outcomes]
    BY <1>1, <2>1, <2>3, <2>5 DEF ServiceTypeOK, Balances
  <2>7. /\ ledger' \in [Wallet -> Seq(Entries)]
        /\ Len(ledger'[w]) = Len(ledger[w]) + 1 /\ ledger'[w] # ledger[w]
    <3> HIDE DEF e
    <3>1. ledger[w] \in Seq(Entries)
      BY <1>1 DEF ServiceTypeOK
    <3>2. /\ Append(ledger[w], e) \in Seq(Entries)
          /\ Len(Append(ledger[w], e)) = Len(ledger[w]) + 1
          /\ Len(ledger[w]) \in Nat
      BY <3>1, <2>2
    <3>3. ledger'[w] = Append(ledger[w], e)
      BY <1>1, <2>1 DEF ServiceTypeOK
    <3>4. ledger' \in [Wallet -> Seq(Entries)]
      BY <1>1, <2>1, <3>2 DEF ServiceTypeOK
    <3>5. Len(ledger'[w]) # Len(ledger[w])
      BY <3>2, <3>3
    <3> QED BY <3>2, <3>3, <3>4, <3>5
  <2>8. \A v \in Wallet : balance[v] # NoBalance => balance'[v] # NoBalance
    BY <1>1, <2>1, <2>3 DEF ServiceTypeOK, NoBalance
  <2>9. \A v \in Wallet : v # w => balance'[v] = balance[v] /\ ledger'[v] = ledger[v]
    BY <2>1 DEF ServiceTypeOK
  <2> QED BY <2>6, <2>7, <2>8, <2>9 DEF ServiceTypeOK, Grows
<1> DEFINE Kept == /\ \A v \in Wallet : balance[v] # NoBalance => balance'[v] # NoBalance
                   /\ \A v \in Wallet : v # w =>
                        balance'[v] = balance[v] /\ ledger'[v] = ledger[v]
                   /\ Grows(w)
<1>11. balance' = balance /\ ledger' = ledger => Kept
  BY DEF Grows
<1>12. ServiceTypeOK' /\ Kept
  <2> HIDE DEF Kept
  <2>1. \/ Wait(t) \/ GiveUp(t) \/ Note(t)
        \/ \E s \in References(t) : Post(t, s) \/ Refuse(t, s)
    BY DEF Decide
  <2>2. ASSUME NEW s \in References(t), Post(t, s) \/ Refuse(t, s)
        PROVE  ServiceTypeOK' /\ Kept
    <3>1. CASE Post(t, s)
      BY <1>10, <3>1 DEF Kept
    <3>2. CASE Refuse(t, s)
      BY <1>9, <1>11, <3>2
    <3> QED BY <2>2, <3>1, <3>2
  <2> QED BY <1>6, <1>7, <1>8, <1>11, <2>1, <2>2 DEF Wait, GiveUp, Note
<1> QED
  BY <1>2, <1>12

-----------------------------------------------------------------------------
(* The sum of a ledger                                                     *)

LEMMA LeastNatural ==
  ASSUME NEW T \in SUBSET Nat, T # {}
  PROVE  \E x \in T : \A y \in T : ~(y < x)
<1>1. \E x \in T : \A y \in T : <<y, x>> \notin OpToRel(<, Nat)
  BY NatLessThanWellFounded, WFMin, Zenon
<1>2. \A x, y \in Nat : y < x => <<y, x>> \in OpToRel(<, Nat)
  BY Zenon DEF OpToRel
<1> QED
  BY <1>1, <1>2

\* The running sum of the first n entries; whatever obeys the recursion is it.
LEMMA RunningSum ==
  ASSUME NEW entries, Len(entries) \in Nat, NEW g,
         g = [n \in 0..Len(entries) |->
               IF n = 0 THEN 0
               ELSE g[n - 1] + SignedAmount(entries[n].direction, entries[n].amount)]
  PROVE  SumSigned(entries) = g[Len(entries)]
<1> DEFINE N == Len(entries)
           Term(n) == SignedAmount(entries[n].direction, entries[n].amount)
           Recursion(f) == f = [n \in 0..N |-> IF n = 0 THEN 0 ELSE f[n - 1] + Term(n)]
           sum == CHOOSE f : Recursion(f)
<1>1. Recursion(g)
  OBVIOUS
<1>2. Recursion(sum)
  BY <1>1
<1>3. SumSigned(entries) = sum[N]
  BY DEF SumSigned
<1> DEFINE Apart == {n \in 0..N : sum[n] # g[n]}
<1>4. ASSUME NEW n \in 0..N
      PROVE  /\ sum[n] = IF n = 0 THEN 0 ELSE sum[n - 1] + Term(n)
             /\ g[n] = IF n = 0 THEN 0 ELSE g[n - 1] + Term(n)
  <2> HIDE DEF sum, Term
  <2> QED BY <1>1, <1>2
<1>5. Apart = {}
  <2> SUFFICES ASSUME Apart # {} PROVE FALSE
    OBVIOUS
  <2>1. PICK x \in Apart : \A y \in Apart : ~(y < x)
    <3>1. Apart \in SUBSET Nat
      OBVIOUS
    <3> HIDE DEF Apart
    <3> QED BY <3>1, LeastNatural
  <2>2. x \in 0..N /\ sum[x] # g[x]
    OBVIOUS
  <2> HIDE DEF sum, Term
  <2>3. x # 0
    BY <1>4, <2>2
  <2>4. x - 1 \in 0..N /\ x - 1 < x
    BY <2>2, <2>3
  <2>5. sum[x - 1] = g[x - 1]
    BY <2>1, <2>4
  <2> QED BY <1>4, <2>2, <2>3, <2>5
<1> QED
  BY <1>3, <1>5

\* Every entry continues the balance the one before it left.
Continues(entries) ==
  \A i \in 1..Len(entries) :
    /\ entries[i].before = IF i = 1 THEN 0 ELSE entries[i - 1].after
    /\ entries[i].after =
         entries[i].before + SignedAmount(entries[i].direction, entries[i].amount)

\* The balance that a ledger leaves.
Left(entries) == IF entries = <<>> THEN 0 ELSE entries[Len(entries)].after

\* A ledger whose entries continue one another sums up to what it leaves.
LEMMA SumOfChain ==
  ASSUME NEW entries \in Seq(Entries), Continues(entries)
  PROVE  SumSigned(entries) = Left(entries)
<1> DEFINE N == Len(entries)
           g == [n \in 0..N |-> IF n = 0 THEN 0 ELSE entries[n].after]
<1>1. N \in Nat /\ \A i \in 1..N : entries[i] \in Entries
  OBVIOUS
<1>2. ASSUME NEW n \in 0..N
      PROVE  g[n] = IF n = 0 THEN 0
                    ELSE g[n - 1] + SignedAmount(entries[n].direction, entries[n].amount)
  <2>1. CASE n = 0
    BY <2>1
  <2>2. CASE n # 0
    <3>1. n \in 1..N /\ n - 1 \in 0..N /\ (n # 1 => n - 1 # 0)
      BY <1>1, <2>2
    <3>2. g[n - 1] = entries[n].before
      BY <3>1 DEF Continues
    <3> QED BY <2>2, <3>1, <3>2 DEF Continues
  <2> QED BY <2>1, <2>2
<1>3. g = [n \in 0..N |->
            IF n = 0 THEN 0
            ELSE g[n - 1] + SignedAmount(entries[n].direction, entries[n].amount)]
  BY <1>2
<1>4. g[N] = Left(entries)
  BY <1>1 DEF Left
<1> HIDE DEF g
<1> QED
  BY <1>1, <1>3, <1>4, RunningSum

-----------------------------------------------------------------------------
(* The inductive invariant                                                 *)

\* A wallet that is not open has no entry.
ClosedIsEmpty == \A w \in Wallet : ~IsOpen(w) => ledger[w] = <<>>

\* The balance of a wallet is what its ledger leaves.
LedgersBalance ==
  \A w \in Wallet :
    /\ Continues(ledger[w])
    /\ IsOpen(w) => balance[w] = Left(ledger[w])

\* A cursor lies before some entry, and on or behind every entry given.
WalksOK ==
  \A r \in Reader :
    LET k == walk[r] IN
    /\ k.wallet = None => k.cursor = None
    /\ k.wallet # None =>
         /\ k.began <= Len(ledger[k.wallet])
         /\ k.seen \cup k.page \subseteq 1..Len(ledger[k.wallet])
    /\ k.cursor # None =>
         /\ \E j \in 1..Len(ledger[k.wallet]) : Later(place[k.wallet][j], k.cursor)
         /\ \A i \in k.seen \cup k.page : ~Later(place[k.wallet][i], k.cursor)

\* A reconciliation that has begun is about some wallet.
WaitsForWallet ==
  \A a \in Auditor : audit[a].pc # "idle" => audit[a].wallet \in Wallet

\* What a reconciliation has read under the lock is what is there.
AuditsOK ==
  \A a \in Auditor :
    LET k == audit[a] IN
    k.held =>
      /\ k.wallet \in Wallet /\ IsOpen(k.wallet)
      /\ k.pc \in {"sum", "count", "report"} => k.stored = balance[k.wallet]
      /\ k.pc \in {"count", "report"} => k.calculated = SumSigned(ledger[k.wallet])
      /\ k.pc = "report" => k.checked = Len(ledger[k.wallet])

ReadersInv ==
  /\ ReadersTypeOK /\ ClosedIsEmpty /\ LedgersBalance
  /\ WalksOK /\ NothingSkipped /\ NothingRepeated
  /\ WaitsForWallet /\ AuditsOK

LEMMA LaterOrders ==
  ASSUME NEW a \in Places, NEW b \in Places
  PROVE  /\ ~Later(a, a)
         /\ Later(a, b) => ~Later(b, a)
         /\ \A c \in Places : Later(a, b) /\ Later(b, c) => Later(a, c)
         /\ \A c \in Places : ~Later(a, b) /\ Later(c, b) => ~Later(a, c)
<1>1. \A p \in Places : p.at \in Nat /\ p.id \in Nat
  BY ReaderAssumption DEF Places
<1> QED
  BY <1>1 DEF Later

LEMMA FirstEntriesTypes ==
  ASSUME NEW w \in Wallet
  PROVE  /\ FirstEntries(w) \in Seq(Entries)
         /\ Len(FirstEntries(w)) \in {0, 1}
         /\ Opening(w) \in Outcomes
         /\ WalletInfo[w].opening \in Balances /\ WalletInfo[w].opening # NoBalance
<1>1. w \in TxId /\ w \notin Cmd /\ WalletInfo[w].opening \in Nat
  BY WalletAssumption, RequestAssumption DEF TxId
<1>2. Entry(w, "CREDIT", 0) \in Entries
  BY <1>1 DEF Entry, Entries, Req, OpeningRequest, SignedAmount
<1>3. FirstEntries(w) \in Seq(Entries) /\ Len(FirstEntries(w)) \in {0, 1}
  BY <1>2 DEF FirstEntries
<1>4. Opening(w) \in Outcomes
  BY <1>1 DEF Opening, Done, NoOutcome, Outcomes, Balances
<1> QED
  BY <1>1, <1>3, <1>4 DEF Balances, NoBalance

-----------------------------------------------------------------------------
(* The ledgers                                                             *)

LEMMA FirstEntriesBalance ==
  ASSUME NEW w \in Wallet
  PROVE  Continues(FirstEntries(w)) /\ Left(FirstEntries(w)) = WalletInfo[w].opening
<1>1. w \in TxId /\ w \notin Cmd /\ WalletInfo[w].opening \in Nat
  BY WalletAssumption, RequestAssumption DEF TxId
<1>2. CASE HasOpeningBalance(w)
  <2> DEFINE e == Entry(w, "CREDIT", 0)
  <2>1. /\ e.before = 0 /\ e.after = WalletInfo[w].opening
        /\ e.direction = "CREDIT" /\ e.amount = WalletInfo[w].opening
    BY <1>1 DEF Entry, Req, OpeningRequest, SignedAmount
  <2>2. FirstEntries(w) = <<e>>
    BY <1>2 DEF FirstEntries
  <2> HIDE DEF e
  <2>3. Len(<<e>>) = 1 /\ <<e>>[1] = e /\ <<e>> # <<>>
    OBVIOUS
  <2> QED BY <1>1, <2>1, <2>2, <2>3 DEF Continues, Left, SignedAmount
<1>3. CASE ~HasOpeningBalance(w)
  BY <1>1, <1>3 DEF HasOpeningBalance, FirstEntries, Continues, Left
<1> QED
  BY <1>2, <1>3

\* An entry that starts from what a ledger leaves continues it.
LEMMA AppendContinues ==
  ASSUME NEW entries \in Seq(Entries), Continues(entries), NEW e \in Entries,
         e.before = Left(entries),
         e.after = e.before + SignedAmount(e.direction, e.amount)
  PROVE  Continues(Append(entries, e)) /\ Left(Append(entries, e)) = e.after
<1> DEFINE longer == Append(entries, e)
           N == Len(entries)
<1>1. /\ N \in Nat /\ Len(longer) = N + 1 /\ longer # <<>>
      /\ longer[N + 1] = e /\ \A i \in 1..N : longer[i] = entries[i]
  OBVIOUS
<1>2. entries = <<>> <=> N = 0
  OBVIOUS
<1> HIDE DEF longer
<1>3. ASSUME NEW i \in 1..Len(longer)
      PROVE  /\ longer[i].before = IF i = 1 THEN 0 ELSE longer[i - 1].after
             /\ longer[i].after =
                  longer[i].before + SignedAmount(longer[i].direction, longer[i].amount)
  <2>1. CASE i \in 1..N
    <3>1. i # 1 => i - 1 \in 1..N
      BY <1>1, <2>1
    <3> QED BY <1>1, <2>1, <3>1 DEF Continues
  <2>2. CASE i = N + 1
    <3>1. i # 1 => i - 1 = N /\ N \in 1..N
      BY <1>1, <2>2
    <3> QED BY <1>1, <1>2, <2>2, <3>1 DEF Left
  <2> QED BY <1>1, <2>1, <2>2
<1>4. Left(longer) = e.after
  BY <1>1 DEF Left
<1> QED
  BY <1>3, <1>4 DEF Continues, longer

\* An operation that leaves a wallet and its ledger alone, or extends the
\* ledger by an entry from the old balance to the new one.
LEMMA DecideBalances ==
  ASSUME ServiceTypeOK, LedgersBalance, NEW t \in Cmd, Decide(t)
  PROVE  LedgersBalance'
<1> DEFINE w == Req(t).wallet
<1>1. t \in TxId /\ w \in Wallet
  BY RequestTypes DEF TxId
<1>2. IsOpen(w)
  BY DEF Decide, Undecided
<1>3. \/ balance' = balance /\ ledger' = ledger
      \/ \E s \in References(t) : Post(t, s)
  BY DEF Decide, Wait, GiveUp, Note, Refuse
<1>4. CASE balance' = balance /\ ledger' = ledger
  BY <1>4 DEF LedgersBalance, IsOpen
<1>5. ASSUME NEW s \in References(t), Post(t, s)
      PROVE  LedgersBalance'
  <2> DEFINE e == Entry(t, Way(t, s), balance[w])
  <2>1. e \in Entries
    BY <1>1, <1>2, <1>5, EntryTypes DEF Post, Reversed
  <2>2. /\ e.before = balance[w]
        /\ e.after = e.before + SignedAmount(e.direction, e.amount)
    BY DEF Entry
  <2>3. /\ balance' = [balance EXCEPT ![w] = e.after]
        /\ ledger' = [ledger EXCEPT ![w] = Append(@, e)]
    BY <1>5 DEF Post
  <2>4. /\ ledger[w] \in Seq(Entries) /\ Continues(ledger[w])
        /\ balance[w] = Left(ledger[w])
    BY <1>1, <1>2 DEF ServiceTypeOK, LedgersBalance
  <2> HIDE DEF e
  <2>5. Continues(Append(ledger[w], e)) /\ Left(Append(ledger[w], e)) = e.after
    BY <2>1, <2>2, <2>4, AppendContinues
  <2>6. /\ balance'[w] = e.after /\ ledger'[w] = Append(ledger[w], e)
        /\ \A v \in Wallet : v # w => balance'[v] = balance[v] /\ ledger'[v] = ledger[v]
    BY <1>1, <2>3 DEF ServiceTypeOK
  <2>7. ASSUME NEW v \in Wallet
        PROVE  /\ Continues(ledger'[v])
               /\ balance'[v] # NoBalance => balance'[v] = Left(ledger'[v])
    <3>1. CASE v = w
      BY <2>5, <2>6, <3>1
    <3>2. CASE v # w
      BY <2>6, <3>2 DEF LedgersBalance, IsOpen
    <3> QED BY <3>1, <3>2
  <2> QED BY <2>7 DEF LedgersBalance, IsOpen
<1> QED
  BY <1>3, <1>4, <1>5

LEMMA OpenBalances ==
  ASSUME ServiceTypeOK, LedgersBalance, NEW w \in Wallet, Open(w)
  PROVE  LedgersBalance'
<1>1. /\ balance'[w] = WalletInfo[w].opening /\ ledger'[w] = FirstEntries(w)
      /\ \A v \in Wallet : v # w => balance'[v] = balance[v] /\ ledger'[v] = ledger[v]
  BY DEF Open, ServiceTypeOK
<1>2. ASSUME NEW v \in Wallet
      PROVE  /\ Continues(ledger'[v])
             /\ balance'[v] # NoBalance => balance'[v] = Left(ledger'[v])
  <2>1. CASE v = w
    BY <1>1, <2>1, FirstEntriesBalance
  <2>2. CASE v # w
    BY <1>1, <2>2 DEF LedgersBalance, IsOpen
  <2> QED BY <2>1, <2>2
<1> QED
  BY <1>2 DEF LedgersBalance, IsOpen

\* What reconciliation looks for: the ledger of every wallet, summed up, is
\* its balance.
LEMMA SumIsBalance ==
  ASSUME ServiceTypeOK, LedgersBalance, ClosedIsEmpty, NEW w \in Wallet
  PROVE  /\ SumSigned(ledger[w]) \in Nat
         /\ IsOpen(w) => SumSigned(ledger[w]) = balance[w]
<1>1. ledger[w] \in Seq(Entries) /\ balance[w] \in Balances
  BY DEF ServiceTypeOK
<1>2. SumSigned(ledger[w]) = Left(ledger[w])
  BY <1>1, SumOfChain DEF LedgersBalance
<1>3. IsOpen(w) => Left(ledger[w]) = balance[w] /\ balance[w] \in Nat
  BY <1>1 DEF LedgersBalance, IsOpen, Balances
<1>4. ~IsOpen(w) => Left(ledger[w]) = 0
  BY DEF ClosedIsEmpty, Left
<1> QED
  BY <1>2, <1>3, <1>4

-----------------------------------------------------------------------------
(* The initial states, and the writers                                     *)

LEMMA ReadersStart ==
  ASSUME ReadersInit
  PROVE  ReadersInv
<1>1. \A w \in Wallet : ledger[w] \in Seq(Entries)
  BY FirstEntriesTypes DEF ReadersInit, Init
<1>2. ServiceTypeOK
  <2>1. \A w \in Wallet : balance[w] \in Balances
    BY FirstEntriesTypes DEF ReadersInit, Init, Balances
  <2>2. \A t \in TxId : outcome[t] \in Outcomes
    <3>1. NoOutcome \in Outcomes
      BY DEF NoOutcome, Outcomes, Balances
    <3>2. \A t \in OpenAtStart : Opening(t) \in Outcomes
      BY WalletAssumption, FirstEntriesTypes
    <3> QED BY <3>1, <3>2 DEF ReadersInit, Init
  <2> QED BY <1>1, <2>1, <2>2 DEF ReadersInit, Init, ServiceTypeOK
<1>3. ClosedIsEmpty
  BY FirstEntriesTypes DEF ReadersInit, Init, ClosedIsEmpty, IsOpen
<1>4. /\ place \in [Wallet -> Seq(Places)]
      /\ \A w \in Wallet : Len(place[w]) = Len(ledger[w])
  <2>1. PICK id \in EntryId :
          place = [w \in Wallet |-> [i \in 1..Len(ledger[w]) |-> [at |-> 0, id |-> id]]]
    BY DEF ReadersInit
  <2>2. [at |-> 0, id |-> id] \in Places
    BY DEF Places
  <2>3. ASSUME NEW w \in Wallet
        PROVE  place[w] \in Seq(Places) /\ Len(place[w]) = Len(ledger[w])
    <3>1. Len(ledger[w]) \in Nat
      BY <1>1
    <3>2. place[w] = [i \in 1..Len(ledger[w]) |-> [at |-> 0, id |-> id]]
      BY <2>1
    <3> QED BY <2>2, <3>1, <3>2
  <2> QED BY <2>1, <2>3
<1>5. ReadersTypeOK
  BY <1>2, <1>4 DEF ReadersInit, ReadersTypeOK, ServiceTypeOK, NoWalk, Walks, NoAudit,
                    Audits, Balances
<1>6. WalksOK /\ NothingSkipped /\ NothingRepeated /\ AuditsOK /\ WaitsForWallet
  BY DEF ReadersInit, NoWalk, NoAudit, WalksOK, NothingSkipped, NothingRepeated, AuditsOK,
         WaitsForWallet
<1>7. LedgersBalance
  <2> SUFFICES ASSUME NEW w \in Wallet
               PROVE  /\ Continues(ledger[w])
                      /\ IsOpen(w) => balance[w] = Left(ledger[w])
    BY DEF LedgersBalance
  <2>1. CASE w \in OpenAtStart
    BY <2>1, FirstEntriesBalance DEF ReadersInit, Init
  <2>2. CASE w \notin OpenAtStart
    <3>1. ledger[w] = <<>> /\ ~IsOpen(w)
      BY <2>2 DEF ReadersInit, Init, IsOpen
    <3> QED BY <3>1 DEF Continues
  <2> QED BY <2>1, <2>2
<1> QED
  BY <1>3, <1>5, <1>6, <1>7 DEF ReadersInv

LEMMA OpenTypes ==
  ASSUME ServiceTypeOK, ClosedIsEmpty, NEW w \in Wallet, Open(w)
  PROVE  /\ ServiceTypeOK'
         /\ ~IsOpen(w) /\ balance'[w] # NoBalance
         /\ \A v \in Wallet : v # w => balance'[v] = balance[v] /\ ledger'[v] = ledger[v]
         /\ Grows(w)
<1>1. ~IsOpen(w) /\ ledger[w] = <<>>
  BY DEF Open, ClosedIsEmpty
<1>2. ledger'[w] = FirstEntries(w) /\ balance'[w] = WalletInfo[w].opening
  BY DEF Open, ServiceTypeOK
<1>3. ServiceTypeOK'
  BY FirstEntriesTypes DEF Open, ServiceTypeOK, TxId
<1>4. \A v \in Wallet : v # w => balance'[v] = balance[v] /\ ledger'[v] = ledger[v]
  BY DEF Open, ServiceTypeOK
<1>5. Grows(w)
  <2>1. FirstEntries(w) = <<>> \/ Len(FirstEntries(w)) = 1
    BY DEF FirstEntries
  <2> QED BY <1>1, <1>2, <2>1 DEF Grows
<1> QED
  BY <1>1, <1>2, <1>3, <1>4, <1>5, FirstEntriesTypes

\* What a placed write leaves of the listings.
LEMMA PlacedKeeps ==
  ASSUME ReadersTypeOK, ServiceTypeOK', NEW w \in Wallet, Grows(w), Placed(w),
         \A v \in Wallet : v # w => ledger'[v] = ledger[v]
  PROVE  /\ place' \in [Wallet -> Seq(Places)]
         /\ \A v \in Wallet :
              /\ Len(place'[v]) = Len(ledger'[v])
              /\ Len(ledger[v]) <= Len(ledger'[v])
              /\ \A i \in 1..Len(ledger[v]) : place'[v][i] = place[v][i]
<1>1. /\ place \in [Wallet -> Seq(Places)]
      /\ \A v \in Wallet : Len(place[v]) = Len(ledger[v]) /\ Len(ledger[v]) \in Nat
  BY DEF ReadersTypeOK
<1>2. CASE ledger'[w] = ledger[w]
  BY <1>1, <1>2 DEF Placed
<1>3. CASE ledger'[w] # ledger[w]
  <2>1. PICK at \in 0..now, id \in EntryId :
          place' = [place EXCEPT ![w] = Append(@, [at |-> at, id |-> id])]
    BY <1>3 DEF Placed
  <2>2. [at |-> at, id |-> id] \in Places
    BY DEF Places, ReadersTypeOK
  <2>3. place[w] \in Seq(Places)
    BY <1>1
  <2>4. /\ Append(place[w], [at |-> at, id |-> id]) \in Seq(Places)
        /\ Len(Append(place[w], [at |-> at, id |-> id])) = Len(place[w]) + 1
        /\ \A i \in 1..Len(place[w]) :
             Append(place[w], [at |-> at, id |-> id])[i] = place[w][i]
    BY <2>2, <2>3
  <2>5. place'[w] = Append(place[w], [at |-> at, id |-> id])
    BY <1>1, <2>1
  <2>6. \A v \in Wallet : v # w => place'[v] = place[v]
    BY <1>1, <2>1
  <2>7. place' \in [Wallet -> Seq(Places)]
    BY <1>1, <2>1, <2>4
  <2>8. Len(ledger'[w]) = Len(ledger[w]) + 1
    BY <1>3 DEF Grows
  <2>9. ASSUME NEW v \in Wallet
        PROVE  /\ Len(place'[v]) = Len(ledger'[v])
               /\ Len(ledger[v]) <= Len(ledger'[v])
               /\ \A i \in 1..Len(ledger[v]) : place'[v][i] = place[v][i]
    <3>1. CASE v = w
      <4>1. Len(place'[w]) = Len(place[w]) + 1
        BY <2>4, <2>5
      <4>2. \A i \in 1..Len(ledger[w]) : place'[w][i] = place[w][i]
        BY <1>1, <2>4, <2>5
      <4> QED BY <1>1, <2>8, <3>1, <4>1, <4>2
    <3>2. CASE v # w
      BY <1>1, <2>6, <3>2
    <3> QED BY <3>1, <3>2
  <2> QED BY <2>7, <2>9
<1> QED
  BY <1>2, <1>3

LEMMA WriteKeeps ==
  ASSUME ReadersInv, Write
  PROVE  /\ ServiceTypeOK' /\ ClosedIsEmpty' /\ LedgersBalance'
         /\ place' \in [Wallet -> Seq(Places)]
         /\ \A v \in Wallet :
              /\ Len(place'[v]) = Len(ledger'[v])
              /\ Len(ledger[v]) <= Len(ledger'[v])
              /\ \A i \in 1..Len(ledger[v]) : place'[v][i] = place[v][i]
         /\ \A v \in Wallet : IsOpen(v) => balance'[v] # NoBalance
         /\ \A v \in Wallet : Locked(v) /\ IsOpen(v) =>
              balance'[v] = balance[v] /\ ledger'[v] = ledger[v]
<1>1. ServiceTypeOK
  BY DEF ReadersInv, ReadersTypeOK, ServiceTypeOK
<1>2. CASE \E w \in Wallet : Open(w) /\ Placed(w)
  <2>1. PICK w \in Wallet : Open(w) /\ Placed(w)
    BY <1>2
  <2>2. /\ ServiceTypeOK' /\ ~IsOpen(w) /\ balance'[w] # NoBalance /\ Grows(w)
        /\ \A v \in Wallet : v # w => balance'[v] = balance[v] /\ ledger'[v] = ledger[v]
    BY <1>1, <2>1, OpenTypes DEF ReadersInv
  <2>3. ClosedIsEmpty'
    BY <2>2 DEF ReadersInv, ClosedIsEmpty, LedgersBalance, IsOpen
  <2>4. LedgersBalance'
    BY <1>1, <2>1, OpenBalances DEF ReadersInv
  <2> QED BY <2>1, <2>2, <2>3, <2>4, PlacedKeeps DEF ReadersInv, IsOpen
<1>3. CASE \E t \in Cmd : /\ ~Locked(Req(t).wallet)
                           /\ Decide(t) /\ Placed(Req(t).wallet)
  <2>1. PICK t \in Cmd : /\ ~Locked(Req(t).wallet)
                         /\ Decide(t) /\ Placed(Req(t).wallet)
    BY <1>3
  <2>2. Req(t).wallet \in Wallet
    BY RequestTypes DEF TxId
  <2>3. /\ ServiceTypeOK' /\ IsOpen(Req(t).wallet) /\ Grows(Req(t).wallet)
        /\ \A v \in Wallet : balance[v] # NoBalance => balance'[v] # NoBalance
        /\ \A v \in Wallet : v # Req(t).wallet =>
             balance'[v] = balance[v] /\ ledger'[v] = ledger[v]
    BY <1>1, <2>1, DecideTypes
  <2>4. ClosedIsEmpty'
    BY <2>3 DEF ReadersInv, ClosedIsEmpty, LedgersBalance, IsOpen
  <2>5. LedgersBalance'
    BY <1>1, <2>1, DecideBalances DEF ReadersInv
  <2> QED BY <2>1, <2>2, <2>3, <2>4, <2>5, PlacedKeeps DEF ReadersInv, IsOpen
<1> QED
  BY <1>2, <1>3 DEF Write

LEMMA WriteStep ==
  ASSUME ReadersInv, Write
  PROVE  ReadersInv'
<1> USE WriteKeeps
<1>1. UNCHANGED <<now, walk, audit>>
  BY DEF Write
<1>2. \A v \in Wallet : Len(ledger[v]) \in Nat /\ Len(ledger'[v]) \in Nat
  BY DEF ReadersInv, ReadersTypeOK, ServiceTypeOK
<1>3. ReadersTypeOK'
  BY <1>1 DEF ReadersInv, ReadersTypeOK, ServiceTypeOK
<1>4. \A r \in Reader : walk[r].wallet # None => walk[r].wallet \in Wallet
  BY DEF ReadersInv, ReadersTypeOK, Walks
<1>5. \A r \in Reader : walk[r].cursor # None => walk[r].wallet # None
  BY DEF ReadersInv, WalksOK, NoWalk
<1>6. ASSUME NEW r \in Reader, walk[r].wallet # None
      PROVE  /\ walk[r].began <= Len(ledger'[walk[r].wallet])
             /\ walk[r].seen \cup walk[r].page \subseteq 1..Len(ledger'[walk[r].wallet])
  <2>1. /\ walk[r].began <= Len(ledger[walk[r].wallet]) /\ walk[r].began \in Nat
        /\ walk[r].seen \cup walk[r].page \subseteq 1..Len(ledger[walk[r].wallet])
    BY <1>6 DEF ReadersInv, WalksOK, ReadersTypeOK, Walks
  <2> QED BY <1>2, <1>4, <1>6, <2>1
<1>7. WalksOK'
  <2> SUFFICES ASSUME NEW r \in Reader, walk[r].cursor # None
               PROVE  /\ \E j \in 1..Len(ledger'[walk[r].wallet]) :
                            Later(place'[walk[r].wallet][j], walk[r].cursor)
                      /\ \A i \in walk[r].seen \cup walk[r].page :
                            ~Later(place'[walk[r].wallet][i], walk[r].cursor)
    BY <1>1, <1>6 DEF WalksOK, ReadersInv
  <2>1. walk[r].wallet \in Wallet /\ walk[r].wallet # None
    BY <1>4, <1>5
  <2>2. PICK j \in 1..Len(ledger[walk[r].wallet]) :
          Later(place[walk[r].wallet][j], walk[r].cursor)
    BY DEF ReadersInv, WalksOK
  <2>3. \A i \in 1..Len(ledger[walk[r].wallet]) :
          /\ i \in 1..Len(ledger'[walk[r].wallet])
          /\ place'[walk[r].wallet][i] = place[walk[r].wallet][i]
    BY <1>2, <2>1
  <2>4. \A i \in walk[r].seen \cup walk[r].page :
          /\ i \in 1..Len(ledger[walk[r].wallet])
          /\ ~Later(place[walk[r].wallet][i], walk[r].cursor)
    BY <2>1 DEF ReadersInv, WalksOK
  <2> QED BY <2>2, <2>3, <2>4
<1>8. NothingSkipped'
  <2> SUFFICES ASSUME NEW r \in Reader, NEW i \in 1..walk[r].began,
                      \/ walk[r].ended
                      \/ /\ walk[r].cursor # None
                         /\ ~Later(place'[walk[r].wallet][i], walk[r].cursor)
               PROVE  i \in walk[r].seen \cup walk[r].page
    BY <1>1 DEF NothingSkipped
  <2>1. CASE walk[r].ended
    BY <2>1 DEF ReadersInv, NothingSkipped
  <2>2. CASE walk[r].cursor # None /\ ~walk[r].ended
    <3>1. walk[r].wallet \in Wallet /\ i \in 1..Len(ledger[walk[r].wallet])
      BY <1>2, <1>4, <1>5, <2>2 DEF ReadersInv, WalksOK, ReadersTypeOK, Walks
    <3>2. place'[walk[r].wallet][i] = place[walk[r].wallet][i]
      BY <3>1
    <3> QED BY <2>2, <3>2 DEF ReadersInv, NothingSkipped
  <2> QED BY <2>1, <2>2
<1>9. NothingRepeated'
  BY <1>1 DEF ReadersInv, NothingRepeated
<1>10. AuditsOK'
  <2> SUFFICES ASSUME NEW a \in Auditor, audit[a].held
               PROVE  /\ audit[a].wallet \in Wallet /\ balance'[audit[a].wallet] # NoBalance
                      /\ balance'[audit[a].wallet] = balance[audit[a].wallet]
                      /\ ledger'[audit[a].wallet] = ledger[audit[a].wallet]
    BY <1>1 DEF ReadersInv, AuditsOK, IsOpen
  <2>1. audit[a].wallet \in Wallet /\ IsOpen(audit[a].wallet)
    BY DEF ReadersInv, AuditsOK
  <2>2. Locked(audit[a].wallet)
    BY DEF Locked
  <2> QED BY <2>1, <2>2
<1>11. WaitsForWallet'
  BY <1>1 DEF ReadersInv, WaitsForWallet
<1> QED
  BY <1>3, <1>7, <1>8, <1>9, <1>10, <1>11 DEF ReadersInv

-----------------------------------------------------------------------------
(* The readers                                                             *)

\* A page that continues a walk whose entries given so far are behind its
\* cursor, and hold every old entry that is.
LEMMA PageStep ==
  ASSUME ReadersInv, NEW r \in Reader, NEW w \in Wallet,
         NEW began \in 0..Len(ledger[w]), NEW cursor \in Places \cup {None},
         NEW given \in SUBSET (1..Len(ledger[w])),
         Page(r, w, began, cursor, given),
         UNCHANGED <<serviceVars, now, place, audit>>,
         cursor = None => given = {},
         cursor # None => \E j \in 1..Len(ledger[w]) : Later(place[w][j], cursor),
         cursor # None => \A i \in given : ~Later(place[w][i], cursor),
         cursor # None => \A i \in 1..began : ~Later(place[w][i], cursor) => i \in given
  PROVE  ReadersInv'
<1> DEFINE N == 1..Len(ledger[w])
           rows == Rows(w, cursor)
<1>1. PICK limit \in 1..MaxPage, P \in SUBSET rows :
        /\ FirstRows(w, rows, P, limit)
        /\ \E next \in IF rows = P THEN {None} ELSE CursorAfter(w, rows, P) :
             walk' = [walk EXCEPT ![r] =
                       [wallet |-> w, began |-> began, cursor |-> next,
                        seen |-> given, page |-> P, ended |-> rows = P]]
  BY DEF Page
<1>2. PICK next \in IF rows = P THEN {None} ELSE CursorAfter(w, rows, P) :
        walk' = [walk EXCEPT ![r] =
                  [wallet |-> w, began |-> began, cursor |-> next,
                   seen |-> given, page |-> P, ended |-> rows = P]]
  BY <1>1
<1> DEFINE k == [wallet |-> w, began |-> began, cursor |-> next,
                 seen |-> given, page |-> P, ended |-> rows = P]
<1>3. /\ place[w] \in Seq(Places) /\ Len(place[w]) = Len(ledger[w])
      /\ Len(ledger[w]) \in Nat /\ \A i \in N : place[w][i] \in Places
      /\ w # None
  BY WalletAssumption DEF ReadersInv, ReadersTypeOK, TxId
<1>4. /\ rows \subseteq N /\ P \subseteq N
      /\ \A i \in N : i \in rows <=> (cursor # None => Later(place[w][i], cursor))
  BY DEF Rows, Beyond
<1>5. \A i \in P, j \in rows \ P : Later(place[w][j], place[w][i])
  BY <1>1 DEF FirstRows
<1>6. rows = P => next = None
  BY <1>2
<1>7. rows # P => \E m \in P : /\ next = place[w][m]
                              /\ \A j \in P : j = m \/ Later(place[w][m], place[w][j])
  BY <1>2 DEF CursorAfter
<1>8. walk'[r] = k /\ \A q \in Reader : q # r => walk'[q] = walk[q]
  BY <1>2 DEF ReadersInv, ReadersTypeOK
<1>9. k \in Walks
  BY <1>3, <1>4, <1>6, <1>7 DEF Walks
<1>10. ReadersTypeOK'
  BY <1>2, <1>9 DEF ReadersInv, ReadersTypeOK, serviceVars
<1>11. P \cap given = {}
  BY <1>4
<1>12. P = {} => given = {}
  <2>1. CASE rows = P
    BY <1>4, <2>1
  <2>2. CASE rows # P
    BY <1>7, <2>2
  <2> QED BY <2>1, <2>2
<1>13. NothingRepeated'
  <2> SUFFICES ASSUME NEW q \in Reader
               PROVE  /\ walk'[q].page \cap walk'[q].seen = {}
                      /\ walk'[q].page = {} => walk'[q].seen = {}
    BY DEF NothingRepeated
  <2>1. CASE q = r
    <3>1. walk'[q].seen = given /\ walk'[q].page = P
      BY <1>8, <2>1
    <3> QED BY <1>11, <1>12, <3>1
  <2>2. CASE q # r
    BY <1>8, <2>2 DEF ReadersInv, NothingRepeated
  <2> QED BY <2>1, <2>2
<1>14. ASSUME NEW i \in 1..began,
              rows = P \/ (next # None /\ ~Later(place[w][i], next))
       PROVE  i \in given \cup P
  <2>1. i \in N
    BY <1>3
  <2>2. CASE i \notin rows
    BY <1>4, <2>1, <2>2
  <2>3. CASE i \in rows
    BY <1>5, <1>7, <1>14, <2>3
  <2> QED BY <2>2, <2>3
<1>15. NothingSkipped'
  <2> SUFFICES ASSUME NEW q \in Reader, NEW i \in 1..walk'[q].began,
                      \/ walk'[q].ended
                      \/ /\ walk'[q].cursor # None
                         /\ ~Later(place[walk'[q].wallet][i], walk'[q].cursor)
               PROVE  i \in walk'[q].seen \cup walk'[q].page
    BY DEF NothingSkipped
  <2>1. CASE q = r
    <3>1. /\ walk'[q].ended = (rows = P) /\ walk'[q].cursor = next
          /\ walk'[q].wallet = w /\ walk'[q].began = began
          /\ walk'[q].seen = given /\ walk'[q].page = P
      BY <1>8, <2>1
    <3>2. i \in 1..began /\ (rows = P \/ (next # None /\ ~Later(place[w][i], next)))
      BY <3>1
    <3> QED BY <1>14, <3>1, <3>2
  <2>2. CASE q # r
    BY <1>8, <2>2 DEF ReadersInv, NothingSkipped
  <2> QED BY <2>1, <2>2
<1>16. ASSUME next # None
       PROVE  /\ \E j \in N : Later(place[w][j], next)
              /\ \A i \in given \cup P : ~Later(place[w][i], next)
  <2>1. rows # P
    BY <1>6, <1>16
  <2>2. PICK m \in P : /\ next = place[w][m]
                       /\ \A j \in P : j = m \/ Later(place[w][m], place[w][j])
    BY <1>7, <2>1
  <2>3. \E j \in rows : Later(place[w][j], next)
    BY <1>5, <2>1, <2>2
  <2>4. \A i \in P : ~Later(place[w][i], next)
    BY <1>3, <1>4, <2>2, LaterOrders
  <2>5. ASSUME NEW i \in given
        PROVE  ~Later(place[w][i], next)
    <3>1. cursor # None /\ cursor \in Places /\ ~Later(place[w][i], cursor)
      BY <2>5
    <3>2. Later(place[w][m], cursor) /\ place[w][m] \in Places /\ place[w][i] \in Places
      BY <1>3, <1>4, <3>1
    <3> QED BY <2>2, <3>1, <3>2, LaterOrders
  <2> QED BY <1>4, <2>3, <2>4, <2>5
<1>17. WalksOK'
  <2> SUFFICES ASSUME NEW q \in Reader
               PROVE  LET z == walk'[q] IN
                 /\ z.wallet = None => z.cursor = None
                 /\ z.wallet # None =>
                      /\ z.began <= Len(ledger[z.wallet])
                      /\ z.seen \cup z.page \subseteq 1..Len(ledger[z.wallet])
                 /\ z.cursor # None =>
                      /\ \E j \in 1..Len(ledger[z.wallet]) :
                           Later(place[z.wallet][j], z.cursor)
                      /\ \A i \in z.seen \cup z.page : ~Later(place[z.wallet][i], z.cursor)
    BY DEF WalksOK, serviceVars
  <2>1. CASE q = r
    <3>1. /\ walk'[q].cursor = next /\ walk'[q].wallet = w /\ walk'[q].began = began
          /\ walk'[q].seen = given /\ walk'[q].page = P
      BY <1>8, <2>1
    <3>2. began <= Len(ledger[w])
      BY <1>3
    <3>4. given \cup P \subseteq 1..Len(ledger[w])
      BY <1>4
    <3>3. next # None =>
            /\ \E j \in 1..Len(ledger[w]) : Later(place[w][j], next)
            /\ \A i \in given \cup P : ~Later(place[w][i], next)
      BY <1>16
    <3> HIDE DEF rows
    <3> QED BY <1>3, <3>1, <3>2, <3>3, <3>4
  <2>2. CASE q # r
    BY <1>8, <2>2 DEF ReadersInv, WalksOK
  <2> QED BY <2>1, <2>2
<1>18. ClosedIsEmpty' /\ LedgersBalance' /\ AuditsOK' /\ WaitsForWallet'
  BY DEF ReadersInv, ClosedIsEmpty, LedgersBalance, AuditsOK, WaitsForWallet, IsOpen, serviceVars
<1> QED
  BY <1>10, <1>13, <1>15, <1>17, <1>18 DEF ReadersInv

LEMMA WalkStep ==
  ASSUME ReadersInv, NEW r \in Reader, FirstPage(r) \/ NextPage(r)
  PROVE  ReadersInv'
<1>1. CASE FirstPage(r)
  <2>1. PICK w \in Wallet : Page(r, w, Len(ledger[w]), None, {})
    BY <1>1 DEF FirstPage
  <2>2. Len(ledger[w]) \in 0..Len(ledger[w])
    BY DEF ReadersInv, ReadersTypeOK
  <2> QED BY <1>1, <2>1, <2>2, PageStep DEF FirstPage
<1>2. CASE NextPage(r)
  <2> DEFINE k == walk[r]
  <2>1. k \in Walks /\ k.wallet # None /\ k.cursor # None
    BY <1>2 DEF NextPage, ReadersInv, ReadersTypeOK, WalksOK, NoWalk
  <2>2. /\ k.wallet \in Wallet /\ k.cursor \in Places \cup {None}
        /\ k.began \in 0..Len(ledger[k.wallet])
        /\ k.seen \cup k.page \in SUBSET (1..Len(ledger[k.wallet]))
    BY <2>1 DEF ReadersInv, ReadersTypeOK, WalksOK, Walks
  <2>3. /\ \E j \in 1..Len(ledger[k.wallet]) : Later(place[k.wallet][j], k.cursor)
        /\ \A i \in k.seen \cup k.page : ~Later(place[k.wallet][i], k.cursor)
        /\ \A i \in 1..k.began :
             ~Later(place[k.wallet][i], k.cursor) => i \in k.seen \cup k.page
    BY <2>1 DEF ReadersInv, WalksOK, NothingSkipped
  <2>4. Page(r, k.wallet, k.began, k.cursor, k.seen \cup k.page)
    BY <1>2 DEF NextPage
  <2> QED BY <1>2, <2>1, <2>2, <2>3, <2>4, PageStep DEF NextPage
<1> QED
  BY <1>1, <1>2

\* A statement of a reconciliation: the record it leaves must hold for its
\* auditor, the rest stays.
LEMMA RecordStep ==
  ASSUME ReadersInv, NEW a \in Auditor, NEW k, Record(a, k),
         k \in Audits,
         k.pc # "idle" => k.wallet \in Wallet,
         k.held =>
           /\ k.wallet \in Wallet /\ IsOpen(k.wallet)
           /\ k.pc \in {"sum", "count", "report"} => k.stored = balance[k.wallet]
           /\ k.pc \in {"count", "report"} => k.calculated = SumSigned(ledger[k.wallet])
           /\ k.pc = "report" => k.checked = Len(ledger[k.wallet])
  PROVE  ReadersInv'
<1>1. /\ audit'[a] = k /\ \A b \in Auditor : b # a => audit'[b] = audit[b]
      /\ k \in Audits => audit' \in [Auditor -> Audits]
  BY DEF Record, ReadersInv, ReadersTypeOK
<1>2. UNCHANGED <<serviceVars, now, place, walk>>
  BY DEF Record
<1>3. ReadersTypeOK'
  BY <1>1, <1>2 DEF ReadersInv, ReadersTypeOK, serviceVars
<1>4. AuditsOK' /\ WaitsForWallet'
  BY <1>1, <1>2 DEF ReadersInv, AuditsOK, WaitsForWallet, IsOpen, serviceVars
<1>5. ClosedIsEmpty' /\ LedgersBalance' /\ WalksOK' /\ NothingSkipped' /\ NothingRepeated'
  BY <1>2 DEF ReadersInv, ClosedIsEmpty, LedgersBalance, WalksOK, NothingSkipped, NothingRepeated, IsOpen,
              serviceVars
<1> QED
  BY <1>3, <1>4, <1>5 DEF ReadersInv

LEMMA AuditStep ==
  ASSUME ReadersInv, NEW a \in Auditor, Reconcile(a)
  PROVE  ReadersInv'
<1> DEFINE k == audit[a]
<1>1. k \in Audits
  BY DEF ReadersInv, ReadersTypeOK
<1>2. NoAudit \in Audits /\ ~NoAudit.held
  BY DEF NoAudit, Audits, Balances
<1>3. /\ k.held => k.wallet \in Wallet /\ IsOpen(k.wallet)
      /\ k.held /\ k.pc \in {"sum", "count", "report"} => k.stored = balance[k.wallet]
      /\ k.held /\ k.pc \in {"count", "report"} =>
           k.calculated = SumSigned(ledger[k.wallet])
  BY DEF ReadersInv, AuditsOK
<1>4. CASE LockWallet(a)
  <2>1. PICK w \in Wallet :
          Record(a, [NoAudit EXCEPT !.pc = "findById", !.wallet = w, !.held = IsOpen(w)])
    BY <1>4 DEF LockWallet
  <2> DEFINE z == [NoAudit EXCEPT !.pc = "findById", !.wallet = w, !.held = IsOpen(w)]
  <2>2. /\ z \in Audits /\ z.pc = "findById" /\ z.wallet = w
        /\ z.held = IsOpen(w)
    BY DEF NoAudit, Audits, Balances, IsOpen
  <2>3. Record(a, z)
    BY <2>1
  <2> HIDE DEF z
  <2> QED BY <2>2, <2>3, RecordStep
<1>5. CASE FindById(a)
  <2>1. CASE IsOpen(k.wallet)
    <3> DEFINE z == [k EXCEPT !.pc = "sum", !.stored = balance[k.wallet]]
    <3>1. Record(a, z)
      BY <1>5, <2>1 DEF FindById
    <3>2. k.held => k.wallet \in Wallet /\ IsOpen(k.wallet)
      BY <1>3
    <3>3. balance[k.wallet] \in Balances
      BY <1>5, <2>1 DEF ReadersInv, ReadersTypeOK, WaitsForWallet, FindById
    <3>4. /\ z \in Audits /\ z.pc = "sum" /\ z.wallet = k.wallet
          /\ z.held = k.held /\ z.stored = balance[k.wallet]
      BY <1>1, <3>3 DEF Audits
    <3> HIDE DEF z
    <3>5. k.wallet \in Wallet
      BY <1>5 DEF ReadersInv, WaitsForWallet, FindById
    <3> QED BY <3>1, <3>2, <3>4, <3>5, RecordStep
  <2>2. CASE ~IsOpen(k.wallet)
    <3>1. NoAudit.pc = "idle"
      BY DEF NoAudit
    <3> QED BY <1>2, <1>5, <2>2, <3>1, RecordStep DEF FindById
  <2> QED BY <2>1, <2>2
<1>6. CASE SumLedger(a)
  <2> DEFINE z == [k EXCEPT !.pc = "count", !.calculated = SumSigned(ledger[k.wallet])]
  <2>1. Record(a, z) /\ k.pc = "sum"
    BY <1>6 DEF SumLedger
  <2>3. k.wallet \in Wallet
    BY <2>1 DEF ReadersInv, WaitsForWallet
  <2>4. SumSigned(ledger[k.wallet]) \in Nat
    BY <2>3, SumIsBalance DEF ReadersInv, ReadersTypeOK, ServiceTypeOK
  <2>2. /\ z \in Audits /\ z.pc = "count" /\ z.wallet = k.wallet
        /\ z.held = k.held /\ z.stored = k.stored
        /\ z.calculated = SumSigned(ledger[k.wallet])
    BY <1>1, <2>4 DEF Audits
  <2> HIDE DEF z
  <2> QED BY <1>3, <2>1, <2>2, <2>3, RecordStep
<1>7. CASE CountLedger(a)
  <2> DEFINE z == [k EXCEPT !.pc = "report", !.checked = Len(ledger[k.wallet])]
  <2>1. Record(a, z) /\ k.pc = "count"
    BY <1>7 DEF CountLedger
  <2>2. Len(ledger[k.wallet]) \in Nat
    BY <1>7 DEF ReadersInv, ReadersTypeOK, WaitsForWallet, CountLedger
  <2>3. /\ z \in Audits /\ z.pc = "report" /\ z.wallet = k.wallet
        /\ z.held = k.held /\ z.stored = k.stored /\ z.calculated = k.calculated
        /\ z.checked = Len(ledger[k.wallet])
    BY <1>1, <2>2 DEF Audits
  <2> HIDE DEF z
  <2>4. k.wallet \in Wallet
    BY <2>1 DEF ReadersInv, WaitsForWallet
  <2> QED BY <1>3, <2>1, <2>3, <2>4, RecordStep
<1>8. CASE SumFails(a) \/ Report(a)
  <2>1. NoAudit.pc = "idle"
    BY DEF NoAudit
  <2> QED BY <1>2, <1>8, <2>1, RecordStep DEF SumFails, Report
<1> QED
  BY <1>4, <1>5, <1>6, <1>7, <1>8 DEF Reconcile

LEMMA ReadersInvariance == ReadersSpec => []ReadersInv
<1>1. ReadersInit => ReadersInv
  BY ReadersStart
<1>2. ReadersInv /\ [ReadersNext]_vars => ReadersInv'
  <2> SUFFICES ASSUME ReadersInv, [ReadersNext]_vars PROVE ReadersInv'
    OBVIOUS
  <2>1. CASE Tick
    <3>1. now' \in Nat /\ UNCHANGED <<serviceVars, place, walk, audit>>
      BY <2>1 DEF Tick, ReadersInv, ReadersTypeOK
    <3>2. ReadersTypeOK'
      BY <3>1 DEF ReadersInv, ReadersTypeOK, serviceVars
    <3> QED BY <3>1, <3>2 DEF ReadersInv, ClosedIsEmpty, LedgersBalance, WalksOK, NothingSkipped,
                              NothingRepeated, AuditsOK, WaitsForWallet, IsOpen, serviceVars
  <2>2. CASE UNCHANGED vars
    BY <2>2 DEF vars, ReadersInv, ReadersTypeOK, ClosedIsEmpty, LedgersBalance, WalksOK, NothingSkipped,
                NothingRepeated, AuditsOK, WaitsForWallet, IsOpen
  <2> QED BY <2>1, <2>2, WriteStep, WalkStep, AuditStep DEF ReadersNext
<1> QED
  BY <1>1, <1>2, PTL DEF ReadersSpec

\* A client that follows the cursors of a ledger to the end gets every entry
\* committed before its first page, whatever is written meanwhile and however
\* clocks tie.
THEOREM WalksAreComplete == ReadersSpec => []NothingSkipped
<1>1. ReadersInv => NothingSkipped
  BY DEF ReadersInv
<1> QED
  BY <1>1, ReadersInvariance, PTL

\* No page of a walk repeats an entry of an earlier one.
THEOREM WalksAreDisjoint == ReadersSpec => []NothingRepeated
<1>1. ReadersInv => NothingRepeated
  BY DEF ReadersInv
<1> QED
  BY <1>1, ReadersInvariance, PTL

\* What a reconciliation reports under the lock is what the tables hold at
\* that moment, so it reports a divergence only if there is one.
THEOREM ReconciliationIsTrue == ReadersSpec => []ReconcilesOneState
<1>1. ReadersInv => ReconcilesOneState
  BY DEF ReadersInv, AuditsOK, ReconcilesOneState
<1> QED
  BY <1>1, ReadersInvariance, PTL

\* In every state, and not only under a lock, the entries of a wallet add up
\* to its balance.
THEOREM BalanceIsSumOfLedger ==
  ReadersSpec => [](\A w \in Wallet : IsOpen(w) => SumSigned(ledger[w]) = balance[w])
<1>1. ReadersInv => \A w \in Wallet : IsOpen(w) => SumSigned(ledger[w]) = balance[w]
  BY SumIsBalance DEF ReadersInv, ReadersTypeOK, ServiceTypeOK
<1> QED
  BY <1>1, ReadersInvariance, PTL

\* No divergence is ever reported of a wallet that was locked: its balance is
\* the sum of its ledger, and both are read under the lock.
THEOREM NoAlarmIsFalse == ReadersSpec => []NoFalseAlarm
<1>1. ReadersInv => NoFalseAlarm
  <2> SUFFICES ASSUME ReadersInv, NEW a \in Auditor,
                      audit[a].pc = "report", audit[a].held
               PROVE  audit[a].stored = audit[a].calculated
    BY DEF NoFalseAlarm, Divergent
  <2> DEFINE w == audit[a].wallet
  <2>1. /\ w \in Wallet /\ IsOpen(w)
        /\ audit[a].stored = balance[w] /\ audit[a].calculated = SumSigned(ledger[w])
    BY DEF ReadersInv, AuditsOK
  <2>2. ServiceTypeOK /\ LedgersBalance /\ ClosedIsEmpty
    BY DEF ReadersInv, ReadersTypeOK, ServiceTypeOK
  <2> QED BY <2>1, <2>2, SumIsBalance
<1> QED
  BY <1>1, ReadersInvariance, PTL

\* The service and its readers keep their types: no operation the rules let
\* pass leaves a negative balance.
THEOREM ReadersTypeCorrect == ReadersSpec => []ReadersTypeOK
<1>1. ReadersInv => ReadersTypeOK
  BY DEF ReadersInv
<1> QED
  BY <1>1, ReadersInvariance, PTL
=============================================================================
