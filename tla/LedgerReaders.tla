--------------------------- MODULE LedgerReaders ---------------------------
(***************************************************************************)
(* The two readers of a wallet's ledger beside its writers: GetWalletLedger*)
(* pages through it, one call and one transaction per page, and            *)
(* ReconcileWallet compares its sum with the stored balance by four        *)
(* statements: three of one transaction, which holds the wallet's row lock,*)
(* and the sum, which runs on a second connection of the pool.  The writers*)
(* are the atomic operations of WalletService; what they add here is the   *)
(* place of an entry in the listing, which is ordered by created_at and id.*)
(* created_at is a clock the use case reads before it waits for the        *)
(* wallet's row lock, so any earlier instant is possible when the entry is *)
(* committed.                                                              *)
(***************************************************************************)
EXTENDS WalletService

CONSTANTS
  Reader,      \* clients that page through a ledger
  Auditor,     \* callers of the reconciliation
  MaxPage,     \* bound: the largest page asked for
  EntryId,     \* ids of ledger entries
  LastInstant  \* bound: how far the clock runs

ASSUME ReaderAssumption ==
  /\ MaxPage \in Nat \ {0}
  /\ EntryId \subseteq Nat
  /\ LastInstant \in Nat

VARIABLES
  now,    \* the clock
  place,  \* wallet -> entry -> its created_at and id
  walk,   \* reader -> the listing it is reading
  audit   \* auditor -> the reconciliation it is running

vars == <<balance, outcome, ledger, now, place, walk, audit>>

Places == [at : Nat, id : EntryId]

\* ORDER BY created_at, id
Later(a, b) == a.at > b.at \/ (a.at = b.at /\ a.id > b.id)

\* The listing of a wallet, from its first page (began counts the entries
\* committed by then) to the page without a cursor.  seen are the entries of
\* the pages before the last one.
NoWalk == [wallet |-> None, began |-> 0, cursor |-> None, seen |-> {}, page |-> {},
           ended |-> FALSE]

NoAudit == [pc |-> "idle", wallet |-> None, held |-> FALSE, stored |-> NoBalance,
            calculated |-> 0, checked |-> 0]

ReadersInit ==
  /\ Init
  /\ now = 0
  /\ \E id \in EntryId :
       place = [w \in Wallet |-> [i \in 1..Len(ledger[w]) |-> [at |-> 0, id |-> id]]]
  /\ walk = [r \in Reader |-> NoWalk]
  /\ audit = [a \in Auditor |-> NoAudit]

-----------------------------------------------------------------------------
(* The writers                                                             *)

Tick ==
  /\ now < LastInstant
  /\ now' = now + 1
  /\ UNCHANGED <<serviceVars, place, walk, audit>>

\* Where the entry just committed to w stands in its listing.
Placed(w) ==
  IF ledger'[w] = ledger[w]
  THEN UNCHANGED place
  ELSE \E at \in 0..now, id \in EntryId :
         /\ \A i \in DOMAIN place[w] : place[w][i].id # id
         /\ place' = [place EXCEPT ![w] = Append(@, [at |-> at, id |-> id])]

\* A reconciliation holds the wallet row FOR UPDATE: no unit of work gets a
\* lock on it, not even that of a foreign key.  The mutant does not lock.
Unlocked(w) == FALSE
Locked(w) == \E a \in Auditor : audit[a].wallet = w /\ audit[a].held

Write ==
  /\ \/ \E w \in Wallet : Open(w) /\ Placed(w)
     \/ \E t \in Cmd : /\ ~Locked(Req(t).wallet)
                       /\ Decide(t)
                       /\ Placed(Req(t).wallet)
  /\ UNCHANGED <<now, walk, audit>>

-----------------------------------------------------------------------------
(* GetWalletLedger                                                         *)

\* (created_at, id) > (?, ?).  The mutants compare the clock alone, or let
\* the row of the cursor in again.
ClockBeyond(row, cursor) == row.at > cursor.at
NotBefore(row, cursor) == Later(row, cursor) \/ row = cursor
Beyond(row, cursor) == Later(row, cursor)

\* The rows this page's SELECT finds before its limit.
Rows(w, cursor) ==
  {i \in 1..Len(ledger[w]) : cursor # None => Beyond(place[w][i], cursor)}

\* P is the page of at most limit rows: the first ones in the listing.
FirstRows(w, rows, P, limit) ==
  /\ IF Cardinality(rows) > limit THEN Cardinality(P) = limit ELSE P = rows
  /\ \A i \in P, j \in rows \ P : Later(place[w][j], place[w][i])

\* nextCursor: the place of the last row of the page when there are more.
\* The mutant takes it from the row fetched to learn that.
CursorOfExtra(w, rows, P) ==
  {place[w][i] : i \in {k \in rows \ P :
                          \A j \in rows \ P : j = k \/ Later(place[w][j], place[w][k])}}
CursorAfter(w, rows, P) ==
  {place[w][i] : i \in {k \in P :
                          \A j \in P : j = k \/ Later(place[w][k], place[w][j])}}

Page(r, w, began, cursor, seen) ==
  LET rows == Rows(w, cursor) IN
  \E limit \in 1..MaxPage, P \in SUBSET rows :
    /\ FirstRows(w, rows, P, limit)
    /\ \E next \in IF rows = P THEN {None} ELSE CursorAfter(w, rows, P) :
         walk' = [walk EXCEPT ![r] =
                   [wallet |-> w, began |-> began, cursor |-> next,
                    seen |-> seen, page |-> P, ended |-> rows = P]]

\* The first page, of a wallet that is found.
FirstPage(r) ==
  /\ walk[r] = NoWalk
  /\ \E w \in Wallet : /\ IsOpen(w)
                       /\ Page(r, w, Len(ledger[w]), None, {})
  /\ UNCHANGED <<serviceVars, now, place, audit>>

NextPage(r) ==
  /\ walk[r].cursor # None
  /\ Page(r, walk[r].wallet, walk[r].began, walk[r].cursor,
          walk[r].seen \cup walk[r].page)
  /\ UNCHANGED <<serviceVars, now, place, audit>>

-----------------------------------------------------------------------------
(* ReconcileWallet                                                         *)

Record(a, rec) ==
  /\ audit' = [audit EXCEPT ![a] = rec]
  /\ UNCHANGED <<serviceVars, now, place, walk>>

\* SELECT ... FOR UPDATE: nothing is locked when there is no such wallet.
LockWallet(a) ==
  /\ audit[a].pc = "idle"
  /\ \E w \in Wallet :
       /\ ~Locked(w)
       /\ Record(a, [NoAudit EXCEPT !.pc = "findById", !.wallet = w,
                                    !.held = IsOpen(w)])

\* A wallet that is still not there is an error, which ends the transaction.
FindById(a) ==
  LET w == audit[a].wallet IN
  /\ audit[a].pc = "findById"
  /\ Record(a, IF IsOpen(w)
               THEN [audit[a] EXCEPT !.pc = "sum", !.stored = balance[w]]
               ELSE NoAudit)

\* sumSignedByWallet, entry by entry; the mutant forgets that a debit counts
\* down.
SumOfAmounts(entries) ==
  LET sum[n \in 0..Len(entries)] ==
        IF n = 0 THEN 0 ELSE sum[n - 1] + entries[n].amount
  IN sum[Len(entries)]
SumSigned(entries) ==
  LET sum[n \in 0..Len(entries)] ==
        IF n = 0 THEN 0
        ELSE sum[n - 1] + SignedAmount(entries[n].direction, entries[n].amount)
  IN sum[Len(entries)]

\* The sum is read outside the transaction, of what is committed by then.
SumLedger(a) ==
  /\ audit[a].pc = "sum"
  /\ Record(a, [audit[a] EXCEPT !.pc = "count",
                                !.calculated = SumSigned(ledger[audit[a].wallet])])

\* No second connection is to be had while others hold those of the pool:
\* the error of the wait ends the transaction, and with it the lock.
SumFails(a) ==
  /\ audit[a].pc = "sum"
  /\ Record(a, NoAudit)

CountLedger(a) ==
  /\ audit[a].pc = "count"
  /\ Record(a, [audit[a] EXCEPT !.pc = "report",
                                !.checked = Len(ledger[audit[a].wallet])])

Divergent(a) == audit[a].stored # audit[a].calculated

\* The transaction ends, and with it the lock; a divergence is reported.
Report(a) ==
  /\ audit[a].pc = "report"
  /\ Record(a, NoAudit)

Reconcile(a) ==
  \/ LockWallet(a) \/ FindById(a) \/ SumLedger(a) \/ SumFails(a)
  \/ CountLedger(a) \/ Report(a)

-----------------------------------------------------------------------------
ReadersNext ==
  \/ Tick \/ Write
  \/ \E r \in Reader : FirstPage(r) \/ NextPage(r)
  \/ \E a \in Auditor : Reconcile(a)

ReadersSpec == ReadersInit /\ [][ReadersNext]_vars

-----------------------------------------------------------------------------
(* Properties                                                              *)

Walks ==
  [wallet : Wallet \cup {None}, began : Nat, cursor : Places \cup {None},
   seen : SUBSET Nat, page : SUBSET Nat, ended : BOOLEAN]

Audits ==
  [pc : {"idle", "findById", "sum", "count", "report"}, wallet : Wallet \cup {None},
   held : BOOLEAN, stored : Balances, calculated : Nat, checked : Nat]

\* Types, among them the balances and the sums of ledgers, which are never
\* negative, and the place of every entry.
ReadersTypeOK ==
  /\ balance \in [Wallet -> Balances]
  /\ outcome \in [TxId -> Outcomes]
  /\ ledger \in [Wallet -> Seq(Entries)]
  /\ now \in Nat
  /\ place \in [Wallet -> Seq(Places)]
  /\ walk \in [Reader -> Walks]
  /\ audit \in [Auditor -> Audits]
  /\ \A w \in Wallet : Len(place[w]) = Len(ledger[w])

\* A client that follows the cursors to the end has been given every entry
\* committed before its first page, although entries are committed before,
\* behind and beyond its cursor meanwhile, with equal clocks too.
NothingSkipped ==
  \A r \in Reader :
    LET k == walk[r] IN
    \A i \in 1..k.began :
      k.ended \/ (k.cursor # None /\ ~Later(place[k.wallet][i], k.cursor))
        => i \in k.seen \cup k.page

\* No page gives an entry again, whatever is committed between the pages,
\* and a cursor is never followed by an empty page.
NothingRepeated ==
  \A r \in Reader :
    LET k == walk[r] IN
    /\ k.page \cap k.seen = {}
    /\ k.page = {} => k.seen = {}

\* A reconciliation that found the wallet under its lock reports one state
\* of it, that of this moment: the balance, the sum and the count agree with
\* the tables although each is read by a statement of its own.
ReconcilesOneState ==
  \A a \in Auditor :
    audit[a].pc = "report" /\ audit[a].held =>
      /\ audit[a].stored = balance[audit[a].wallet]
      /\ audit[a].calculated = SumSigned(ledger[audit[a].wallet])
      /\ audit[a].checked = Len(ledger[audit[a].wallet])

\* No divergence is ever reported of a wallet that is being written; a false
\* alarm can only come from a wallet created between the locking SELECT and
\* findById.
NoFalseAlarm ==
  \A a \in Auditor :
    audit[a].pc = "report" /\ audit[a].held => ~Divergent(a)
=============================================================================
