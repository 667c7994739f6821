----------------------- MODULE WagerRefinementProofs -----------------------
(***************************************************************************)
(* The units of work are the atomic operations of WalletService, for any   *)
(* number of processes, wallets, requests and crashes.                     *)
(*                                                                         *)
(* A unit of work decides by what it has read (Decides).  If it has locked *)
(* the wallet's row, no other one decides on that wallet until it commits, *)
(* so this is still what the tables say at COMMIT: the balance, the        *)
(* references on the wallet, and that none of them is taken.  If there was *)
(* no row to lock, it is what the tables have said since the wallet was    *)
(* opened, and a movement is exact all the same, by the version of the     *)
(* UPDATE.  Rows of other wallets may appear, but never take away a        *)
(* reference or decide for this one.                                       *)
(*                                                                         *)
(* The same lock puts the waits for wallets that exist in one order, so    *)
(* none of them is a cycle.                                                *)
(***************************************************************************)
EXTENDS WagerMovementProofs, WagerRefinement

\* What the tables say depends on the rows and the ledger only.
LEMMA SameTables ==
  ASSUME UNCHANGED <<ledger, txs>>
  PROVE  /\ \A t : Candidates(t)' = Candidates(t)
         /\ \A s, k : Taken(s, k)' <=> Taken(s, k)
         /\ \A t : Lonely(t)' <=> Lonely(t)
         /\ \A w : Had(w)' = Had(w)
<1>1. \A t : Candidates(t)' = Candidates(t)
  BY DEF Candidates, FindByProviderAndExternalId, Committed
<1>2. \A s, k : Taken(s, k)' <=> Taken(s, k)
  BY DEF Taken
<1>3. \A t : Lonely(t)' <=> Lonely(t)
  BY <1>1 DEF Lonely
<1>4. \A w : Had(w)' = Had(w)
  BY DEF Had
<1> QED BY <1>1, <1>2, <1>3, <1>4

\* A unit of work whose wallet was there to be locked has locked it.
LEMMA LockedWallet ==
  ASSUME DecisionInv, NEW p \in Proc, snap[p] # None
  PROVE  /\ job[p] # NoJob /\ job[p].id \in TxId /\ W(p) \in Wallet
         /\ snap[p].balance \in Had(W(p))
         /\ Guarded(p) => lock[p] = "Update"
         /\ lock[p] \in {"NoKeyUpdate", "Update"} => snap[p] = wallets[W(p)]
<1> USE DEF DecisionInv, MovementInv, RowInv, LedgerInv, ControlInv
<1>1. job[p] # NoJob
  BY DEF ControlOK, AtRest
<1>2. job[p].id \in TxId /\ W(p) \in Wallet
  BY <1>1, JobFields
<1>3. snap[p].balance \in Had(W(p)) /\ (Guarded(p) => lock[p] = "Update")
  BY DEF DecisionFits, HoldsLock
<1>4. lock[p] \in {"NoKeyUpdate", "Update"} => snap[p] = wallets[W(p)]
  BY DEF LedgerCore, SnapshotsAge
<1> QED BY <1>1, <1>2, <1>3, <1>4

\* Initially no wallet is read and no row waits.
LEMMA InitDecisions == Init => DecisionInv
<1> SUFFICES ASSUME Init PROVE DecisionInv
  OBVIOUS
<1>1. MovementInv
  BY InitMovements
<1>2. \A w \in OpenAtStart : wallets[w].open
  BY WalletAssumption DEF Init, OpenedWallet
<1>3. \A w \in Wallet : wallets[w].open => wallets[w].balance \in Had(w)
  BY DEF Init, OpenedWallet, NoWallet, Had
<1>4. \A t \in TxId : /\ txs[t].status # "PENDING_REFERENCE"
                      /\ txs[t].status = "ABSENT" => txs[t] = NoRow
  BY DEF Init, OpeningRow, ProcessedRow, PendingRow, NoRow
<1>5. \A p \in Proc : DecisionFits(p)
  BY DEF Init, DecisionFits, HoldsLock, Creating, AtRest, NoWrites, NoJob, WritingLabels
<1> QED BY <1>1, <1>2, <1>3, <1>4, <1>5 DEF DecisionInv, DecisionTablesOK

-----------------------------------------------------------------------------
(* What other processes' steps leave                                       *)

\* A step leaves q alone and takes nothing away that q has found; if q has
\* locked the wallet, it adds nothing that matters to q either.
Kept(q) ==
  /\ job'[q] = job[q] /\ snap'[q] = snap[q] /\ lock'[q] = lock[q]
  /\ buf'[q] = buf[q] /\ ref'[q] = ref[q] /\ pc'[q] = pc[q]
  /\ \A w \in Wallet : Had(w) \subseteq Had(w)'
  /\ \A t \in TxId : Candidates(t) \subseteq Candidates(t)'
  /\ \A s, k : Taken(s, k) => Taken(s, k)'
  /\ lock[q] = "Update" =>
       /\ \A s, k : s # None /\ Req(s).wallet = W(q) /\ Taken(s, k)' => Taken(s, k)
       /\ \A t \in TxId : Req(t).wallet = W(q) /\ Lonely(t) => Lonely(t)'

LEMMA KeptRules ==
  ASSUME DecisionInv, NEW q \in Proc, Kept(q), NEW s, NEW code, Breaks(q, s, code)
  PROVE  Breaks(q, s, code)'
<1>1. R(q)' = R(q) /\ W(q)' = W(q) /\ lock'[q] = lock[q] /\ R(q).wallet = W(q)
  BY DEF Kept, R, W
<1>2. MovementOf(q, s)' = MovementOf(q, s)
  BY <1>1 DEF Kept, MovementOf
<1>3. \A k : Taken(s, k) => Taken(s, k)'
  BY DEF Kept
<1>4. CASE s # None /\ code = ReferenceFailure(R(q), Req(s))
  BY <1>1, <1>4 DEF Breaks
<1>5. CASE /\ s # None /\ ReferenceFailure(R(q), Req(s)) = NoFailure
           /\ code = "ALREADY_REVERSED" /\ Taken(s, R(q).kind)
  <2>1. \A k : k = R(q).kind => Taken(s, k)'
    BY <1>3, <1>5
  <2> QED BY <1>1, <1>5, <2>1 DEF Breaks
<1>6. CASE /\ AffectsBalance(R(q).kind)
           /\ s # None => /\ ReferenceFailure(R(q), Req(s)) = NoFailure
                          /\ lock[q] = "Update" => ~Taken(s, R(q).kind)
           /\ code = MovementOf(q, s)
  <2>1. ASSUME s # None, lock[q] = "Update" PROVE \A k : k = R(q).kind => ~Taken(s, k)'
    <3>1. Req(s).wallet = W(q)
      BY <1>1, <1>6, <2>1, ReferenceRules
    <3> QED BY <1>6, <2>1, <3>1 DEF Kept
  <2> QED BY <1>1, <1>2, <1>6, <2>1 DEF Breaks
<1> QED BY <1>4, <1>5, <1>6 DEF Breaks

LEMMA KeptDecision ==
  ASSUME DecisionInv, NEW q \in Proc, Kept(q), snap[q] # None, NEW row, Decides(q, row)
  PROVE  Decides(q, row)'
<1>1. /\ R(q)' = R(q) /\ W(q)' = W(q) /\ lock'[q] = lock[q] /\ job'[q] = job[q]
      /\ snap'[q] = snap[q]
  BY DEF Kept, R, W
<1>2. job[q].id \in TxId /\ Req(job[q].id).wallet = W(q)
  BY LockedWallet DEF W, R
<1>3. \A s : s \in Candidates(job[q].id) => s \in Candidates(job[q].id)'
  <2>1. \A t \in TxId : t = job[q].id => Candidates(t) \subseteq Candidates(t)'
    BY DEF Kept
  <2> QED BY <1>1, <1>2, <2>1
<1>4. lock[q] = "Update" /\ Lonely(job[q].id) => Lonely(job[q].id)'
  <2>1. lock[q] = "Update" =>
          \A t \in TxId : t = job[q].id /\ Lonely(t) => Lonely(t)'
    BY <1>2 DEF Kept
  <2> QED BY <1>1, <1>2, <2>1
<1>5. job[q].op = "reprocess" => lock[q] = "Update"
  BY LockedWallet DEF Guarded
<1>6. row.status = "PROCESSED" =>
        /\ row.failure = NoFailure
        /\ IF AffectsBalance(R(q).kind)'
           THEN /\ row.reference \in Candidates(job[q].id)'
                /\ MovementOf(q, row.reference)' = NoFailure
           ELSE row.observed = Observed(q, snap[q].balance)'
  <2>1. \A s : MovementOf(q, s)' = MovementOf(q, s)
    BY <1>1 DEF MovementOf
  <2>2. Observed(q, snap[q].balance)' = Observed(q, snap[q].balance)
    BY <1>1 DEF Observed
  <2>3. AffectsBalance(R(q).kind)' <=> AffectsBalance(R(q).kind)
    BY <1>1
  <2> QED BY <1>3, <2>1, <2>2, <2>3 DEF Decides
<1>7. row.status = "REJECTED" =>
        \/ /\ job'[q].op = "reprocess" /\ Lonely(job[q].id)'
           /\ row.failure = "REFERENCE_NOT_FOUND" /\ row.observed = NoBalance
        \/ /\ \E s \in Candidates(job[q].id)' : Breaks(q, s, row.failure)'
           /\ row.failure # NoFailure
           /\ row.observed = Observed(q, snap[q].balance)'
  <2>1. Observed(q, snap[q].balance)' = Observed(q, snap[q].balance)
    BY <1>1 DEF Observed
  <2>2. \A s : Breaks(q, s, row.failure) => Breaks(q, s, row.failure)'
    BY KeptRules
  <2> QED BY <1>1, <1>3, <1>4, <1>5, <2>1, <2>2 DEF Decides
<1>8. row.status = "PENDING_REFERENCE" =>
        /\ RequiresReference(R(q).kind)'
        /\ job'[q].op = "process" /\ lock'[q] = "Update" => Lonely(job[q].id)'
  <2>1. RequiresReference(R(q).kind)' <=> RequiresReference(R(q).kind)
    BY <1>1
  <2> QED BY <1>1, <1>4, <2>1 DEF Decides
<1> QED BY <1>6, <1>7, <1>8 DEF Decides

\* So what q has decided stays decided.
LEMMA OthersDecide ==
  ASSUME DecisionInv, NEW q \in Proc, Kept(q)
  PROVE  DecisionFits(q)'
<1> USE DEF DecisionInv, MovementInv, RowInv, LedgerInv, ControlInv
<1> DEFINE t == job[q].id
<1>1. /\ job'[q] = job[q] /\ buf'[q] = buf[q] /\ ref'[q] = ref[q] /\ pc'[q] = pc[q]
      /\ snap'[q] = snap[q] /\ lock'[q] = lock[q] /\ R(q)' = R(q) /\ W(q)' = W(q)
  BY DEF Kept, R, W
<1>2. DecisionFits(q)
  OBVIOUS
<1>3. HoldsLock(q)' /\ (Creating(q)' <=> Creating(q))
  BY <1>1, <1>2 DEF DecisionFits, HoldsLock, Guarded, Creating
<1>4. OpeningRow(W(q))' = OpeningRow(W(q))
  BY <1>1 DEF OpeningRow
<1>5. CASE snap[q] = None
  <2>1. ~(pc[q] \in WritingLabels \cup {"insertTransaction"})
    BY <1>5 DEF ControlOK, WritingLabels, DecidingLabels
  <2>2. buf[q].row # NoRow => job[q].op = "create"
    BY <1>5 DEF WalletsOpen
  <2> QED BY <1>1, <1>2, <1>3, <1>4, <1>5, <2>1, <2>2 DEF DecisionFits, WritingLabels
<1>6. CASE snap[q] # None
  <2>1. t \in TxId /\ W(q) \in Wallet /\ Req(t).wallet = W(q)
    BY <1>6, LockedWallet DEF W, R
  <2>2. \A b : b \in Had(W(q)) => b \in Had(W(q))'
    <3>1. \A w \in Wallet : w = W(q) => Had(w) \subseteq Had(w)'
      BY DEF Kept
    <3> QED BY <1>1, <2>1, <3>1
  <2>3. \A s : s \in Candidates(t) => s \in Candidates(t)'
    <3>1. \A u \in TxId : u = t => Candidates(u) \subseteq Candidates(u)'
      BY DEF Kept
    <3> QED BY <1>1, <2>1, <3>1
  <2>4. ASSUME pc[q] \in {"apply", "saveWallet"}, ref[q] # None, lock[q] = "Update"
        PROVE  ~Taken(ref[q], R(q).kind)'
    <3>1. PointsTo(t, ref[q])
      BY <2>4 DEF RowWorkOK, ReversalFits
    <3>2. Req(ref[q]).wallet = W(q)
      BY <2>1, <3>1, ReferenceRules DEF PointsTo
    <3>3. ~Taken(ref[q], R(q).kind)
      BY <1>2, <2>4 DEF DecisionFits
    <3>4. \A s, k : s = ref[q] /\ k = R(q).kind => ~Taken(s, k)'
      BY <2>4, <3>2, <3>3 DEF Kept
    <3> QED BY <1>1, <3>4
  <2>5. ASSUME pc[q] = "commit", buf[q].row # NoRow, job[q].op # "create"
        PROVE  Decides(q, buf[q].row)'
    <3>1. Decides(q, buf[q].row)
      BY <1>2, <2>5 DEF DecisionFits
    <3>2. \A row : row = buf[q].row => Decides(q, row)'
      BY <1>6, <3>1, KeptDecision
    <3> QED BY <1>1, <3>2
  <2> QED BY <1>1, <1>2, <1>3, <1>4, <2>2, <2>3, <2>4, <2>5 DEF DecisionFits
<1> QED BY <1>5, <1>6
-----------------------------------------------------------------------------
(* Steps that commit nothing                                               *)

\* It is enough to look at the process that steps.
LEMMA QuietDecisions ==
  ASSUME DecisionInv, MovementInv', NEW p \in Proc, Beside(p), UNCHANGED db,
         DecisionFits(p)'
  PROVE  DecisionInv'
<1>1. ASSUME NEW q \in Proc \ {p} PROVE DecisionFits(q)'
  <2>1. Kept(q)
    BY SameTables DEF Kept, Beside, db
  <2> QED BY <2>1, OthersDecide
<1>2. DecisionTablesOK'
  <2>1. DecisionTablesOK
    BY DEF DecisionInv
  <2> QED BY <2>1, SameTables DEF DecisionTablesOK, db
<1> QED BY <1>1, <1>2 DEF DecisionInv

\* A process that has read no wallet has decided nothing.
LEMMA RestDecisions ==
  ASSUME DecisionInv, MovementInv', NEW p \in Proc, Beside(p), UNCHANGED db,
         snap'[p] = None, buf'[p].row = NoRow, buf'[p].wallet = None,
         pc'[p] \in AtRest \cup {"lockWallet", "checkWallet", "insertWallet"}
  PROVE  DecisionInv'
<1>1. lock'[p] = "none"
  BY DEF MovementInv, RowInv, LedgerInv, ControlInv, WalletsOpen
<1>2. DecisionFits(p)'
  BY <1>1 DEF DecisionFits, HoldsLock, AtRest, Creating
<1> QED BY <1>2, QuietDecisions

\* The throw of any statement.
LEMMA FailDecisions ==
  ASSUME DecisionInv, MovementInv', NEW p \in Proc, NEW e, Fail(p, e)
  PROVE  DecisionInv'
<1>1. /\ Beside(p) /\ UNCHANGED db
      /\ buf'[p] = NoWrites /\ pc'[p] = "failed" /\ snap'[p] = None
  BY DEF Fail, EndTransaction, Goto, Beside, DecisionInv, MovementInv, RowInv, LedgerInv,
         ControlInv, TypeOK
<1> QED BY <1>1, RestDecisions DEF NoWrites, AtRest

\* The steps around a unit of work.
LEMMA AroundDecisions ==
  ASSUME DecisionInv, MovementInv',
         \/ \E h \in Handler : \/ \E c \in Cmd : Submit(h, c)
                               \/ \E w \in Wallet : CreateWallet(h, w)
         \/ \E k \in Worker : ListDue(k) \/ ReprocessNext(k)
         \/ \E p \in Proc : Return(p) \/ Crash(p)
  PROVE  DecisionInv'
<1> USE DEF DecisionInv, MovementInv, RowInv, LedgerInv, ControlInv
<1>1. \A p \in Proc : pc[p] \in AtRest =>
        snap[p] = None /\ buf[p].row = NoRow /\ buf[p].wallet = None
  BY DEF ControlOK, NoWrites
<1>2. Handler \subseteq Proc /\ Worker \subseteq Proc
  BY DEF Proc
<1>3. ASSUME NEW p \in Proc, Beside(p), UNCHANGED <<db, snap, buf>>, pc[p] \in AtRest,
             pc'[p] \in {"lockWallet", "checkWallet", "idle"}
      PROVE  DecisionInv'
  BY <1>1, <1>3, RestDecisions DEF AtRest
<1>4. ASSUME NEW h \in Handler,
             (\E c \in Cmd : Submit(h, c)) \/ (\E w \in Wallet : CreateWallet(h, w))
      PROVE  DecisionInv'
  <2>1. /\ h \in Proc /\ UNCHANGED <<db, snap, buf>> /\ pc[h] = "idle"
        /\ pc'[h] \in {"lockWallet", "checkWallet"}
    BY <1>2, <1>4 DEF Submit, CreateWallet, TypeOK, Goto
  <2>2. Beside(h)
    BY <1>2, <1>4 DEF Submit, CreateWallet, Beside, TypeOK, Goto
  <2> QED BY <1>3, <2>1, <2>2 DEF AtRest
<1>5. ASSUME NEW k \in Worker, ListDue(k) PROVE DecisionInv'
  BY <1>2, <1>3, <1>5 DEF ListDue, Beside, TypeOK, AtRest
<1>6. ASSUME NEW k \in Worker, ReprocessNext(k) PROVE DecisionInv'
  BY <1>2, <1>3, <1>6 DEF ReprocessNext, Beside, TypeOK, AtRest, Goto
<1>7. ASSUME NEW p \in Proc, Return(p) PROVE DecisionInv'
  BY <1>3, <1>7 DEF Return, Beside, TypeOK, AtRest, Goto
<1>8. ASSUME NEW p \in Proc, Crash(p) PROVE DecisionInv'
  <2>1. /\ Beside(p) /\ UNCHANGED db
        /\ buf'[p] = NoWrites /\ pc'[p] = "idle" /\ snap'[p] = None
    BY <1>8 DEF Crash, EndTransaction, Goto, Beside, TypeOK
  <2> QED BY <2>1, RestDecisions DEF NoWrites, AtRest
<1> QED BY <1>4, <1>5, <1>6, <1>7, <1>8

\* The creation of a wallet.
LEMMA CreateDecisions ==
  ASSUME DecisionInv, MovementInv', NEW p \in Proc, CheckWallet(p) \/ InsertWallet(p)
  PROVE  DecisionInv'
<1> USE DEF DecisionInv, MovementInv, RowInv, LedgerInv, ControlInv
<1>1. CASE \E e : Fail(p, e)
  BY <1>1, FailDecisions
<1>2. CASE ~\E e : Fail(p, e)
  <2>0. HoldsLock(p) /\ DecisionFits(p)
    BY DEF DecisionFits
  <2>1. CASE CheckWallet(p)
    <3>1. /\ Beside(p) /\ UNCHANGED <<db, job, snap, lock, buf, ref>>
          /\ pc[p] = "checkWallet" /\ pc'[p] = "insertWallet"
      BY <1>2, <2>1 DEF CheckWallet, Goto, Beside, TypeOK
    <3>2. job[p].op = "create" /\ buf[p].row = NoRow
      BY <3>1, EarlyState DEF ControlOK
    <3>3. DecisionFits(p)'
      BY <2>0, <3>1, <3>2, SameTables
         DEF DecisionFits, HoldsLock, WritingLabels, Guarded, Creating, db, W, R
    <3> QED BY <3>1, <3>3, QuietDecisions
  <2>2. CASE InsertWallet(p)
    <3>1. /\ UNCHANGED <<db, job, snap, lock, ref>> /\ pc[p] = "insertWallet"
          /\ pc' = [pc EXCEPT ![p] = "commit"]
      BY <1>2, <2>2 DEF InsertWallet, Goto
    <3>2. /\ buf'[p].row = OpeningRow(W(p))
          /\ \A q \in Proc \ {p} : buf'[q] = buf[q]
      <4> DEFINE writes == [NoWrites EXCEPT !.row = OpeningRow(W(p)),
                                            !.wallet = OpenedWallet(W(p)),
                                            !.entry = OpeningEntry(W(p)),
                                            !.events = OpeningEvents(W(p))]
      <4>1. buf' = [buf EXCEPT ![p] = writes]
        BY <1>2, <2>2 DEF InsertWallet
      <4>2. writes.row = OpeningRow(W(p))
        BY DEF NoWrites
      <4> HIDE DEF writes
      <4> QED BY <4>1, <4>2 DEF TypeOK
    <3>3. job[p].op = "create" /\ W(p)' = W(p) /\ Beside(p) /\ pc'[p] = "commit"
      BY <1>2, <2>2, <3>1, <3>2 DEF ControlOK, InsertWallet, W, R, Beside, TypeOK
    <3>4. snap'[p] # None => snap'[p].balance \in Had(W(p))'
      <4>1. snap[p] # None => snap[p].balance \in Had(W(p))
        BY <2>0 DEF DecisionFits
      <4> QED BY <3>1, <3>3, <4>1 DEF Had, db
    <3>5. HoldsLock(p)'
      BY <2>0, <3>1, <3>3 DEF HoldsLock, Guarded
    <3>6. OpeningRow(W(p))' = OpeningRow(W(p))
      BY <3>3 DEF OpeningRow
    <3>7. DecisionFits(p)'
      BY <3>1, <3>2, <3>3, <3>4, <3>5, <3>6 DEF DecisionFits
    <3> QED BY <3>1, <3>3, <3>7, QuietDecisions
  <2> QED BY <2>1, <2>2
<1> QED BY <1>1, <1>2

\* The statements of a request before its row is written, when they go on.
LEMMA EarlyDecisions ==
  ASSUME DecisionInv, MovementInv', NEW p \in Proc,
         \/ LockWallet(p) \/ FindInbox(p) \/ ReplaySeen(p) \/ InsertInbox(p)
         \/ FindKey(p) \/ FindExternalId(p) \/ ReadWallet(p) \/ InsertTransaction(p)
         \/ ReadTransaction(p)
  PROVE  DecisionInv'
<1> USE DEF DecisionInv, MovementInv, RowInv, LedgerInv, ControlInv
<1>1. CASE \E e : Fail(p, e)
  BY <1>1, FailDecisions
<1>2. CASE ~\E e : Fail(p, e)
  <2>0. HoldsLock(p) /\ DecisionFits(p)
    BY DEF DecisionFits
  <2>a. snap[p] # None => snap[p].balance \in Had(W(p))
    BY <2>0 DEF DecisionFits
  <2>b. \A w \in Wallet : wallets[w].open =>
          /\ wallets[w].balance \in Had(w)
          /\ wallets[w] # None
    BY NullAssumption DEF DecisionTablesOK, TypeOK
  <2>c. ASSUME UNCHANGED <<db, job>>
        PROVE  W(p)' = W(p) /\ R(p)' = R(p) /\ (Guarded(p)' <=> Guarded(p))
               /\ \A b : b \in Had(W(p)) => b \in Had(W(p))'
    BY <2>c DEF W, R, Guarded, Had, db
  <2>3. CASE LockWallet(p)
    <3>1. /\ UNCHANGED <<db, job, ref, buf>> /\ pc[p] = "lockWallet" /\ job[p] # NoJob
          /\ Beside(p) /\ pc'[p] \in {"readTransaction", "findInbox", "findKey"}
      BY <2>3 DEF LockWallet, ControlOK, Goto, Beside, TypeOK
    <3>2. W(p) \in Wallet /\ job[p].id \in TxId
      BY <3>1, JobFields
    <3>3. buf[p].row = NoRow /\ buf[p].wallet = None
      BY <3>1, EarlyState
    <3>4. CASE wallets[W(p)].open
      <4>1. lock'[p] = "Update" /\ snap'[p] = wallets[W(p)]
        BY <2>3, <3>2, <3>4 DEF LockWallet, WalletLockMode, TypeOK
      <4>2. snap'[p] # None /\ snap'[p].balance \in Had(W(p))
        BY <2>b, <3>2, <3>4, <4>1
      <4>3. DecisionFits(p)'
        BY <2>c, <3>1, <3>3, <4>1, <4>2 DEF DecisionFits, HoldsLock, Creating
      <4> QED BY <3>1, <4>3, QuietDecisions
    <3>5. CASE ~wallets[W(p)].open
      <4>1. UNCHANGED <<lock, snap>>
        BY <2>3, <3>5 DEF LockWallet
      <4>2. ~Guarded(p) /\ snap[p] = None
        BY <3>2, <3>5 DEF Guarded, DecisionTablesOK, WalletsOpen, W, R
      <4>3. DecisionFits(p)'
        BY <2>c, <3>1, <3>3, <4>1, <4>2 DEF DecisionFits, HoldsLock, Creating
      <4> QED BY <3>1, <4>3, QuietDecisions
    <3> QED BY <3>4, <3>5
  <2>4. CASE FindInbox(p) \/ ReplaySeen(p) \/ InsertInbox(p) \/ FindKey(p) \/ FindExternalId(p)
    <3>1. /\ Beside(p) /\ UNCHANGED <<db, job, snap, lock>>
          /\ pc[p] \in {"findInbox", "replaySeen", "insertInbox", "findKey", "findExternalId"}
          /\ pc'[p] \in {"replaySeen", "insertInbox", "findKey", "findExternalId",
                         "readWallet", "commit"}
      BY <1>2, <2>4 DEF FindInbox, ReplaySeen, InsertInbox, FindKey, FindExternalId,
         ReplayOrConflict, Goto, Answer, Beside, TypeOK
    <3>2. buf'[p].row = buf[p].row /\ buf'[p].wallet = buf[p].wallet
      BY <1>2, <2>4 DEF FindInbox, ReplaySeen, InsertInbox, FindKey, FindExternalId,
         ReplayOrConflict, TypeOK, Buffers
    <3>3. buf[p].row = NoRow /\ buf[p].wallet = None
      BY <3>1, EarlyState
    <3>4. HoldsLock(p)'
      BY <2>0, <2>c, <3>1, <3>2, <3>3 DEF HoldsLock, AtRest
    <3>5. DecisionFits(p)'
      BY <2>a, <2>c, <3>1, <3>2, <3>3, <3>4 DEF DecisionFits, Creating
    <3> QED BY <3>1, <3>5, QuietDecisions
  <2>5. CASE ReadWallet(p)
    <3>1. /\ UNCHANGED <<db, job, ref, lock, buf>> /\ WellFormed(R(p), None)
          /\ pc[p] = "readWallet" /\ pc' = [pc EXCEPT ![p] = "insertTransaction"]
          /\ snap' = [snap EXCEPT ![p] = IF @ = None THEN wallets[W(p)] ELSE @]
          /\ wallets[W(p)].open
      BY <1>2, <2>5 DEF ReadWallet, Goto
    <3>2. job[p].op = "process" /\ W(p) \in Wallet
      BY <3>1, JobFields DEF ControlOK, HandlerLabels, NoJob
    <3>3. /\ snap'[p] # None /\ snap'[p].balance \in Had(W(p))
          /\ snap[p] = None => ~Guarded(p)
      <4>1. snap'[p] = IF snap[p] = None THEN wallets[W(p)] ELSE snap[p]
        BY <3>1 DEF TypeOK
      <4>2. snap[p] = None => ~Guarded(p)
        BY <2>0, <3>1, <3>2 DEF HoldsLock, AtRest
      <4> QED BY <2>a, <2>b, <3>1, <3>2, <4>1, <4>2
    <3>4. Beside(p) /\ pc'[p] = "insertTransaction" /\ buf'[p].row = NoRow
      BY <1>2, <2>5, <3>1, EarlyState DEF Beside, TypeOK, ReadWallet
    <3>5. HoldsLock(p)'
      BY <2>0, <2>c, <3>1, <3>3, <3>4 DEF HoldsLock
    <3>6. DecisionFits(p)'
      BY <2>c, <3>1, <3>2, <3>3, <3>4, <3>5 DEF DecisionFits, Creating
    <3> QED BY <3>1, <3>4, <3>6, QuietDecisions
  <2>6. CASE InsertTransaction(p)
    <3>1. /\ UNCHANGED <<db, job, ref, lock, snap>>
          /\ pc[p] = "insertTransaction" /\ pc' = [pc EXCEPT ![p] = "checkForeignKey"]
          /\ \A q \in Proc \ {p} : buf'[q] = buf[q]
      BY <1>2, <2>6 DEF InsertTransaction, Goto, TypeOK
    <3>2. job[p].op = "process" /\ WellFormed(R(p), None) /\ snap[p] # None
      BY <2>0, <3>1 DEF ControlOK, HandlerLabels, DecidingLabels, DecisionFits
    <3>3. Beside(p) /\ pc'[p] = "checkForeignKey"
      BY <1>2, <2>6, <3>1 DEF Beside, TypeOK, InsertTransaction
    <3>4. HoldsLock(p)'
      BY <2>0, <2>c, <3>1, <3>2, <3>3 DEF HoldsLock
    <3>5. DecisionFits(p)'
      BY <2>a, <2>c, <3>1, <3>2, <3>3, <3>4 DEF DecisionFits, Creating
    <3> QED BY <3>1, <3>3, <3>5, QuietDecisions
  <2>7. CASE ReadTransaction(p)
    <3>1. /\ Beside(p) /\ UNCHANGED <<db, job, ref, lock, snap>> /\ pc[p] = "readTransaction"
          /\ \/ pc'[p] = "findReference" /\ txs[job[p].id].status = "PENDING_REFERENCE"
             \/ pc'[p] = "commit" /\ buf' = buf
      BY <2>7 DEF ReadTransaction, StillWaiting, Goto, Beside, TypeOK
    <3>2. job[p].op = "reprocess" /\ buf[p].row = NoRow
      BY <3>1, EarlyState DEF ControlOK
    <3>3. job[p].id \in TxId /\ lock[p] = "Update" /\ snap[p] # None
      BY <3>1, <3>2, JobIds DEF RowWorkOK, SweepsWaitingRow, WalletsOpen
    <3>4. txs[job[p].id].status = "PENDING_REFERENCE" => RequiresReference(R(p).kind)
      BY <3>3 DEF R, DecisionTablesOK
    <3>5. HoldsLock(p)'
      BY <2>0, <2>c, <3>1, <3>2, <3>3 DEF HoldsLock
    <3>6. DecisionFits(p)'
      BY <2>a, <2>c, <3>1, <3>2, <3>3, <3>4, <3>5 DEF DecisionFits, Creating
    <3> QED BY <3>1, <3>6, QuietDecisions
  <2> QED BY <2>3, <2>4, <2>5, <2>6, <2>7
<1> QED BY <1>1, <1>2

-----------------------------------------------------------------------------
(* Steps that decide                                                       *)

\* The unit of work has its wallet and its row.
LEMMA ReadState ==
  ASSUME DecisionInv, NEW p \in Proc, pc[p] \in WritingLabels
  PROVE  /\ snap[p] # None /\ HoldsLock(p) /\ DecisionFits(p)
         /\ snap[p].balance \in Had(W(p))
         /\ job[p].id \in TxId /\ job[p].op \in {"process", "reprocess"}
         /\ buf[p].row # NoRow /\ ~Creating(p)
         /\ job[p].op = "process" => txs[job[p].id].status = "ABSENT"
         /\ job[p].op = "reprocess" =>
              lock[p] = "Update" /\ txs[job[p].id].status = "PENDING_REFERENCE"
         /\ job[p].op = "process" => WellFormed(R(p), None)
<1>1. snap[p] # None /\ job[p].id \in TxId /\ job[p].op \in {"process", "reprocess"}
  BY DecidingState DEF DecisionInv
<1>2. DecisionFits(p) /\ HoldsLock(p) /\ snap[p].balance \in Had(W(p))
  BY <1>1 DEF DecisionInv, DecisionFits
<1>3. buf[p].row # NoRow /\ ~Creating(p)
  BY <1>1, UndecidedRow DEF DecisionInv, MovementInv, Creating
<1>4. job[p].op = "process" => Inserting(p)
  BY UndecidedRow DEF DecisionInv, MovementInv
<1>5. job[p].op = "process" => txs[job[p].id].status = "ABSENT"
  BY <1>1, <1>4 DEF DecisionInv, MovementInv, RowInv, RowWorkOK, KeysFree,
     FindByIdempotencyKey, Committed, R
<1>6. job[p].op = "reprocess" =>
        lock[p] = "Update" /\ txs[job[p].id].status = "PENDING_REFERENCE"
  BY UndecidedRow DEF DecisionInv, MovementInv
<1>7. job[p].op = "process" => WellFormed(R(p), None)
  BY <1>2, <1>4 DEF DecisionFits, Inserting
<1> QED BY <1>1, <1>2, <1>3, <1>5, <1>6, <1>7

\* A statement that writes no table leaves a decision what it is.
LEMMA SameDecision ==
  ASSUME NEW p, NEW row, UNCHANGED <<db, job>>, snap'[p] = snap[p],
         lock'[p] = "Update" <=> lock[p] = "Update"
  PROVE  Decides(p, row)' <=> Decides(p, row)
<1>1. /\ R(p)' = R(p) /\ W(p)' = W(p) /\ job'[p] = job[p]
      /\ \A n : Observed(p, n)' = Observed(p, n)
  BY DEF R, W, Observed
<1>2. \A s : MovementOf(p, s)' = MovementOf(p, s)
  BY <1>1 DEF MovementOf
<1>3. \A s, k : Taken(s, k)' <=> Taken(s, k)
  BY SameTables DEF db
<1>4. /\ Candidates(job[p].id)' = Candidates(job[p].id)
      /\ Lonely(job[p].id)' <=> Lonely(job[p].id)
  BY <1>1, SameTables DEF db
<1>5. Observed(p, snap[p].balance)' = Observed(p, snap[p].balance)
  BY <1>1 DEF Observed
<1>6. ASSUME NEW s PROVE Breaks(p, s, row.failure)' <=> Breaks(p, s, row.failure)
  <2>1. MovementOf(p, s)' = MovementOf(p, s)
    BY <1>2
  <2>2. \A k : k = R(p).kind => (Taken(s, k)' <=> Taken(s, k))
    BY <1>3
  <2>3. Taken(s, R(p).kind)' <=> Taken(s, R(p).kind)
    BY <1>1, <2>2
  <2> QED BY <1>1, <2>1, <2>3 DEF Breaks
<1>7. MovementOf(p, row.reference)' = MovementOf(p, row.reference)
  BY <1>2
<1> QED BY <1>1, <1>4, <1>5, <1>6, <1>7 DEF Decides

\* A statement between the row and its decision.
LEMMA KeepDecisions ==
  ASSUME DecisionInv, MovementInv', NEW p \in Proc, pc[p] \in WritingLabels, Beside(p),
         UNCHANGED <<db, job, snap, buf>>,
         lock'[p] = "Update" <=> lock[p] = "Update", lock'[p] # "none",
         pc'[p] \in {"findReference", "findReversal", "apply", "saveWallet"},
         pc'[p] \in {"findReference", "findReversal"} => RequiresReference(R(p).kind),
         pc'[p] # "findReference" => ref'[p] \in Candidates(job[p].id),
         pc'[p] \in {"apply", "saveWallet"} /\ ref'[p] # None /\ lock[p] = "Update" =>
           ~Taken(ref'[p], R(p).kind)
  PROVE  DecisionInv'
<1>1. /\ R(p)' = R(p) /\ W(p)' = W(p) /\ job'[p] = job[p] /\ snap'[p] = snap[p]
      /\ buf'[p] = buf[p] /\ Had(W(p))' = Had(W(p)) /\ (Guarded(p)' <=> Guarded(p))
  BY DEF R, W, Had, db, Guarded
<1>2. /\ Candidates(job[p].id)' = Candidates(job[p].id)
      /\ \A s, k : Taken(s, k)' <=> Taken(s, k)
  BY <1>1, SameTables DEF db
<1>3. Taken(ref[p], R(p).kind)' <=> Taken(ref'[p], R(p).kind)
  BY <1>1 DEF Taken, db
<1>4. HoldsLock(p)'
  BY <1>1, ReadState DEF HoldsLock, AtRest
<1>5. Creating(p)' <=> Creating(p)
  BY <1>1 DEF Creating
<1>6. DecisionFits(p)'
  BY <1>1, <1>2, <1>3, <1>4, <1>5, ReadState DEF DecisionFits
<1> QED BY <1>6, QuietDecisions

\* A statement that decides.
LEMMA DecideDecisions ==
  ASSUME DecisionInv, MovementInv', NEW p \in Proc, pc[p] \in WritingLabels, Beside(p),
         UNCHANGED <<db, job, snap>>, pc'[p] = "commit",
         lock'[p] = "Update" <=> lock[p] = "Update", lock'[p] # "none",
         Decides(p, buf'[p].row)
  PROVE  DecisionInv'
<1>1. /\ R(p)' = R(p) /\ W(p)' = W(p) /\ job'[p] = job[p] /\ snap'[p] = snap[p]
      /\ Had(W(p))' = Had(W(p)) /\ (Guarded(p)' <=> Guarded(p))
  BY DEF R, W, Had, db, Guarded
<1>2. Decides(p, buf[p].row)'
  <2>1. \A row : Decides(p, row) => Decides(p, row)'
    BY SameDecision
  <2>2. \A row : row = buf'[p].row => Decides(p, row)'
    BY <2>1
  <2> QED BY <2>2
<1>3. HoldsLock(p)'
  BY <1>1, ReadState DEF HoldsLock, AtRest
<1>4. ~Creating(p)' /\ job[p].op # "create"
  BY <1>1, ReadState DEF Creating
<1>5. job[p].op = "process" => WellFormed(R(p), None)
  BY ReadState
<1>6. DecisionFits(p)'
  BY <1>1, <1>2, <1>3, <1>4, <1>5, ReadState DEF DecisionFits
<1> QED BY <1>6, QuietDecisions

LEMMA RejectDecisions ==
  ASSUME DecisionInv, MovementInv', NEW p \in Proc, pc[p] \in WritingLabels,
         lock[p] # "none", NEW s \in Candidates(job[p].id), NEW code,
         Breaks(p, s, code), code # NoFailure,
         Reject(p, code), UNCHANGED <<db, job, snap, ref, lock>>
  PROVE  DecisionInv'
<1> USE DEF DecisionInv, MovementInv, RowInv, LedgerInv, ControlInv
<1> DEFINE row == [RejectedRow(buf[p].row, code) EXCEPT
                     !.observed = Observed(p, snap[p].balance)]
<1>1. /\ row.status = "REJECTED" /\ row.failure = code
      /\ row.observed = Observed(p, snap[p].balance)
  <2>1. buf[p].row \in Rows
    BY DecidingState
  <2> QED BY <2>1 DEF RejectedRow, Rows
<1> HIDE DEF row
<1>2. /\ buf' = [buf EXCEPT ![p].row = row, ![p].events = {"WagerTransactionRejected"}]
      /\ pc' = [pc EXCEPT ![p] = "commit"]
      /\ Answer(p, Persisted(job[p].id, row, snap[p].balance))
  BY DEF Reject, row, Goto
<1>3. \A q \in Proc \ {p} : reply'[q] = reply[q]
  BY <1>2 DEF Answer, TypeOK
<1>4. Beside(p) /\ pc'[p] = "commit" /\ buf'[p].row = row
  BY <1>2, <1>3, DecidingState DEF Beside, TypeOK, Buffers
<1>5. Decides(p, row)
  <2>1. Breaks(p, s, row.failure) /\ row.failure # NoFailure
    BY <1>1
  <2> QED BY <1>1, <2>1 DEF Decides
<1> QED BY <1>4, <1>5, DecideDecisions

\* The foreign-key check, and the search for an earlier reversal.
LEMMA BetweenDecisions ==
  ASSUME DecisionInv, MovementInv', NEW p \in Proc, CheckForeignKey(p) \/ FindReversal(p)
  PROVE  DecisionInv'
<1> USE DEF DecisionInv, MovementInv, RowInv, LedgerInv, ControlInv
<1>1. CASE CheckForeignKey(p)
  <2>1. /\ pc[p] = "checkForeignKey" /\ UNCHANGED <<db, job, snap, buf, ref, reply>>
        /\ pc'[p] = (IF RequiresReference(R(p).kind) THEN "findReference" ELSE "apply")
        /\ Beside(p)
    BY <1>1 DEF CheckForeignKey, Goto, Beside, TypeOK
  <2>2. (lock'[p] = "Update" <=> lock[p] = "Update") /\ lock'[p] # "none"
    BY <1>1 DEF CheckForeignKey, TypeOK
  <2>3. ref[p] = None
    BY <2>1 DEF RowWorkOK, MovesForward
  <2>4. ~RequiresReference(R(p).kind) => None \in Candidates(job[p].id)
    BY DEF Candidates, R
  <2> QED BY <2>1, <2>2, <2>3, <2>4, KeepDecisions DEF WritingLabels
<1>2. CASE FindReversal(p)
  <2> DEFINE t == job[p].id
  <2>1. /\ pc[p] = "findReversal" /\ UNCHANGED <<db, job, snap, ref, lock>>
        /\ pc[p] \in WritingLabels
    BY <1>2 DEF FindReversal, WritingLabels
  <2>2. ref[p] \in Candidates(t) /\ RequiresReference(R(p).kind) /\ lock[p] # "none"
    BY <2>1, ReadState DEF DecisionFits, HoldsLock
  <2>3. ref[p] # None
    BY <2>1, <2>2 DEF MovementWorkOK, MovementFits
  <2>4. ReferenceFailure(R(p), Req(ref[p])) = NoFailure
    BY <2>3 DEF RowWorkOK, ReversalFits, PointsTo, R
  <2>5. CASE FindActiveReversalOf(ref[p], R(p).kind) \ {job[p].id} # {}
    <3>1. PICK u \in FindActiveReversalOf(ref[p], R(p).kind) : TRUE
      BY <2>5
    <3>2. u \in TxId /\ txs[u].reference = ref[p] /\ Req(u).kind = R(p).kind
      BY <3>1 DEF FindActiveReversalOf, Committed
    <3>3. txs[u].status = "PROCESSED"
      BY <2>3, <3>2 DEF RowTablesOK, ReferencesFit
    <3>4. Taken(ref[p], R(p).kind)
      BY <3>2, <3>3 DEF Taken
    <3>5. Breaks(p, ref[p], "ALREADY_REVERSED")
      BY <2>3, <2>4, <3>4 DEF Breaks
    <3>6. Reject(p, "ALREADY_REVERSED") /\ "ALREADY_REVERSED" # NoFailure
      BY <1>2, <2>5 DEF FindReversal, NoFailure
    <3> QED BY <2>1, <2>2, <3>5, <3>6, RejectDecisions
  <2>6. CASE FindActiveReversalOf(ref[p], R(p).kind) \ {job[p].id} = {}
    <3>1. /\ UNCHANGED <<buf, reply>> /\ Beside(p) /\ pc'[p] = "apply"
      BY <1>2, <2>1, <2>6 DEF FindReversal, Goto, Beside, TypeOK
    <3>2. ~Taken(ref[p], R(p).kind)
      <4> SUFFICES ASSUME NEW u \in TxId, txs[u].status = "PROCESSED",
                          txs[u].reference = ref[p], Req(u).kind = R(p).kind
                   PROVE  FALSE
        BY DEF Taken
      <4>1. u # t
        BY <2>1, ReadState
      <4>2. u \in FindActiveReversalOf(ref[p], R(p).kind)
        BY DEF FindActiveReversalOf, Committed, ActiveStatuses
      <4> QED BY <2>6, <4>1, <4>2
    <3> QED BY <2>1, <2>2, <3>1, <3>2, KeepDecisions
  <2> QED BY <2>5, <2>6
<1> QED BY <1>1, <1>2

LEMMA FindReferenceDecisions ==
  ASSUME DecisionInv, MovementInv', NEW p \in Proc, FindReference(p)
  PROVE  DecisionInv'
<1> USE DEF DecisionInv, MovementInv, RowInv, LedgerInv, ControlInv
<1> DEFINE t == job[p].id
<1>1. /\ pc[p] = "findReference" /\ pc[p] \in WritingLabels
      /\ UNCHANGED <<db, job, snap, lock>>
  BY DEF FindReference, WritingLabels
<1>2. /\ RequiresReference(Req(t).kind) /\ RequiresReference(R(p).kind)
      /\ lock[p] # "none"
  BY <1>1, ReadState DEF DecisionFits, HoldsLock, R
<1>3. Candidates(t) = UsableReference(p)
  BY <1>2 DEF Candidates, UsableReference, R
<1>4. UsableReference(p) = {} => Lonely(t)
  BY <1>2, <1>3 DEF Lonely
<1>5. buf[p] \in Buffers /\ buf[p].row \in Rows
  BY <1>1, DecidingState
<1>6. CASE UsableReference(p) = {} /\ ParkReversal(p) /\ Goto(p, "commit") /\ UNCHANGED ref
  <2> DEFINE row == [buf[p].row EXCEPT !.status = "PENDING_REFERENCE"]
  <2>1. row.status = "PENDING_REFERENCE"
    BY <1>5 DEF Rows
  <2> HIDE DEF row
  <2>2. /\ buf' = [buf EXCEPT ![p].row = row,
                              ![p].events = {"WagerTransactionPendingReference"}]
        /\ pc' = [pc EXCEPT ![p] = "commit"]
        /\ Answer(p, Persisted(job[p].id, row, NoBalance))
    BY <1>6 DEF ParkReversal, row, Goto
  <2>3. \A q \in Proc \ {p} : reply'[q] = reply[q]
    BY <2>2 DEF Answer, TypeOK
  <2>4. Beside(p) /\ pc'[p] = "commit" /\ buf'[p].row = row
    BY <1>1, <1>5, <1>6, <2>2, <2>3 DEF Beside, TypeOK, Buffers
  <2>5. Decides(p, row)
    BY <1>2, <1>4, <1>6, <2>1 DEF Decides
  <2> QED BY <1>1, <1>2, <2>4, <2>5, DecideDecisions
<1>7. CASE UsableReference(p) = {} /\ RetryReversal(p) /\ Goto(p, "commit") /\ UNCHANGED ref
  <2> DEFINE row == CountAttempt(buf[p].row)
             rejected == RejectedRow(row, "REFERENCE_NOT_FOUND")
  <2>1. /\ row.status = buf[p].row.status
        /\ rejected.status = "REJECTED" /\ rejected.failure = "REFERENCE_NOT_FOUND"
        /\ rejected.observed = NoBalance
    BY <1>1, <1>5, DecidingState DEF CountAttempt, RejectedRow, Rows
  <2>2. /\ \/ buf' = [buf EXCEPT ![p].row = rejected,
                                 ![p].events = {"WagerTransactionRejected"}]
           \/ buf' = [buf EXCEPT ![p].row = row]
        /\ pc' = [pc EXCEPT ![p] = "commit"] /\ job[p].op = "reprocess"
        /\ UNCHANGED reply
    BY <1>7 DEF RetryReversal, Goto
  <2>3. row.status = "PENDING_REFERENCE"
    BY <1>1, <2>1, <2>2, DecidingState
  <2> HIDE DEF row, rejected
  <2>4. Beside(p) /\ pc'[p] = "commit" /\ buf'[p].row \in {row, rejected}
    BY <1>1, <1>5, <1>7, <2>2 DEF Beside, TypeOK, Buffers
  <2>5. Decides(p, row) /\ Decides(p, rejected)
    BY <1>2, <1>4, <1>7, <2>1, <2>2, <2>3 DEF Decides
  <2> QED BY <1>1, <1>2, <2>4, <2>5, DecideDecisions
<1>8. ASSUME NEW s \in UsableReference(p), UNCHANGED ref,
             ReferenceFailure(R(p), Req(s)) # NoFailure,
             Reject(p, ReferenceFailure(R(p), Req(s)))
      PROVE  DecisionInv'
  <2>1. s # None
    BY WalletAssumption DEF UsableReference, FindByProviderAndExternalId, Committed
  <2>2. Breaks(p, s, ReferenceFailure(R(p), Req(s)))
    BY <2>1 DEF Breaks
  <2> QED BY <1>1, <1>2, <1>3, <1>8, <2>2, RejectDecisions
<1>9. ASSUME NEW s \in UsableReference(p), ref' = [ref EXCEPT ![p] = s],
              Goto(p, "findReversal"), UNCHANGED <<buf, reply>>
       PROVE  DecisionInv'
  <2>1. Beside(p) /\ pc'[p] = "findReversal" /\ ref'[p] = s
    BY <1>1, <1>9 DEF Beside, TypeOK, Goto
  <2> QED BY <1>1, <1>2, <1>3, <1>9, <2>1, KeepDecisions
<1> QED BY <1>6, <1>7, <1>8, <1>9 DEF FindReference

LEMMA ApplyDecisions ==
  ASSUME DecisionInv, MovementInv', NEW p \in Proc, Apply(p)
  PROVE  DecisionInv'
<1> USE DEF DecisionInv, MovementInv, RowInv, LedgerInv, ControlInv
<1> DEFINE t == job[p].id
           row == ProcessedRow(buf[p].row, ref[p], Observed(p, snap[p].balance))
           failure == MovementFailure(R(p), Direction(p), snap[p].balance,
                                      WalletInfo[W(p)].currency)
<1>1. /\ pc[p] = "apply" /\ pc[p] \in WritingLabels
      /\ UNCHANGED <<db, job, snap, ref, lock>>
  BY DEF Apply, WritingLabels
<1>2. /\ ref[p] \in Candidates(t) /\ lock[p] # "none"
      /\ ref[p] # None => /\ lock[p] = "Update" => ~Taken(ref[p], R(p).kind)
                          /\ ReferenceFailure(R(p), Req(ref[p])) = NoFailure
  BY <1>1, ReadState DEF DecisionFits, HoldsLock, RowWorkOK, ReversalFits, PointsTo, R
<1>3. failure = MovementOf(p, ref[p])
  BY DEF MovementOf, Direction, KindOf
<1> HIDE DEF failure
<1>4. CASE AffectsBalance(R(p).kind) /\ failure # NoFailure /\ Reject(p, failure)
  <2>1. Breaks(p, ref[p], failure)
    BY <1>2, <1>3, <1>4 DEF Breaks
  <2> QED BY <1>1, <1>2, <1>4, <2>1, RejectDecisions
<1>5. CASE AffectsBalance(R(p).kind) /\ Goto(p, "saveWallet") /\ UNCHANGED <<buf, reply>>
  <2>1. Beside(p) /\ pc'[p] = "saveWallet"
    BY <1>1, <1>5 DEF Beside, TypeOK, Goto
  <2> QED BY <1>1, <1>2, <1>5, <2>1, KeepDecisions
<1>6. CASE /\ ~AffectsBalance(R(p).kind)
           /\ buf' = [buf EXCEPT ![p].row = row,
                                 ![p].events = {"WagerTransactionProcessed"}]
           /\ Answer(p, Persisted(job[p].id, row, snap[p].balance))
           /\ Goto(p, "commit")
  <2>1. /\ row.status = "PROCESSED" /\ row.failure = NoFailure
        /\ row.observed = Observed(p, snap[p].balance)
    <3>1. buf[p].row \in Rows
      BY <1>1, DecidingState
    <3> QED BY <3>1 DEF ProcessedRow, Rows
  <2> HIDE DEF row
  <2>2. /\ \A q \in Proc \ {p} : reply'[q] = reply[q]
        /\ pc' = [pc EXCEPT ![p] = "commit"]
    BY <1>6 DEF Answer, TypeOK, Goto
  <2>3. Beside(p) /\ pc'[p] = "commit" /\ buf'[p].row = row
    BY <1>1, <1>6, <2>2, DecidingState DEF Beside, TypeOK, Buffers
  <2>4. Decides(p, row)
    BY <1>6, <2>1 DEF Decides
  <2> QED BY <1>1, <1>2, <2>3, <2>4, DecideDecisions
<1> QED BY <1>4, <1>5, <1>6 DEF Apply, failure

LEMMA SaveWalletDecisions ==
  ASSUME DecisionInv, MovementInv', NEW p \in Proc, SaveWallet(p)
  PROVE  DecisionInv'
<1> USE DEF DecisionInv, MovementInv, RowInv, LedgerInv, ControlInv
<1> DEFINE t == job[p].id
           entry == Entry(t, Direction(p), snap[p].balance)
           row == ProcessedRow(buf[p].row, ref[p], entry.after)
           wallet == [open |-> TRUE, balance |-> entry.after,
                      version |-> snap[p].version + 1]
           events == {"WagerTransactionProcessed", "WalletBalanceChanged"}
<1>1. CASE \E e : Fail(p, e)
  BY <1>1, FailDecisions
<1>2. CASE ~\E e : Fail(p, e)
  <2>1. /\ pc[p] = "saveWallet" /\ pc[p] \in WritingLabels
        /\ buf' = [buf EXCEPT ![p].row = row, ![p].wallet = wallet, ![p].entry = entry,
                              ![p].events = events]
        /\ lock' = [lock EXCEPT ![p] = IF @ = "Update" THEN @ ELSE "NoKeyUpdate"]
        /\ UNCHANGED <<db, job, snap, ref>>
        /\ Answer(p, Persisted(job[p].id, row, entry.after))
        /\ pc' = [pc EXCEPT ![p] = "commit"]
    BY <1>2 DEF SaveWallet, Goto, WritingLabels
  <2>2. row.status = "PROCESSED" /\ row.failure = NoFailure /\ row.reference = ref[p]
    <3> HIDE DEF entry
    <3> QED BY <2>1, DecidingState DEF ProcessedRow, Rows
  <2>3. ref[p] \in Candidates(t) /\ AffectsBalance(R(p).kind)
    BY <2>1 DEF DecisionFits, MovementWorkOK, MovementFits
  <2>4. MovementOf(p, ref[p]) = NoFailure
    BY <2>1 DEF ControlOK, MovementOf, Direction, KindOf
  <2> HIDE DEF entry, row, wallet, events
  <2>5. Decides(p, row)
    BY <2>2, <2>3, <2>4 DEF Decides
  <2>6. /\ lock'[p] = "Update" <=> lock[p] = "Update"
        /\ lock'[p] # "none"
        /\ \A q \in Proc \ {p} : reply'[q] = reply[q] /\ lock'[q] = lock[q]
    BY <2>1 DEF Answer, TypeOK
  <2>7. Beside(p) /\ pc'[p] = "commit" /\ buf'[p].row = row
    BY <2>1, <2>6, DecidingState DEF Beside, TypeOK, Buffers
  <2> QED BY <2>1, <2>5, <2>6, <2>7, DecideDecisions
<1> QED BY <1>1, <1>2

-----------------------------------------------------------------------------
(* COMMIT                                                                  *)

\* A request or a sweep commits a row, a wallet or an entry only after it has
\* locked the wallet's row, at the latest by its UPDATE.
LEMMA CommitHolds ==
  ASSUME DecisionInv, NEW p \in Proc, Commit(p), job[p].op # "create"
  PROVE  /\ job[p].op \in {"process", "reprocess"}
         /\ buf[p].row # NoRow =>
              /\ snap[p] # None /\ lock[p] # "none"
              /\ Decides(p, buf[p].row)
              /\ buf[p].row.status \in {"PENDING_REFERENCE", "PROCESSED", "REJECTED"}
         /\ buf[p].wallet # None =>
              /\ buf[p].entry # None /\ lock[p] \in {"NoKeyUpdate", "Update"}
              /\ buf[p].entry.before = snap[p].balance
              /\ buf[p].entry.after =
                   buf[p].entry.before
                     + SignedAmount(buf[p].entry.direction, buf[p].entry.amount)
              /\ buf[p].wallet.balance = buf[p].entry.after /\ buf[p].wallet.open
         /\ buf[p].entry # None => buf[p].wallet # None /\ buf[p].row # NoRow
<1> USE DEF DecisionInv, MovementInv, RowInv, LedgerInv, ControlInv
<1>1. pc[p] = "commit" /\ W(p) \in Wallet /\ job[p].op \in {"process", "reprocess"}
  BY CommitEffect, JobIds
<1>2. buf[p].row # NoRow =>
        /\ snap[p] # None /\ lock[p] # "none"
        /\ Decides(p, buf[p].row)
        /\ buf[p].row.status \in {"PENDING_REFERENCE", "PROCESSED", "REJECTED"}
  BY <1>1, OldRow DEF WalletsOpen, DecisionFits, HoldsLock
<1>3. buf[p].wallet # None =>
        /\ buf[p].entry # None /\ lock[p] \in {"NoKeyUpdate", "Update"}
        /\ buf[p].entry.before = snap[p].balance
        /\ buf[p].entry.after =
             buf[p].entry.before
               + SignedAmount(buf[p].entry.direction, buf[p].entry.amount)
        /\ buf[p].wallet.balance = buf[p].entry.after /\ buf[p].wallet.open
  BY DEF LedgerCore, WritesContinueWallet, WalletsOpen
<1>4. buf[p].entry # None => buf[p].wallet # None /\ buf[p].row # NoRow
  BY <1>1 DEF WalletsOpen, MovementWorkOK, MovementFits
<1> QED BY <1>1, <1>2, <1>3, <1>4

\* The creation of a wallet commits what CreateWallet writes, for a wallet
\* that was not there.
LEMMA CommitCreates ==
  ASSUME DecisionInv, NEW p \in Proc, Commit(p), job[p].op = "create", buf[p].wallet # None
  PROVE  /\ Creating(p) /\ job[p].id = W(p) /\ W(p) \in Wallet /\ ~wallets[W(p)].open
         /\ buf[p].row = OpeningRow(W(p)) /\ buf[p].wallet = OpenedWallet(W(p))
         /\ buf[p].entry = OpeningEntry(W(p))
         /\ txs[W(p)] = NoRow /\ ledger[W(p)] = <<>>
<1> USE DEF DecisionInv, MovementInv, RowInv, LedgerInv, ControlInv
<1>1. Creating(p) /\ job[p].id = W(p) /\ W(p) \in Wallet /\ ~wallets[W(p)].open
  BY CommitEffect, JobIds DEF Creating, LedgerCore, CreatedOnce
<1>2. /\ buf[p].row = OpeningRow(W(p)) /\ buf[p].wallet = OpenedWallet(W(p))
      /\ buf[p].entry = OpeningEntry(W(p))
  BY <1>1 DEF DecisionFits, LedgerCore, WritesContinueWallet
<1>3. W(p) \in TxId /\ Req(W(p)).wallet = W(p)
  BY <1>1, RequestFields DEF TxId
<1>4. txs[W(p)] = NoRow
  BY <1>1, <1>3 DEF WalletsOpen, DecisionTablesOK, Committed
<1>5. ledger[W(p)] = <<>>
  BY <1>1 DEF LedgerCore, LedgerExplainsWallet
<1> QED BY <1>1, <1>2, <1>4, <1>5

\* COMMIT adds to what the tables say, and to nothing that q has locked.
LEMMA CommitBeside ==
  ASSUME DecisionInv, NEW p \in Proc, Commit(p), NEW q \in Proc, q # p
  PROVE  Kept(q)
<1> USE DEF DecisionInv, MovementInv, RowInv, LedgerInv, ControlInv
<1> DEFINE u == job[p].id
<1>1. /\ job'[q] = job[q] /\ snap'[q] = snap[q] /\ lock'[q] = lock[q]
      /\ buf'[q] = buf[q] /\ ref'[q] = ref[q] /\ pc'[q] = pc[q]
  BY CommitEffect DEF Beside
<1>2. u \in TxId /\ Req(u).wallet = W(p) /\ pc[p] = "commit"
  BY CommitEffect DEF W, R
<1>3. \A s \in TxId : txs[s].status = "PROCESSED" => txs'[s] = txs[s]
  BY CommitEntry
<1>4. \A s \in TxId : txs'[s] = txs[s] \/ (s = u /\ buf[p].row # NoRow)
  BY CommitEffect
<1>5. \A w \in Wallet : Had(w) \subseteq Had(w)'
  <2> SUFFICES ASSUME NEW w \in Wallet PROVE Had(w) \subseteq Had(w)'
    OBVIOUS
  <2>1. \A i \in 1..Len(ledger[w]) :
          i \in 1..Len(ledger'[w]) /\ ledger'[w][i] = ledger[w][i]
    BY CommitEntry
  <2> QED BY <2>1 DEF Had
<1>6. \A t \in TxId : Candidates(t) \subseteq Candidates(t)'
  BY <1>3 DEF Candidates, FindByProviderAndExternalId, Committed
<1>7. \A s, k : Taken(s, k) => Taken(s, k)'
  BY <1>3 DEF Taken
<1>8. ASSUME lock[q] = "Update", buf[p].row # NoRow PROVE W(p) # W(q)
  <2>1. CASE job[p].op # "create"
    BY <1>8, <2>1, CommitHolds DEF LedgerCore, LockExclusion, Conflict
  <2>2. CASE job[p].op = "create"
    <3>1. ~wallets[W(p)].open
      BY <1>8, <2>2, CommitCreates DEF WalletsOpen
    <3>2. wallets[W(q)].open
      BY <1>8 DEF WalletsOpen
    <3> QED BY <3>1, <3>2
  <2> QED BY <2>1, <2>2
<1>9. ASSUME lock[q] = "Update", NEW s, NEW k, s # None, Req(s).wallet = W(q), Taken(s, k)'
      PROVE  Taken(s, k)
  <2>1. PICK v \in TxId : /\ txs'[v].status = "PROCESSED" /\ txs'[v].reference = s
                          /\ Req(v).kind = k
    BY <1>9 DEF Taken
  <2>2. txs'[v] = txs[v]
    <3> SUFFICES ASSUME v = u, buf[p].row # NoRow PROVE FALSE
      BY <1>4
    <3>1. buf[p].row.reference = s
      BY <2>1, CommitEffect
    <3>2. PointsTo(u, s)
      BY <1>9, <3>1 DEF RowWorkOK, ReversalFits
    <3>3. Req(s).wallet = Req(u).wallet
      BY <3>2, ReferenceRules DEF PointsTo
    <3> QED BY <1>2, <1>8, <1>9, <3>3
  <2> QED BY <2>1, <2>2 DEF Taken
<1>10. ASSUME lock[q] = "Update", NEW t \in TxId, Req(t).wallet = W(q), Lonely(t)
       PROVE  Lonely(t)'
  <2> SUFFICES ASSUME NEW s \in Candidates(t)', Req(s).wallet = Req(t).wallet PROVE FALSE
    BY <1>10 DEF Lonely
  <2>1. s \notin Candidates(t) /\ RequiresReference(Req(t).kind)
    BY <1>10 DEF Lonely
  <2>2. s \in TxId /\ txs'[s] # txs[s]
    BY <2>1 DEF Candidates, FindByProviderAndExternalId, Committed
  <2>3. s = u /\ buf[p].row # NoRow
    BY <1>4, <2>2
  <2> QED BY <1>2, <1>8, <1>10, <2>3
<1> QED BY <1>1, <1>5, <1>6, <1>7, <1>9, <1>10 DEF Kept

LEMMA CommitDecisions ==
  ASSUME DecisionInv, MovementInv', NEW p \in Proc, Commit(p)
  PROVE  DecisionInv'
<1> USE DEF DecisionInv, MovementInv, RowInv, LedgerInv, ControlInv
<1>1. \A w \in OpenAtStart : wallets'[w].open
  <2>1. \A w \in OpenAtStart : w \in Wallet /\ wallets[w].open
    BY WalletAssumption DEF DecisionTablesOK
  <2> QED BY <2>1, CommitEffect DEF WalletsOpen
<1>2. ASSUME NEW w \in Wallet, wallets'[w].open PROVE wallets'[w].balance \in Had(w)'
  <2>1. CASE wallets'[w] = wallets[w]
    <3>1. wallets[w].balance \in Had(w)
      BY <1>2, <2>1 DEF DecisionTablesOK
    <3>2. \A i \in 1..Len(ledger[w]) :
            i \in 1..Len(ledger'[w]) /\ ledger'[w][i] = ledger[w][i]
      BY CommitEntry
    <3> QED BY <2>1, <3>1, <3>2 DEF Had
  <2>2. CASE w = W(p) /\ buf[p].wallet # None /\ job[p].op = "create"
    <3>1. wallets'[w] = OpenedWallet(w)
      BY <2>2, CommitCreates, CommitEffect
    <3>2. wallets'[w].balance = WalletInfo[w].opening
      BY <3>1 DEF OpenedWallet
    <3> QED BY <3>2 DEF Had
  <2>3. CASE w = W(p) /\ buf[p].wallet # None /\ job[p].op # "create"
    <3>1. buf[p].entry # None /\ wallets'[w].balance = buf[p].entry.after
      BY <2>3, CommitHolds, CommitEffect
    <3>2. \E i \in 1..Len(ledger'[w]) : ledger'[w][i] = buf[p].entry
      BY <2>3, <3>1, CommitEntry
    <3> QED BY <3>1, <3>2 DEF Had
  <2> QED BY <2>1, <2>2, <2>3, CommitEffect
<1>3. \A t \in TxId : txs'[t].status = "ABSENT" => txs'[t] = NoRow
  BY CommitEffect DEF DecisionTablesOK, WalletsOpen
<1>4. ASSUME NEW t \in TxId, txs'[t].status = "PENDING_REFERENCE"
      PROVE  RequiresReference(Req(t).kind)
  <2>1. CASE txs'[t] = txs[t]
    BY <1>4, <2>1 DEF DecisionTablesOK
  <2>2. CASE t = job[p].id /\ buf[p].row # NoRow
    <3>1. buf[p].row.status = "PENDING_REFERENCE"
      BY <1>4, <2>2, CommitEffect
    <3>2. job[p].op # "create"
      <4> SUFFICES ASSUME job[p].op = "create" PROVE FALSE
        OBVIOUS
      <4>1. buf[p].wallet # None
        BY <2>2 DEF WalletsOpen
      <4>2. buf[p].row = OpeningRow(W(p))
        BY <4>1, CommitCreates
      <4>3. OpeningRow(W(p)).status # "PENDING_REFERENCE"
        BY DEF OpeningRow, ProcessedRow, PendingRow, NoRow
      <4> QED BY <3>1, <4>2, <4>3
    <3>3. Decides(p, buf[p].row)
      BY <2>2, <3>2, CommitHolds
    <3> QED BY <2>2, <3>1, <3>3 DEF Decides, R
  <2> QED BY <2>1, <2>2, CommitEffect
<1>5. DecisionFits(p)'
  <2>1. snap'[p] = None /\ buf'[p] = NoWrites /\ pc'[p] = "done"
    BY CommitEffect DEF Commit, EndTransaction, TypeOK
  <2> QED BY <2>1 DEF DecisionFits, HoldsLock, AtRest, NoWrites, Creating
<1>6. ASSUME NEW q \in Proc, q # p PROVE DecisionFits(q)'
  BY <1>6, CommitBeside, OthersDecide
<1> QED BY <1>1, <1>2, <1>3, <1>4, <1>5, <1>6 DEF DecisionTablesOK

\* DecisionInv is inductive.
LEMMA DecisionStep == DecisionInv /\ [Next]_vars => DecisionInv'
<1> SUFFICES ASSUME DecisionInv, [Next]_vars PROVE DecisionInv'
  OBVIOUS
<1>1. MovementInv'
  BY MovementStep DEF DecisionInv
<1>2. CASE UNCHANGED vars
  <2>1. ASSUME NEW p \in Proc PROVE DecisionFits(p)'
    <3>1. Kept(p)
      BY <1>2, SameTables DEF vars, Kept
    <3> QED BY <3>1, OthersDecide
  <2>2. DecisionTablesOK'
    BY <1>2, SameTables DEF DecisionInv, DecisionTablesOK, vars
  <2> QED BY <1>1, <2>1, <2>2 DEF DecisionInv
<1>3. CASE \/ \E h \in Handler : \/ \E c \in Cmd : Submit(h, c)
                                 \/ \E w \in Wallet : CreateWallet(h, w)
           \/ \E k \in Worker : ListDue(k) \/ ReprocessNext(k)
  BY <1>1, <1>3, AroundDecisions
<1>4. ASSUME NEW p \in Proc, Crash(p) PROVE DecisionInv'
  BY <1>1, <1>4, AroundDecisions
<1>5. ASSUME NEW p \in Proc, Step(p) PROVE DecisionInv'
  <2>1. CASE Return(p) \/ DeadlockVictim(p)
    BY <1>1, <2>1, AroundDecisions, FailDecisions DEF DeadlockVictim
  <2>2. CASE ~(Return(p) \/ DeadlockVictim(p))
    BY <1>1, <1>5, <2>2, CreateDecisions, EarlyDecisions, BetweenDecisions,
       FindReferenceDecisions, ApplyDecisions, SaveWalletDecisions, CommitDecisions
       DEF Step
  <2> QED BY <2>1, <2>2
<1> QED BY <1>2, <1>3, <1>4, <1>5 DEF Next

\* What units of work have found is so in every reachable state.
LEMMA DecisionsCorrect == Spec => []DecisionInv
<1>1. Init => DecisionInv
  BY InitDecisions
<1>2. DecisionInv /\ [Next]_vars => DecisionInv'
  BY DecisionStep
<1> QED BY <1>1, <1>2, PTL DEF Spec
-----------------------------------------------------------------------------
(* What the client sees                                                    *)

\* The service speaks of the same requests, by the same rules.
LEMMA SameRules ==
  /\ Service!NoFailure = NoFailure
  /\ Service!NoBalance = NoBalance
  /\ \A kind : Service!RequiresReference(kind) = RequiresReference(kind)
  /\ \A kind : Service!AffectsBalance(kind) = AffectsBalance(kind)
  /\ \A r, none : Service!WellFormed(r, none) = WellFormed(r, none)
  /\ \A r, s : Service!ReferenceFailure(r, s) = ReferenceFailure(r, s)
  /\ \A kind, k : Service!LedgerDirection(kind, k) = LedgerDirection(kind, k)
  /\ \A d, n : Service!SignedAmount(d, n) = SignedAmount(d, n)
  /\ \A r, d, b, c : Service!MovementFailure(r, d, b, c) = MovementFailure(r, d, b, c)
<1>1. Service!NoFailure = NoFailure /\ Service!NoBalance = NoBalance
  BY DEF Service!NoFailure, NoFailure, Service!NoBalance, NoBalance
<1>2. \A kind : Service!RequiresReference(kind) = RequiresReference(kind)
  BY DEF Service!RequiresReference, RequiresReference, Service!ReversalKinds, ReversalKinds
<1>3. \A kind : Service!AffectsBalance(kind) = AffectsBalance(kind)
  BY DEF Service!AffectsBalance, AffectsBalance
<1>4. \A r, none : Service!WellFormed(r, none) = WellFormed(r, none)
  BY <1>2 DEF Service!WellFormed, WellFormed
<1>5. \A kind, k : Service!KindAccepted(kind, k) = KindAccepted(kind, k)
  BY DEF Service!KindAccepted, KindAccepted
<1>6. \A r, s : Service!AttributesMatch(r, s) = AttributesMatch(r, s)
  BY DEF Service!AttributesMatch, AttributesMatch
<1>7. \A r, s : Service!ReferenceFailure(r, s) = ReferenceFailure(r, s)
  BY <1>1, <1>5, <1>6 DEF Service!ReferenceFailure, ReferenceFailure
<1>8. \A kind, k : Service!LedgerDirection(kind, k) = LedgerDirection(kind, k)
  BY DEF Service!LedgerDirection, LedgerDirection
<1>9. \A d, n : Service!SignedAmount(d, n) = SignedAmount(d, n)
  BY DEF Service!SignedAmount, SignedAmount
<1>10. \A r, d, b, c : Service!MovementFailure(r, d, b, c) = MovementFailure(r, d, b, c)
  BY <1>1, <1>2, <1>9 DEF Service!MovementFailure, MovementFailure
<1> QED BY <1>1, <1>2, <1>3, <1>4, <1>7, <1>8, <1>9, <1>10

LEMMA SameData ==
  /\ Service!TxId = TxId
  /\ \A t : Service!Req(t) = Req(t)
  /\ \A w : Service!HasOpeningBalance(w) = HasOpeningBalance(w)
  /\ \A v, w : Service!SamePurse(v, w) = SamePurse(v, w)
  /\ \A t, d, b : Service!Entry(t, d, b) = Entry(t, d, b)
  /\ \A w : Service!Had(w) = Had(w)
<1>1. Service!TxId = TxId
  BY DEF Service!TxId, TxId
<1>2. \A w : Service!OpeningRequest(w) = OpeningRequest(w)
  BY DEF Service!OpeningRequest, OpeningRequest
<1>3. \A t : Service!Req(t) = Req(t)
  BY <1>2 DEF Service!Req, Req
<1>4. \A w : Service!HasOpeningBalance(w) = HasOpeningBalance(w)
  BY DEF Service!HasOpeningBalance, HasOpeningBalance
<1>5. \A v, w : Service!SamePurse(v, w) = SamePurse(v, w)
  BY DEF Service!SamePurse, SamePurse
<1>6. \A t, d, b : Service!Entry(t, d, b) = Entry(t, d, b)
  BY <1>3, SameRules DEF Service!Entry, Entry
<1>7. \A w : Service!Had(w) = Had(w)
  BY DEF Service!Had, Had
<1> QED BY <1>1, <1>3, <1>4, <1>5, <1>6, <1>7

\* The client's view of the tables.
LEMMA ServiceView ==
  ASSUME DecisionInv
  PROVE  /\ \A t \in TxId : /\ ServiceOutcome[t].status = txs[t].status
                            /\ ServiceOutcome[t].reference = txs[t].reference
         /\ \A w \in Wallet : wallets[w].open => ServiceBalance[w] = wallets[w].balance
         /\ \A w \in Wallet : Service!IsOpen(w) <=> wallets[w].open
         /\ Service!Accepted = Committed
<1> USE DEF DecisionInv, MovementInv, RowInv, LedgerInv, ControlInv
<1>1. \A t \in TxId : /\ ServiceOutcome[t].status = txs[t].status
                      /\ ServiceOutcome[t].reference = txs[t].reference
  BY DEF ServiceOutcome
<1>2. \A w \in Wallet : ServiceBalance[w] = IF wallets[w].open THEN wallets[w].balance
                                                               ELSE NoBalance
  BY DEF ServiceBalance
<1>3. \A w \in Wallet : Service!IsOpen(w) <=> wallets[w].open
  <2>1. \A w \in Wallet : wallets[w].balance # NoBalance
    BY DEF TypeOK, WalletRows, NoBalance
  <2> QED BY <1>2, <2>1, SameRules DEF Service!IsOpen
<1>4. Service!Accepted = Committed
  BY <1>1, SameData DEF Service!Accepted, Committed
<1> QED BY <1>1, <1>2, <1>3, <1>4

\* The service decides by what the statements of the unit of work look for.
LEMMA ServiceDecides ==
  ASSUME DecisionInv, NEW t \in TxId
  PROVE  /\ Service!References(t) = Candidates(t)
         /\ \A s : Service!Way(t, s) = LedgerDirection(Req(t).kind, KindOf(s))
         /\ \A s, k : Service!Reversed(s, k) = Taken(s, k)
         /\ Service!Unreferenced(t) <=> Lonely(t)
         /\ Service!Early(t) <=> Req(t).wallet \notin OpenAtStart /\ txs[t].status = "ABSENT"
<1>1. Service!References(t) = Candidates(t)
  <2>1. FindByProviderAndExternalId(Req(t).ref) = {s \in Committed : Req(s).ext = Req(t).ref}
    BY DEF FindByProviderAndExternalId
  <2>2. \A s \in TxId : txs[s].status = "PROCESSED" => s \in Committed
    BY DEF Committed
  <2>3. \A s : s \in Candidates(t) <=>
          IF RequiresReference(Req(t).kind)
          THEN s \in TxId /\ txs[s].status = "PROCESSED" /\ Req(s).ext = Req(t).ref
          ELSE s = None
    BY <2>1, <2>2 DEF Candidates, Committed
  <2>4. \A s : s \in Service!References(t) <=>
          IF RequiresReference(Req(t).kind)
          THEN s \in TxId /\ txs[s].status = "PROCESSED" /\ Req(s).ext = Req(t).ref
          ELSE s = None
    BY ServiceView, SameData, SameRules DEF Service!References
  <2> QED BY <2>3, <2>4
<1>2. \A s : Service!Way(t, s) = LedgerDirection(Req(t).kind, KindOf(s))
  BY SameData, SameRules DEF Service!Way, KindOf
<1>3. \A s, k : Service!Reversed(s, k) = Taken(s, k)
  BY ServiceView, SameData DEF Service!Reversed, Taken
<1>4. Service!Unreferenced(t) <=> Lonely(t)
  BY <1>1, SameData, SameRules DEF Service!Unreferenced, Lonely
<1>5. Service!Early(t) <=> Req(t).wallet \notin OpenAtStart /\ txs[t].status = "ABSENT"
  BY ServiceView, SameData DEF Service!Early
<1> QED BY <1>1, <1>2, <1>3, <1>4, <1>5
-----------------------------------------------------------------------------
(* COMMIT is an operation of the service                                   *)

\* The outcome a row shows.
OutcomeOf(row) ==
  [status |-> row.status, failure |-> row.failure,
   reference |-> row.reference, observed |-> row.observed]

\* What the client sees of a COMMIT.
LEMMA CommitShows ==
  ASSUME DecisionInv, NEW p \in Proc, Commit(p)
  PROVE  /\ ServiceOutcome' = IF buf[p].row # NoRow
                              THEN [ServiceOutcome EXCEPT ![job[p].id] = OutcomeOf(buf[p].row)]
                              ELSE ServiceOutcome
         /\ ServiceBalance' = IF buf[p].wallet # None
                              THEN [ServiceBalance EXCEPT ![W(p)] = buf[p].wallet.balance]
                              ELSE ServiceBalance
         /\ ledger' = IF buf[p].entry # None
                      THEN [ledger EXCEPT ![W(p)] = Append(@, buf[p].entry)] ELSE ledger
<1> USE DEF DecisionInv, MovementInv, RowInv, LedgerInv, ControlInv
<1>1. job[p].id \in TxId /\ W(p) \in Wallet
  BY CommitEffect
<1>2. /\ buf[p].row # NoRow => txs' = [txs EXCEPT ![job[p].id] = buf[p].row]
      /\ buf[p].row = NoRow => txs' = txs
      /\ buf[p].wallet # None => wallets' = [wallets EXCEPT ![W(p)] = buf[p].wallet]
      /\ buf[p].wallet = None => wallets' = wallets
      /\ ledger' = IF buf[p].entry # None
                   THEN [ledger EXCEPT ![W(p)] = Append(@, buf[p].entry)] ELSE ledger
  BY DEF Commit
<1>3. ASSUME buf[p].row # NoRow
      PROVE  ServiceOutcome' = [ServiceOutcome EXCEPT ![job[p].id] = OutcomeOf(buf[p].row)]
  <2>1. /\ ServiceOutcome' = [t \in TxId |-> OutcomeOf(txs'[t])]
        /\ ServiceOutcome = [t \in TxId |-> OutcomeOf(txs[t])]
    BY DEF ServiceOutcome, OutcomeOf
  <2>2. /\ txs'[job[p].id] = buf[p].row
        /\ \A t \in TxId : t # job[p].id => txs'[t] = txs[t]
    BY <1>3, CommitEffect
  <2> HIDE DEF OutcomeOf
  <2> QED BY <1>1, <2>1, <2>2
<1>4. ASSUME buf[p].wallet # None
      PROVE  ServiceBalance' = [ServiceBalance EXCEPT ![W(p)] = buf[p].wallet.balance]
  <2> DEFINE balance(row) == IF row.open THEN row.balance ELSE NoBalance
  <2>1. /\ ServiceBalance' = [w \in Wallet |-> balance(wallets'[w])]
        /\ ServiceBalance = [w \in Wallet |-> balance(wallets[w])]
    BY DEF ServiceBalance
  <2>2. /\ wallets'[W(p)] = buf[p].wallet
        /\ \A v \in Wallet : v # W(p) => wallets'[v] = wallets[v]
    BY <1>4, CommitEffect
  <2>3. balance(buf[p].wallet) = buf[p].wallet.balance
    BY <1>4 DEF WalletsOpen
  <2> HIDE DEF balance
  <2> QED BY <1>1, <2>1, <2>2, <2>3
<1>5. buf[p].row = NoRow => ServiceOutcome' = ServiceOutcome
  BY <1>2 DEF ServiceOutcome
<1>6. buf[p].wallet = None => ServiceBalance' = ServiceBalance
  BY <1>2 DEF ServiceBalance
<1> QED BY <1>2, <1>3, <1>4, <1>5, <1>6

\* The creation of a wallet opens it.
LEMMA CommitOpensWallet ==
  ASSUME DecisionInv, NEW p \in Proc, Commit(p), job[p].op = "create", buf[p].wallet # None
  PROVE  Service!Open(W(p))
<1> USE DEF DecisionInv, MovementInv, RowInv, LedgerInv, ControlInv
<1> DEFINE w == W(p)
<1>1. /\ Creating(p) /\ job[p].id = w /\ w \in Wallet /\ w \in TxId /\ ~wallets[w].open
      /\ buf[p].row = OpeningRow(w) /\ buf[p].wallet = OpenedWallet(w)
      /\ buf[p].entry = OpeningEntry(w) /\ txs[w] = NoRow /\ ledger[w] = <<>>
  BY CommitCreates DEF TxId
<1>2. \A v \in Wallet : Service!IsOpen(v) => v # w /\ ~Service!SamePurse(v, w)
  <2>1. \A v \in Wallet : wallets[v].open => v # w /\ ~SamePurse(v, w)
    BY <1>1 DEF RowWorkOK, KeysFree, FindByPlayerAndCurrency
  <2> QED BY <2>1, ServiceView, SameData
<1>3. ServiceBalance' = [ServiceBalance EXCEPT ![w] = WalletInfo[w].opening]
  <2>1. OpenedWallet(w).balance = WalletInfo[w].opening
    BY DEF OpenedWallet
  <2> QED BY <1>1, <2>1, CommitShows
<1>4. ServiceOutcome' = [ServiceOutcome EXCEPT ![w] = Service!Opening(w)]
  <2>1. CASE HasOpeningBalance(w)
    <3>1. OpeningRow(w) # NoRow
      BY <2>1 DEF OpeningRow, ProcessedRow, PendingRow, NoRow
    <3>2. OutcomeOf(OpeningRow(w)) = Service!Opening(w)
      BY <2>1, SameData, SameRules
         DEF OpeningRow, ProcessedRow, PendingRow, NoRow, OutcomeOf, Service!Opening,
             Service!Done
    <3> QED BY <1>1, <3>1, <3>2, CommitShows
  <2>2. CASE ~HasOpeningBalance(w)
    <3>1. UNCHANGED ServiceOutcome
      BY <1>1, <2>2, CommitShows DEF OpeningRow
    <3>2. ServiceOutcome[w] = Service!Opening(w)
      BY <1>1, <2>2, SameData, SameRules
         DEF ServiceOutcome, NoRow, Service!Opening, Service!NoOutcome
    <3>3. ServiceOutcome = [ServiceOutcome EXCEPT ![w] = ServiceOutcome[w]]
      BY DEF ServiceOutcome
    <3> QED BY <3>1, <3>2, <3>3
  <2> QED BY <2>1, <2>2
<1>5. ledger' = [ledger EXCEPT ![w] = Service!FirstEntries(w)]
  <2>1. CASE HasOpeningBalance(w)
    <3>1. OpeningEntry(w) # None /\ OpeningEntry(w) \in Entries
      BY <1>1, <2>1, OpeningRows, NullAssumption
    <3>2. Service!FirstEntries(w) = <<OpeningEntry(w)>>
      BY <2>1, SameData DEF Service!FirstEntries, OpeningEntry
    <3>3. ledger' = [ledger EXCEPT ![w] = Append(@, OpeningEntry(w))]
      BY <1>1, <3>1, CommitShows
    <3>4. Append(ledger[w], OpeningEntry(w)) = <<OpeningEntry(w)>>
      BY <1>1, <3>1
    <3> QED BY <3>2, <3>3, <3>4
  <2>2. CASE ~HasOpeningBalance(w)
    <3>1. ledger' = ledger /\ Service!FirstEntries(w) = ledger[w]
      BY <1>1, <2>2, CommitShows, SameData DEF OpeningEntry, Service!FirstEntries
    <3>2. ledger = [ledger EXCEPT ![w] = ledger[w]]
      BY DEF TypeOK
    <3> QED BY <3>1, <3>2
  <2> QED BY <2>1, <2>2
<1> HIDE DEF w
<1> QED BY <1>2, <1>3, <1>4, <1>5 DEF Service!Open, w

\* A row that was not there or waits is one the service may decide.
LEMMA CommitUndecided ==
  ASSUME DecisionInv, NEW p \in Proc, Commit(p), job[p].op # "create", buf[p].row # NoRow
  PROVE  /\ job[p].id \in Cmd /\ job[p].id \in TxId
         /\ Service!Undecided(job[p].id)
         /\ job[p].op = "process" => txs[job[p].id].status = "ABSENT"
         /\ job[p].op = "reprocess" => txs[job[p].id].status = "PENDING_REFERENCE"
         /\ Req(job[p].id).wallet = W(p) /\ W(p) \in Wallet /\ wallets[W(p)].open
<1> USE DEF DecisionInv, MovementInv, RowInv, LedgerInv, ControlInv
<1> DEFINE t == job[p].id
<1>1. job[p].op \in {"process", "reprocess"} /\ snap[p] # None
  BY CommitHolds
<1>2. t \in TxId /\ W(p) \in Wallet /\ Req(t).wallet = W(p) /\ wallets[W(p)].open
  BY <1>1, CommitEffect DEF W, R, WalletsOpen
<1>3. /\ job[p].op = "process" => txs[t].status = "ABSENT"
      /\ job[p].op = "reprocess" => txs[t].status = "PENDING_REFERENCE"
  BY <1>2, OldRow, CommitEffect DEF Committed
<1>4. t \in Cmd
  <2>1. job[p].op = "reprocess" => RequiresReference(Req(t).kind)
    BY <1>2, <1>3 DEF DecisionTablesOK
  <2> QED BY <1>1, <1>2, <2>1, JobIds, KeyFields DEF RequiresReference, ReversalKinds
<1>5. ASSUME job[p].op = "process" PROVE Service!Fresh(t)
  <2>1. WellFormed(Req(t), None)
    BY <1>5 DEF DecisionFits, R
  <2>2. \A s \in Committed : Req(s).key # Req(t).key /\ Req(s).ext # Req(t).ext
    BY <1>5 DEF RowWorkOK, KeysFree, Inserting, FindByIdempotencyKey,
                FindByProviderAndExternalId, R
  <2>3. ServiceOutcome[t].status = "ABSENT"
    BY <1>2, <1>3, <1>5, ServiceView
  <2> QED BY <2>1, <2>2, <2>3, ServiceView, SameData, SameRules DEF Service!Fresh
<1>6. job[p].op = "reprocess" => ServiceOutcome[t].status = "PENDING_REFERENCE"
  BY <1>2, <1>3, ServiceView
<1>7. Service!IsOpen(Req(t).wallet)
  BY <1>2, ServiceView
<1>8. Service!Undecided(t)
  BY <1>1, <1>5, <1>6, <1>7, SameData DEF Service!Undecided
<1> QED BY <1>2, <1>3, <1>4, <1>8

\* The balance a unit of work has read is one its request may be judged by.
LEMMA CommitSees ==
  ASSUME DecisionInv, NEW p \in Proc, Commit(p), job[p].op # "create", buf[p].row # NoRow
  PROVE  /\ snap[p].balance \in Service!Seen(job[p].id)
         /\ Service!Shown(job[p].id, snap[p].balance) = Observed(p, snap[p].balance)
         /\ lock[p] # "Update" => Service!Early(job[p].id)
<1> USE DEF DecisionInv, MovementInv, RowInv, LedgerInv, ControlInv
<1> DEFINE t == job[p].id
<1>1. /\ t \in TxId /\ Req(t).wallet = W(p) /\ W(p) \in Wallet /\ wallets[W(p)].open
      /\ snap[p] # None /\ job[p].op \in {"process", "reprocess"}
  BY CommitUndecided, CommitHolds
<1>2. lock[p] # "Update" => Service!Early(t)
  <2>1. lock[p] # "Update" => job[p].op = "process" /\ W(p) \notin OpenAtStart
    BY <1>1, LockedWallet DEF Guarded
  <2> QED BY <1>1, <2>1, CommitUndecided, ServiceDecides
<1>3. Service!Shown(t, snap[p].balance) = Observed(p, snap[p].balance)
  BY <1>1, SameData, SameRules DEF Service!Shown, Observed, R
<1>4. snap[p].balance \in Service!Seen(t)
  <2>1. Service!Early(t) => snap[p].balance \in Service!Had(Req(t).wallet)
    BY <1>1, LockedWallet, SameData
  <2>2. ~Service!Early(t) => snap[p].balance = ServiceBalance[Req(t).wallet]
    BY <1>1, <1>2, LockedWallet, ServiceView
  <2> QED BY <2>1, <2>2, SameData DEF Service!Seen
<1> QED BY <1>2, <1>3, <1>4

\* The rule it has found broken is the one the service refuses by.
LEMMA CommitRefuses ==
  ASSUME DecisionInv, NEW p \in Proc, Commit(p), job[p].op # "create", buf[p].row # NoRow,
         NEW s, NEW code, Breaks(p, s, code), code # NoFailure
  PROVE  \E reversed \in Service!ReversedBefore(job[p].id, s) :
           Service!RefusalOf(job[p].id, s, snap[p].balance, reversed) = code
<1> DEFINE t == job[p].id
           reversed == Service!Reversed(s, Req(t).kind)
<1>1. t \in TxId /\ R(p) = Req(t) /\ Req(t).wallet = W(p)
  BY CommitUndecided DEF R
<1>2. reversed \in Service!ReversedBefore(t, s) /\ reversed = Taken(s, Req(t).kind)
  BY <1>1, ServiceDecides, SameData DEF Service!ReversedBefore
<1>3. MovementOf(p, s) =
        Service!MovementFailure(Req(t), Service!Way(t, s), snap[p].balance,
                                WalletInfo[Req(t).wallet].currency)
  BY <1>1, ServiceDecides, SameRules DEF MovementOf
<1> HIDE DEF reversed
<1>4. CASE s # None /\ code = ReferenceFailure(R(p), Req(s))
  <2>1. Service!RefusalOf(t, s, snap[p].balance, reversed) = code
    BY <1>1, <1>4, SameData, SameRules DEF Service!RefusalOf
  <2> QED BY <1>2, <2>1
<1>5. CASE /\ s # None /\ ReferenceFailure(R(p), Req(s)) = NoFailure
           /\ code = "ALREADY_REVERSED" /\ Taken(s, R(p).kind)
  <2>1. Service!RefusalOf(t, s, snap[p].balance, reversed) = code
    BY <1>1, <1>2, <1>5, SameData, SameRules DEF Service!RefusalOf
  <2> QED BY <1>2, <2>1
<1>6. CASE /\ AffectsBalance(R(p).kind) /\ code = MovementOf(p, s)
           /\ s # None => ReferenceFailure(R(p), Req(s)) = NoFailure
           /\ s # None /\ lock[p] = "Update" => ~Taken(s, R(p).kind)
  <2>1. \A r : (s # None => ~r) => Service!RefusalOf(t, s, snap[p].balance, r) = code
    BY <1>1, <1>3, <1>6, SameData, SameRules DEF Service!RefusalOf
  <2>2. CASE s = None \/ lock[p] = "Update"
    <3>1. s # None => ~reversed
      BY <1>1, <1>2, <1>6, <2>2
    <3> QED BY <1>2, <2>1, <3>1
  <2>3. CASE lock[p] # "Update"
    <3>1. FALSE \in Service!ReversedBefore(t, s)
      BY <2>3, CommitSees DEF Service!ReversedBefore
    <3> QED BY <2>1, <3>1
  <2> QED BY <2>2, <2>3
<1> QED BY <1>4, <1>5, <1>6 DEF Breaks

\* A row that is not settled names no reference and has no entry.
LEMMA CommitNoReference ==
  ASSUME DecisionInv, NEW p \in Proc, Commit(p), buf[p].row # NoRow,
         ~Moves(job[p].id, buf[p].row)
  PROVE  buf[p].row.reference = None /\ buf[p].entry = None
<1> USE DEF DecisionInv, MovementInv, RowInv, LedgerInv, ControlInv
<1>1. buf[p].entry = None
  BY CommitEffect DEF MovementWorkOK, MovementFits
<1>2. ASSUME buf[p].row.reference # None PROVE FALSE
  <2>1. /\ buf[p].row.status = "PROCESSED"
        /\ ReferenceFailure(Req(job[p].id), Req(buf[p].row.reference)) = NoFailure
    BY <1>2 DEF RowWorkOK, ReversalFits, PointsTo
  <2>2. AffectsBalance(Req(job[p].id).kind)
    BY <2>1 DEF ReferenceFailure, KindAccepted, AffectsBalance, NoFailure
  <2> QED BY <2>1, <2>2 DEF Moves
<1> QED BY <1>1, <1>2

\* A movement is posted on the balance the wallet has.
LEMMA CommitPosts ==
  ASSUME DecisionInv, NEW p \in Proc, Commit(p), job[p].op # "create", buf[p].row # NoRow,
         Moves(job[p].id, buf[p].row)
  PROVE  /\ buf[p].row.reference \in Service!References(job[p].id)
         /\ Service!Post(job[p].id, buf[p].row.reference)
<1> USE DEF DecisionInv, MovementInv, RowInv, LedgerInv, ControlInv
<1> DEFINE t == job[p].id
           s == buf[p].row.reference
           e == buf[p].entry
           w == Req(t).wallet
<1>1. t \in TxId /\ w \in Wallet /\ w = W(p) /\ wallets[w].open /\ pc[p] = "commit"
  BY CommitUndecided, CommitEffect
<1>2. /\ buf[p].row.status = "PROCESSED" /\ AffectsBalance(Req(t).kind)
      /\ Decides(p, buf[p].row)
  BY CommitHolds DEF Moves
<1>3. /\ buf[p].row.failure = NoFailure
      /\ s \in Candidates(t) /\ MovementOf(p, s) = NoFailure
  BY <1>2 DEF Decides, R
<1>4. e # None /\ EntryOf(e, t, buf[p].row)
  BY <1>1 DEF MovementWorkOK, MovementFits
<1>5. e \in Entries
  BY <1>4 DEF TypeOK, Buffers
<1>6. /\ e.before = ServiceBalance[w] /\ snap[p].balance = ServiceBalance[w]
      /\ e.after = e.before + SignedAmount(e.direction, e.amount)
      /\ buf[p].wallet # None /\ buf[p].wallet.balance = e.after
  <2>1. /\ buf[p].wallet # None /\ lock[p] \in {"NoKeyUpdate", "Update"} /\ snap[p] # None
        /\ e.before = snap[p].balance /\ buf[p].wallet.balance = e.after
        /\ e.after = e.before + SignedAmount(e.direction, e.amount)
    BY <1>4, CommitHolds
  <2>2. snap[p] = wallets[w]
    BY <1>1, <2>1, LockedWallet
  <2> QED BY <1>1, <2>1, <2>2, ServiceView
<1>7. e = Service!Entry(t, Service!Way(t, s), ServiceBalance[w])
  <2>1. /\ e.tx = t /\ e.amount = Req(t).amount
        /\ e.direction = Service!Way(t, s)
    BY <1>1, <1>4, ServiceDecides DEF EntryOf
  <2>2. e = Entry(t, Service!Way(t, s), ServiceBalance[w])
    BY <1>5, <1>6, <2>1 DEF Entries, Entry
  <2> QED BY <2>2, SameData
<1>8. ServiceOutcome' = [ServiceOutcome EXCEPT ![t] = Service!Done(s, e.after)]
  <2>1. OutcomeOf(buf[p].row) = Service!Done(s, e.after)
    BY <1>2, <1>3, <1>4, SameRules DEF OutcomeOf, Service!Done, EntryOf
  <2> QED BY <2>1, CommitShows
<1>9. s # None => ReferenceFailure(Req(t), Req(s)) = NoFailure /\ ~Taken(s, Req(t).kind)
  <2> SUFFICES ASSUME s # None
               PROVE  ReferenceFailure(Req(t), Req(s)) = NoFailure /\ ~Taken(s, Req(t).kind)
    OBVIOUS
  <2>1. /\ ReferenceFailure(Req(t), Req(s)) = NoFailure
        /\ \A u \in Committed \ {t} : ~(txs[u].reference = s /\ Req(u).kind = R(p).kind)
    BY DEF RowWorkOK, ReversalFits, PointsTo
  <2>2. txs[t].status # "PROCESSED"
    BY <1>1, OldRow
  <2>3. \A u \in TxId : txs[u].status = "PROCESSED" => u \in Committed \ {t}
    BY <2>2 DEF Committed
  <2> QED BY <2>1, <2>3 DEF Taken, R
<1>10. MovementOf(p, s) =
         Service!MovementFailure(Req(t), Service!Way(t, s), ServiceBalance[w],
                                 WalletInfo[w].currency)
  <2>1. R(p) = Req(t)
    BY DEF R
  <2> QED BY <1>1, <1>6, <2>1, ServiceDecides, SameRules DEF MovementOf
<1>11. /\ Service!RefusalOf(t, s, ServiceBalance[w], Service!Reversed(s, Req(t).kind))
             = Service!NoFailure
       /\ Service!AffectsBalance(Req(t).kind)
  <2>1. s # None => ~Service!Reversed(s, Req(t).kind)
    BY <1>1, <1>9, ServiceDecides
  <2> QED BY <1>2, <1>3, <1>9, <1>10, <2>1, SameData, SameRules DEF Service!RefusalOf
<1>12. /\ ServiceBalance' = [ServiceBalance EXCEPT ![w] = e.after]
       /\ ledger' = [ledger EXCEPT ![w] = Append(@, e)]
  BY <1>1, <1>4, <1>6, CommitShows
<1>13. s \in Service!References(t)
  BY <1>1, <1>3, ServiceDecides
<1> HIDE DEF e, s, w, t
<1>14. Service!Post(t, s)
  BY <1>7, <1>8, <1>11, <1>12, SameData DEF Service!Post, Service!Conclude, w
<1> QED BY <1>13, <1>14 DEF t, s

\* The rest conclude without a movement.
LEMMA CommitConcludes ==
  ASSUME DecisionInv, NEW p \in Proc, Commit(p), job[p].op # "create", buf[p].row # NoRow,
         ~Moves(job[p].id, buf[p].row)
  PROVE  Service!Decide(job[p].id) \/ UNCHANGED Service!serviceVars
<1> USE DEF DecisionInv, MovementInv, RowInv, LedgerInv, ControlInv
<1> DEFINE t == job[p].id
           row == buf[p].row
           b == snap[p].balance
<1>1. t \in TxId /\ pc[p] = "commit" /\ job[p].op \in {"process", "reprocess"}
  BY CommitEffect, CommitHolds
<1>2. /\ Decides(p, row) /\ R(p) = Req(t)
      /\ row.status \in {"PENDING_REFERENCE", "PROCESSED", "REJECTED"}
  BY CommitHolds DEF R
<1>3. row.reference = None /\ buf[p].entry = None /\ buf[p].wallet = None
  BY CommitNoReference, CommitHolds
<1>4. /\ ServiceOutcome' = [ServiceOutcome EXCEPT ![t] = OutcomeOf(row)]
      /\ UNCHANGED <<ServiceBalance, ledger>>
  BY <1>3, CommitShows
<1>5. Service!Undecided(t) /\ ServiceOutcome[t].status = txs[t].status
  BY <1>1, CommitUndecided, ServiceView
<1>6. b \in Service!Seen(t) /\ Service!Shown(t, b) = Observed(p, b)
  BY CommitSees
<1>7. CASE row.status = "PROCESSED"
  <2>1. /\ ~AffectsBalance(Req(t).kind) /\ row.failure = NoFailure
        /\ row.observed = Observed(p, b)
    BY <1>2, <1>7 DEF Moves, Decides
  <2>2. OutcomeOf(row) = Service!Done(None, Service!Shown(t, b))
    BY <1>3, <1>6, <1>7, <2>1, SameRules DEF OutcomeOf, Service!Done
  <2>3. Service!Note(t)
    BY <1>4, <1>6, <2>1, <2>2, SameData, SameRules DEF Service!Note, Service!Conclude
  <2> QED BY <1>5, <2>3 DEF Service!Decide
<1>8. CASE row.status = "REJECTED"
  <2>1. CASE /\ job[p].op = "reprocess" /\ Lonely(t)
             /\ row.failure = "REFERENCE_NOT_FOUND" /\ row.observed = NoBalance
    <3>1. OutcomeOf(row) = Service!Refused("REFERENCE_NOT_FOUND", Service!NoBalance)
      BY <1>3, <1>8, <2>1, SameRules DEF OutcomeOf, Service!Refused
    <3>2. Service!GiveUp(t)
      BY <1>1, <1>4, <1>5, <2>1, <3>1, ServiceDecides, CommitUndecided
         DEF Service!GiveUp, Service!Conclude
    <3> QED BY <1>5, <3>2 DEF Service!Decide
  <2>2. ASSUME NEW s \in Candidates(t), Breaks(p, s, row.failure), row.failure # NoFailure,
               row.observed = Observed(p, b)
        PROVE  Service!Decide(t)
    <3>1. s \in Service!References(t)
      BY <1>1, ServiceDecides
    <3>2. PICK reversed \in Service!ReversedBefore(t, s) :
            Service!RefusalOf(t, s, b, reversed) = row.failure
      BY <2>2, CommitRefuses
    <3>3. OutcomeOf(row) =
            Service!Refused(Service!RefusalOf(t, s, b, reversed), Service!Shown(t, b))
      BY <1>3, <1>6, <1>8, <2>2, <3>2 DEF OutcomeOf, Service!Refused
    <3>4. Service!Refuse(t, s)
      BY <1>4, <1>6, <2>2, <3>2, <3>3, SameRules DEF Service!Refuse, Service!Conclude
    <3> QED BY <1>5, <3>1, <3>4 DEF Service!Decide
  <2> QED BY <1>2, <1>8, <2>1, <2>2 DEF Decides
<1>9. CASE row.status = "PENDING_REFERENCE"
  <2>1. row.observed = NoBalance /\ row.failure = NoFailure
    BY <1>1, <1>9 DEF MovementWorkOK, MovementFits
  <2>2. CASE job[p].op = "process"
    <3>1. Service!Early(t) \/ Service!Unreferenced(t)
      BY <1>1, <1>2, <1>9, <2>2, CommitSees, ServiceDecides DEF Decides
    <3>2. OutcomeOf(row) = [Service!NoOutcome EXCEPT !.status = "PENDING_REFERENCE"]
      BY <1>3, <1>9, <2>1, SameRules DEF OutcomeOf, Service!NoOutcome
    <3>3. ServiceOutcome[t].status = "ABSENT" /\ RequiresReference(Req(t).kind)
      BY <1>2, <1>5, <1>9, <2>2, CommitUndecided DEF Decides
    <3>4. Service!Wait(t)
      BY <1>4, <3>1, <3>2, <3>3, SameData, SameRules DEF Service!Wait, Service!Conclude
    <3> QED BY <1>5, <3>4 DEF Service!Decide
  <2>3. CASE job[p].op = "reprocess"
    <3>1. /\ txs[t].status = "PENDING_REFERENCE"
          /\ txs[t].observed = NoBalance /\ txs[t].failure = NoFailure
          /\ txs[t].reference = None
      BY <1>1, <2>3, CommitUndecided
         DEF MovementTablesOK, WaitsForReference, RowTablesOK, ReferencesFit
    <3>2. ServiceOutcome[t] = OutcomeOf(row)
      BY <1>1, <1>3, <1>9, <2>1, <3>1 DEF OutcomeOf, ServiceOutcome
    <3>3. UNCHANGED ServiceOutcome
      BY <1>1, <1>4, <3>2 DEF ServiceOutcome
    <3> QED BY <1>4, <3>3 DEF Service!serviceVars
  <2> QED BY <1>1, <2>2, <2>3
<1> QED BY <1>2, <1>7, <1>8, <1>9
-----------------------------------------------------------------------------
(* The refinement                                                          *)

LEMMA CommitImplements ==
  ASSUME DecisionInv, NEW p \in Proc, Commit(p)
  PROVE  Service!Next \/ UNCHANGED Service!serviceVars
<1> USE DEF DecisionInv, MovementInv, RowInv, LedgerInv, ControlInv
<1>1. CASE buf[p].row = NoRow /\ buf[p].wallet = None
  <2>1. buf[p].entry = None
    BY <1>1 DEF WalletsOpen
  <2>2. UNCHANGED <<wallets, txs, ledger>>
    BY <1>1, <2>1 DEF Commit
  <2> QED BY <2>2 DEF Service!serviceVars, ServiceBalance, ServiceOutcome
<1>2. CASE job[p].op = "create" /\ buf[p].wallet # None
  <2>1. W(p) \in Wallet /\ Service!Open(W(p))
    BY <1>2, CommitOpensWallet, CommitEffect
  <2> QED BY <2>1 DEF Service!Next
<1>3. CASE job[p].op # "create" /\ buf[p].row # NoRow
  <2>1. job[p].id \in Cmd /\ Service!Undecided(job[p].id)
    BY <1>3, CommitUndecided
  <2>2. Service!Decide(job[p].id) \/ UNCHANGED Service!serviceVars
    BY <1>3, <2>1, CommitPosts, CommitConcludes DEF Service!Decide
  <2> QED BY <2>1, <2>2 DEF Service!Next
<1>4. /\ job[p].op = "create" /\ buf[p].row # NoRow => buf[p].wallet # None
      /\ job[p].op # "create" /\ buf[p].wallet # None => buf[p].row # NoRow
  BY CommitHolds DEF WalletsOpen
<1> QED BY <1>1, <1>2, <1>3, <1>4

LEMMA InitImplements ==
  ASSUME Init
  PROVE  Service!Init
<1>1. ServiceBalance = [w \in Wallet |-> IF w \in OpenAtStart THEN WalletInfo[w].opening
                                         ELSE Service!NoBalance]
  BY SameRules DEF Init, OpenedWallet, NoWallet, ServiceBalance
<1>2. ServiceOutcome = [t \in Service!TxId |->
        IF t \in OpenAtStart THEN Service!Opening(t) ELSE Service!NoOutcome]
  BY SameData, SameRules
     DEF Init, ServiceOutcome, OpeningRow, ProcessedRow, PendingRow, NoRow,
         Service!Opening, Service!Done, Service!NoOutcome
<1>3. ledger = [w \in Wallet |->
        IF w \in OpenAtStart THEN Service!FirstEntries(w) ELSE <<>>]
  BY SameData DEF Init, OpeningEntry, Service!FirstEntries
<1> QED BY <1>1, <1>2, <1>3 DEF Service!Init

LEMMA StepImplements ==
  DecisionInv /\ [Next]_vars => [Service!Next]_Service!serviceVars
<1> SUFFICES ASSUME DecisionInv, [Next]_vars
             PROVE  Service!Next \/ UNCHANGED Service!serviceVars
  OBVIOUS
<1>1. CASE UNCHANGED db
  BY <1>1 DEF db, Service!serviceVars, ServiceBalance, ServiceOutcome
<1>2. CASE db' # db
  <2>1. PICK p \in Proc : Commit(p)
    BY <1>2, NextCommits DEF vars, db
  <2> QED BY <2>1, CommitImplements
<1> QED BY <1>1, <1>2

\* However statements of handlers and sweepers, creations of wallets,
\* deadlocks, retries and crashes interleave, clients see operations that take
\* effect one after the other, each once: a movement on the balance and the
\* references of that moment, and so every other outcome too, save what a
\* request that came before its wallet is told (wager-processing.ts under the
\* row lock of repositories.ts and the compare-and-set of wallets.save).
THEOREM ServiceImplemented == Spec => ImplementsService
<1>1. Init => Service!Init
  BY InitImplements
<1>2. DecisionInv /\ [Next]_vars => [Service!Next]_Service!serviceVars
  BY StepImplements
<1> QED BY <1>1, <1>2, DecisionsCorrect, PTL DEF Spec, Service!Spec, ImplementsService

\* The balance a row records for the client is the one the wallet has when
\* the row commits, whatever else ran since the statement that read it, if
\* the wallet was there to be locked (wager-processing.ts,
\* recordObservedBalance).
THEOREM DecisionsAreCurrent == Spec => DecidedOnCurrentBalance
<1>1. DecisionInv /\ [Next]_vars =>
        [\A t \in Cmd :
           /\ Req(t).wallet \in OpenAtStart
           /\ txs'[t] # txs[t]
           /\ txs'[t].observed # NoBalance
           => txs'[t].observed = wallets'[Req(t).wallet].balance]_vars
  <2> SUFFICES ASSUME DecisionInv, Next, NEW t \in Cmd, Req(t).wallet \in OpenAtStart,
                      txs'[t] # txs[t], txs'[t].observed # NoBalance
               PROVE  txs'[t].observed = wallets'[Req(t).wallet].balance
    OBVIOUS
  <2> USE DEF DecisionInv, MovementInv, RowInv, LedgerInv, ControlInv
  <2>1. PICK p \in Proc : Commit(p)
    BY NextCommits DEF db
  <2>2. t \in TxId /\ Req(t).wallet \in Wallet
    BY RequestFields DEF TxId
  <2>3. t = job[p].id /\ buf[p].row # NoRow /\ txs'[t] = buf[p].row /\ pc[p] = "commit"
    BY <2>1, <2>2, CommitEffect
  <2>4. job[p].op # "create" /\ Req(t).wallet = W(p) /\ W(p) \in Wallet
    BY <2>2, <2>3, JobIds, RequestAssumption DEF W, R
  <2>5. lock[p] = "Update" /\ snap[p] = wallets[W(p)]
    BY <2>1, <2>3, <2>4, CommitHolds, LockedWallet DEF Guarded
  <2>6. CASE Moves(t, buf[p].row)
    <3>1. buf[p].entry # None /\ buf[p].entry.after = buf[p].row.observed
      BY <2>3, <2>6 DEF MovementWorkOK, MovementFits, EntryOf
    <3>2. buf[p].wallet # None /\ buf[p].wallet.balance = buf[p].entry.after
      BY <2>1, <2>4, <3>1, CommitHolds
    <3> QED BY <2>1, <2>3, <2>4, <3>1, <3>2, CommitEffect
  <2>7. CASE ~Moves(t, buf[p].row)
    <3>1. buf[p].entry = None /\ buf[p].wallet = None
      BY <2>1, <2>3, <2>4, <2>7, CommitNoReference, CommitHolds
    <3>2. wallets' = wallets
      BY <2>1, <3>1 DEF Commit
    <3>3. /\ Decides(p, buf[p].row)
          /\ buf[p].row.status \in {"PROCESSED", "REJECTED"}
      BY <2>1, <2>3, <2>4, CommitHolds DEF MovementWorkOK, MovementFits
    <3>4. buf[p].row.observed = Observed(p, snap[p].balance)
      BY <2>3, <2>7, <3>3 DEF Decides, Moves, R
    <3> QED BY <2>3, <2>4, <2>5, <3>2, <3>4 DEF Observed
  <2> QED BY <2>6, <2>7
<1> QED BY <1>1, DecisionsCorrect, PTL DEF Spec, DecidedOnCurrentBalance
-----------------------------------------------------------------------------
(* Waits                                                                   *)

\* Who has the wallet's row waits for nobody's row lock.
LEMMA HolderNeverWaits ==
  ASSUME OpenAtStart = Wallet, DecisionInv, NEW p \in Proc, snap[p] # None, pc[p] # "insertInbox",
         pc[p] # "insertTransaction", pc[p] # "insertWallet"
  PROVE  BlockedBy(p) = {}
<1> USE DEF DecisionInv, MovementInv, RowInv, LedgerInv, ControlInv
<1>1. lock[p] = "Update" /\ pc[p] # "lockWallet"
  BY LockedWallet DEF Guarded, DecisionFits, HoldsLock
<1>2. \A mode \in {"KeyShare", "NoKeyUpdate"} : LockHolders(p, mode) = {}
  <2> SUFFICES ASSUME NEW mode \in {"KeyShare", "NoKeyUpdate"}, NEW q \in Proc \ {p},
                      W(q) = W(p), Conflict(mode, lock[q])
               PROVE  FALSE
    BY DEF LockHolders
  <2>1. lock[q] # "none"
    BY DEF Conflict
  <2> QED BY <1>1, <2>1 DEF LedgerCore, LockExclusion, Conflict
<1> QED BY <1>1, <1>2 DEF BlockedBy

\* A unit of work first locks its wallet, then inserts into the inbox, then
\* the row: whom it waits for is further on.
LEMMA WaitsAreOrdered ==
  ASSUME OpenAtStart = Wallet, DecisionInv, NEW p \in Proc, NEW q \in BlockedBy(p), BlockedBy(q) # {}
  PROVE  \/ pc[p] = "lockWallet" /\ pc[q] \in {"insertInbox", "insertTransaction"}
         \/ pc[p] = "insertInbox" /\ pc[q] = "insertTransaction"
<1> USE DEF DecisionInv, MovementInv, RowInv, LedgerInv, ControlInv
<1>1. q \in Proc
  BY DEF BlockedBy, LockHolders, HoldersOfMessage, HoldersOfTransactionKey, HoldersOfWalletKey
<1>2. CASE pc[p] = "lockWallet"
  <2>1. lock[q] # "none" /\ job[q] # NoJob
    BY <1>2 DEF BlockedBy, LockHolders, Conflict
  <2>2. snap[q] # None
    BY <1>1, <2>1 DEF WalletsOpen
  <2>3. pc[q] # "insertWallet"
    BY <1>1, <2>1 DEF DecisionFits, HoldsLock
  <2> QED BY <1>1, <1>2, <2>2, <2>3, HolderNeverWaits
<1>3. CASE pc[p] = "insertInbox"
  <2>1. buf[q].inbox
    BY <1>3 DEF BlockedBy, HoldersOfMessage
  <2>2. job[q].op = "process" /\ pc[q] \notin {"lockWallet", "insertInbox", "insertWallet"}
    BY <1>1, <2>1 DEF MovementWorkOK, MessageFits, MessageLabels, ControlOK
  <2>3. snap[q] # None
    <3>1. Guarded(q)
      <4>1. job[q] # NoJob
        BY <2>2 DEF NoJob
      <4> QED BY <1>1, <4>1, JobFields DEF Guarded
    <3>2. pc[q] \notin AtRest \cup {"checkWallet"}
      BY <1>1, <2>1, <2>2 DEF ControlOK, NoWrites, MovementWorkOK, MessageFits, MessageLabels, AtRest
    <3> QED BY <1>1, <2>2, <3>1, <3>2 DEF DecisionFits, HoldsLock
  <2> QED BY <1>1, <1>3, <2>2, <2>3, HolderNeverWaits
<1>4. CASE pc[p] = "insertTransaction"
  <2>1. job[q].op = "process" /\ buf[q].row # NoRow
    BY <1>4 DEF BlockedBy, HoldersOfTransactionKey
  <2>2. pc[q] \in WritingLabels \cup {"commit"}
    BY <1>1, <2>1 DEF RowWorkOK, MovesForward
  <2>3. snap[q] # None
    BY <1>1, <2>1 DEF WalletsOpen
  <2>4. BlockedBy(q) = {}
    BY <1>1, <2>2, <2>3, HolderNeverWaits DEF WritingLabels
  <2> QED BY <2>4
<1>5. CASE pc[p] = "insertWallet"
  <2>1. pc[q] = "commit"
    BY <1>5 DEF BlockedBy, HoldersOfWalletKey
  <2> QED BY <2>1 DEF BlockedBy
<1>6. CASE pc[p] \in {"checkForeignKey", "saveWallet"}
  <2>1. snap[p] # None
    BY <1>6 DEF ControlOK, DecidingLabels
  <2> QED BY <1>6, <2>1, HolderNeverWaits
<1> QED BY <1>2, <1>3, <1>4, <1>5, <1>6 DEF BlockedBy

\* Units of work for wallets that exist never wait for each other in a cycle:
\* wallet row, inbox, transaction keys is an order that every statement of
\* wager-processing.ts and the use cases keeps.
THEOREM WaitsEnd ==
  ASSUME OpenAtStart = Wallet
  PROVE  Spec => []NoDeadlock
<1>1. DecisionInv => NoDeadlock
  <2> SUFFICES ASSUME DecisionInv, NEW S \in SUBSET Proc, Stuck(S) PROVE FALSE
    BY DEF NoDeadlock, Deadlocked
  <2>1. \A p \in S : \E q \in S : q \in BlockedBy(p) /\ BlockedBy(q) # {}
    BY DEF Stuck
  <2>2. \A p \in S : pc[p] # "insertTransaction"
    BY <2>1, WaitsAreOrdered
  <2>3. \A p \in S : pc[p] # "insertInbox"
    BY <2>1, <2>2, WaitsAreOrdered
  <2>4. \A p \in S : FALSE
    BY <2>1, <2>2, <2>3, WaitsAreOrdered
  <2> QED BY <2>4 DEF Stuck
<1> QED BY <1>1, DecisionsCorrect, PTL
=============================================================================
