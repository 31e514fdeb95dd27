--------------------------- MODULE JobLease_proofs ---------------------------
(***************************************************************************)
(* Proofs about JobLease: whatever the leases do, type correctness, the     *)
(* safety of cursors and completions, and the refinement of JobPromise; and  *)
(* what timely leases add to that.                                           *)
(***************************************************************************)
EXTENDS JobLease, TLAPS

LEMMA FreshType == Fresh \in Mind /\ Fresh.pc = "idle"
<1>1. (CHOOSE j \in Job : TRUE) \in Job
  BY ConstantsOK
<1> QED
  BY <1>1, ConstantsOK DEF Fresh, Mind, Control, Upstream, After, Cursor, JobState, Waiting, Terminal

LEMMA TokenType == \A p \in 1..Pages : Token(p) \in Cursor
  BY ConstantsOK DEF Token, Cursor

LEMMA RenewedType ==
  ASSUME TypeOK, NEW w \in Worker
  PROVE  Renewed(w) \in [Job -> Row]
<1> DEFINE m == wk[w]
<1>1. m \in Mind
  BY DEF TypeOK
<1>2. m.job \in Job /\ row[m.job] \in Row
  BY <1>1 DEF TypeOK, Mind
<1>3. [row[m.job] EXCEPT !.lease = "live"] \in Row
  BY <1>2 DEF Row
<1>4. [row EXCEPT ![m.job].lease = "live"] \in [Job -> Row]
  BY <1>2, <1>3 DEF TypeOK
<1> QED
  BY <1>4 DEF Renewed, TypeOK

LEMMA SaveType ==
  ASSUME NEW m \in Mind, NEW what \in {"cursor", "warning"}, NEW next \in After
  PROVE  Save(m, what, next) \in Mind
  BY DEF Save, Mind, Control

LEMMA WrapUpType ==
  ASSUME NEW m \in Mind
  PROVE  WrapUp(m) \in Mind
<1>1. 0 \in Cursor
  BY ConstantsOK DEF Cursor
<1>2. [m EXCEPT !.mem = 0] \in Mind
  BY <1>1 DEF Mind
<1> QED
  BY <1>2, SaveType DEF WrapUp, After

LEMMA TransitionType ==
  ASSUME TypeOK, NEW j \in Job, NEW r \in Row, Transition(j, r)
  PROVE  /\ row' \in [Job -> Row]
         /\ stored' \in [Job -> SUBSET Piece]
         /\ gone' \subseteq Job
         /\ bumps' \in [Job -> Nat]
  BY DEF TypeOK, Transition

LEMMA TurnType ==
  ASSUME TypeOK, NEW w \in Worker, NEW m \in Mind, Turn(w, m)
  PROVE  wk' \in [Worker -> Mind]
  BY DEF TypeOK, Turn

LEMMA SavedRowType ==
  ASSUME TypeOK, NEW m \in Mind
  PROVE  SavedRow(m) \in Row
<1>1. row[m.job] \in Row
  BY DEF TypeOK, Mind
<1> QED
  BY <1>1 DEF SavedRow, Row, Mind

LEMMA SettledRowType ==
  ASSUME TypeOK, NEW m \in Mind, m.pc \in {"quota", "retry", "fail", "ending"}
  PROVE  SettledRow(m) \in Row
<1>1. row[m.job] \in Row
  BY DEF TypeOK, Mind
<1> DEFINE free == [row[m.job] EXCEPT !.owner = NoWorker, !.lease = "none"]
<1>2. free \in Row
  BY <1>1 DEF Row
<1> QED
  BY <1>1, <1>2 DEF SettledRow, Row, JobState, Waiting, Terminal

------------------------------------------------------------------------------
(* Type correctness.  A page is only asked for, or in hand, below the last one. *)

Reading(m) ==
    \/ m.pc \in {"detail", "check", "thread", "page", "reply", "replypage"}
    \/ m.pc \in {"save", "saving"} /\ m.next = "check"

InRange == \A w \in Worker : Reading(wk[w]) => wk[w].at < Pages

TypeInv == TypeOK /\ InRange

LEMMA InitType == Init => TypeInv
<1>1. Init => TypeOK
  BY FreshType, ConstantsOK
  DEF Init, TypeOK, NewRow, Row, JobState, Waiting, Terminal, Cursor
<1>2. Init => InRange
  BY FreshType DEF Init, InRange, Reading
<1> QED
  BY <1>1, <1>2 DEF TypeInv

\* The steps that leave the rows alone only change the worker's own record.
LEMMA CollectType ==
  ASSUME TypeInv, NEW w \in Worker, Collect(w) \/ SaveAgain(w)
  PROVE  TypeOK'
<1> USE DEF TypeInv
<1> DEFINE m == wk[w]
<1>m. m \in Mind /\ m.job \in Job /\ row[m.job] \in Row
  BY DEF TypeOK, Mind
<1>0. 0 \in Cursor
  BY ConstantsOK DEF Cursor
<1>1. CASE Begin(w)
  <2>1. [m EXCEPT !.pc = "detail", !.ident = row[m.job].owner,
                  !.at = row[m.job].cursor, !.mem = row[m.job].cursor] \in Mind
    <3>1. Cursor \subseteq 0..Pages
      BY ConstantsOK DEF Cursor
    <3>2. row[m.job].cursor \in Cursor /\ row[m.job].cursor \in 0..Pages
      BY <1>m, <3>1 DEF Row
    <3>3. row[m.job].owner \in Worker \union {NoWorker}
      BY <1>m DEF Row
    <3> QED
      BY <1>m, <3>2, <3>3 DEF Mind, Control, Upstream
  <2> QED
    BY <1>1, <2>1, FreshType, TurnType DEF Begin, TypeOK
<1>2. CASE LoseLease(w)
  BY <1>2, FreshType, TurnType DEF LoseLease, TypeOK
<1>3. ASSUME NEW found \in BOOLEAN, GetDetails(w, found)
      PROVE  TypeOK'
  <2> DEFINE n == [m EXCEPT !.mem = 0]
  <2>1. n \in Mind /\ n.job = m.job
    BY <1>m, <1>0 DEF Mind
  <2>2. Save(n, "cursor", IF found THEN "check" ELSE "finish") \in Mind
    BY <2>1, SaveType DEF After
  <2>3. wk' \in [Worker -> Mind]
    BY <1>3, <2>2, TurnType DEF GetDetails
  <2> QED
    BY <1>3, <1>m, <2>1, <2>3, RenewedType DEF GetDetails, TypeOK
<1>4. ASSUME NEW skip \in BOOLEAN, CheckStored(w, skip)
      PROVE  TypeOK'
  <2>1. [m EXCEPT !.pc = "thread"] \in Mind
    BY <1>m DEF Mind, Control, Upstream
  <2> QED
    BY <1>4, <1>m, <2>1, WrapUpType, TurnType DEF CheckStored, TypeOK
<1>5. CASE GetThreads(w)
  <2>1. [m EXCEPT !.pc = "page"] \in Mind
    BY <1>m DEF Mind, Control
  <2> QED
    BY <1>5, <2>1, RenewedType, TurnType DEF GetThreads, TypeOK
<1>6. CASE CommentsUnavailable(w)
  <2>1. Save(m, "warning", "wrap") \in Mind
    BY <1>m, SaveType DEF After
  <2> QED
    BY <1>6, <2>1, RenewedType, TurnType DEF CommentsUnavailable, TypeOK
<1>7. CASE GetReplies(w)
  <2>1. [m EXCEPT !.pc = "replypage"] \in Mind
    BY <1>m DEF Mind, Control
  <2> QED
    BY <1>7, <2>1, RenewedType, TurnType DEF GetReplies, TypeOK
<1>8. CASE StoreThreads(w)
  <2>1. [m EXCEPT !.pc = "reply"] \in Mind
    BY <1>m DEF Mind, Control, Upstream
  <2>2. <<m.at + 1, "threads">> \in Piece
    BY <1>8, ConstantsOK DEF StoreThreads, Piece
  <2>3. stored' \in [Job -> SUBSET Piece]
    BY <1>8, <2>2, <1>m DEF StoreThreads, TypeOK
  <2> QED
    BY <1>8, <2>1, <2>3, TurnType DEF StoreThreads, TypeOK
<1>9. CASE CommitPage(w)
  <2> DEFINE p == m.at + 1
             done == [m EXCEPT !.at = p, !.mem = Token(p), !.pc = "thread"]
  <2>1. p \in 1..Pages
    BY <1>9, <1>m, ConstantsOK DEF CommitPage, LastPiece, At, InRange, Reading, Mind
  <2>2. done \in Mind
    <3>1. p \in 0..Pages /\ Token(p) \in Cursor
      BY <2>1, TokenType, ConstantsOK
    <3> QED
      BY <1>m, <3>1 DEF Mind, Control, Upstream
  <2>3. wk' \in [Worker -> Mind]
    BY <1>9, <2>2, WrapUpType, TurnType DEF CommitPage
  <2>4. WholePage(p) \subseteq Piece /\ {<<p, "replies">>} \subseteq Piece
    BY <2>1 DEF WholePage, Piece
  <2>5. stored' \in [Job -> SUBSET Piece]
    BY <1>9, <1>m, <2>4 DEF CommitPage, TypeOK
  <2>6. [row[m.job] EXCEPT !.cursor = Token(p)] \in Row
    BY <1>m, <2>1, TokenType DEF Row
  <2>7. row' \in [Job -> Row]
    BY <1>9, <1>m, <2>6 DEF CommitPage, TypeOK
  <2> QED
    BY <1>9, <2>3, <2>5, <2>7 DEF CommitPage, TypeOK
<1>10. CASE CommitRefused(w)
  <2>1. [m EXCEPT !.pc = "fail"] \in Mind
    BY <1>m DEF Mind, Control
  <2> QED
    BY <1>10, <2>1, TurnType DEF CommitRefused, TypeOK
<1>11. CASE SaveRead(w)
  <2>1. [m EXCEPT !.pc = "saving", !.seen = row[m.job].state] \in Mind
    BY <1>m DEF Mind, Control, Row
  <2> QED
    BY <1>11, <2>1, TurnType DEF SaveRead, TypeOK
<1>12. CASE SaveWrite(w)
  <2>1. m.next # "wrap" => [m EXCEPT !.pc = m.next] \in Mind
    BY <1>m DEF Mind, Control, After
  <2>2. wk' \in [Worker -> Mind]
    BY <1>12, <1>m, <2>1, WrapUpType, TurnType DEF SaveWrite
  <2> QED
    BY <1>12, <1>m, <2>2, SavedRowType, TransitionType DEF SaveWrite, TypeOK
<1>13. CASE SaveRefused(w)
  <2>1. [m EXCEPT !.pc = "fail"] \in Mind
    BY <1>m DEF Mind, Control
  <2> QED
    BY <1>13, <2>1, TurnType DEF SaveRefused, Rejected, TypeOK
<1>14. CASE Finish(w)
  <2>1. [m EXCEPT !.pc = "ending", !.warned = row[m.job].warned] \in Mind
    BY <1>m DEF Mind, Control, Row
  <2> QED
    BY <1>14, <2>1, TurnType DEF Finish, TypeOK
<1>15. CASE Settle(w)
  <2>1. wk' \in [Worker -> Mind]
    BY <1>15, FreshType, TurnType DEF Settle
  <2> QED
    BY <1>15, <1>m, <2>1, SettledRowType, TransitionType DEF Settle, Settling, TypeOK
<1>16. CASE SettleRefused(w)
  <2>1. [Fresh EXCEPT !.pc = "down"] \in Mind
    BY FreshType DEF Mind, Control
  <2> QED
    BY <1>16, <2>1, TurnType DEF SettleRefused, Rejected, TypeOK
<1>17. CASE SaveAgain(w)
  <2>1. [m EXCEPT !.pc = "save"] \in Mind
    BY <1>m DEF Mind, Control
  <2> QED
    BY <1>17, <1>m, <2>1, SavedRowType, TransitionType, TurnType DEF SaveAgain, TypeOK
<1> QED
  BY <1>1, <1>2, <1>3, <1>4, <1>5, <1>6, <1>7, <1>8, <1>9, <1>10, <1>11, <1>12,
     <1>13, <1>14, <1>15, <1>16, <1>17 DEF Collect

LEMMA ClaimType ==
  ASSUME TypeOK, NEW w \in Worker, NEW j \in Job, Claim(w, j)
  PROVE  TypeOK'
<1>1. Claimed(row[j], w) \in Row
  BY DEF Claimed, TypeOK, Row, JobState
<1>2. [Fresh EXCEPT !.pc = "begin", !.job = j] \in Mind
  BY FreshType DEF Mind, Control
<1> QED
  BY <1>1, <1>2, TurnType DEF Claim, TypeOK

LEMMA EnvironmentType ==
  ASSUME TypeOK,
         \/ \E w \in Worker : Poll(w) \/ Crash(w) \/ Restart(w)
         \/ \E j \in Job : LeaseExpires(j) \/ ResumeDue(j)
  PROVE  TypeOK'
<1>1. ASSUME NEW w \in Worker, Poll(w)
      PROVE  TypeOK'
  BY <1>1 DEF Poll, vars, TypeOK
<1>2. ASSUME NEW w \in Worker, Crash(w)
      PROVE  TypeOK'
  <2>1. [Fresh EXCEPT !.pc = "down"] \in Mind
    BY FreshType DEF Mind, Control
  <2> QED
    BY <1>2, <2>1, TurnType, ConstantsOK DEF Crash, Fault, TypeOK
<1>3. ASSUME NEW w \in Worker, Restart(w)
      PROVE  TypeOK'
  BY <1>3, FreshType, TurnType DEF Restart, TypeOK
<1>4. ASSUME NEW j \in Job, LeaseExpires(j)
      PROVE  TypeOK'
  <2>1. [row[j] EXCEPT !.lease = "expired"] \in Row
    BY DEF TypeOK, Row
  <2> QED
    BY <1>4, <2>1 DEF LeaseExpires, TypeOK
<1>5. ASSUME NEW j \in Job, ResumeDue(j)
      PROVE  TypeOK'
  <2>1. [row[j] EXCEPT !.resume = "due"] \in Row
    BY DEF TypeOK, Row
  <2> QED
    BY <1>5, <2>1 DEF ResumeDue, TypeOK
<1> QED
  BY <1>1, <1>2, <1>3, <1>4, <1>5

LEMMA CallFailsType ==
  ASSUME TypeOK, NEW w \in Worker, NEW outcome \in {"quota", "retry", "fail"},
         CallFails(w, outcome)
  PROVE  TypeOK'
<1>1. Save(wk[w], "cursor", outcome) \in Mind
  BY SaveType DEF TypeOK, After
<1> QED
  BY <1>1, RenewedType, TurnType, ConstantsOK DEF CallFails, Fault, TypeOK

LEMMA TypeStep == TypeInv /\ [Next]_vars => TypeOK'
<1> SUFFICES ASSUME TypeInv, [Next]_vars PROVE TypeOK'
  OBVIOUS
<1>1. CASE UNCHANGED vars
  BY <1>1 DEF vars, TypeInv, TypeOK
<1>2. CASE Next
  BY <1>2, ClaimType, EnvironmentType, CallFailsType, CollectType DEF Next, TypeInv
<1> QED
  BY <1>1, <1>2

LEMMA RangeTurn ==
  ASSUME TypeInv, NEW w \in Worker, NEW n \in Mind, Turn(w, n),
         Reading(n) => n.at < Pages
  PROVE  InRange'
  BY DEF TypeInv, TypeOK, InRange, Turn

LEMMA FreshReads == ~Reading(Fresh) /\ ~Reading([Fresh EXCEPT !.pc = "down"])
                                   /\ \A j : ~Reading([Fresh EXCEPT !.pc = "begin", !.job = j])
  BY FreshType DEF Fresh, Reading

LEMMA WrapUpReads == \A m \in Mind : ~Reading(WrapUp(m))
  BY DEF WrapUp, Save, Reading, Mind

LEMMA RangeCollect ==
  ASSUME TypeInv, NEW w \in Worker, Collect(w) \/ SaveAgain(w)
  PROVE  InRange'
<1> USE DEF TypeInv
<1> DEFINE m == wk[w]
<1>m. m \in Mind /\ m.job \in Job /\ row[m.job] \in Row
  BY DEF TypeOK, Mind
<1>r. Reading(m) => m.at < Pages
  BY DEF InRange
<1>t. ASSUME NEW n \in Mind, Turn(w, n), Reading(n) => n.at < Pages
      PROVE  InRange'
  BY <1>t, RangeTurn
<1> SUFFICES ASSUME NEW n \in Mind, Turn(w, n) PROVE Reading(n) => n.at < Pages
  <2>1. TypeOK'
    BY CollectType
  <2>2. \E n : Turn(w, n)
    BY DEF Collect, SaveAgain, Begin, LoseLease, GetDetails, CheckStored, GetThreads,
           CommentsUnavailable, GetReplies, StoreThreads, CommitPage, CommitRefused,
           SaveRead, SaveWrite, SaveRefused, Finish, Settle, SettleRefused
  <2>3. \A n : Turn(w, n) => n = wk'[w]
    BY DEF Turn, TypeOK
  <2> QED
    BY <2>1, <2>2, <2>3, <1>t DEF TypeOK
<1>n. \A k : Turn(w, k) => n = k
  BY DEF Turn, TypeOK
<1>1. CASE Begin(w)
  <2>1. n = Fresh \/ n.at = row[m.job].cursor
    BY <1>1, <1>n, <1>m DEF Begin, Mind
  <2>2. row[m.job].cursor < Pages
    <3>1. row[m.job].cursor \in Cursor
      BY <1>m DEF Row
    <3> QED
      BY <3>1, ConstantsOK DEF Cursor
  <2> QED
    BY <2>1, <2>2, FreshReads
<1>2. CASE LoseLease(w) \/ Settle(w)
  BY <1>2, <1>n, FreshReads DEF LoseLease, Settle
<1>3. ASSUME NEW found \in BOOLEAN, GetDetails(w, found)
      PROVE  Reading(n) => n.at < Pages
  <2>1. n.at = m.at
    BY <1>3, <1>n, <1>m DEF GetDetails, Save, Mind
  <2> QED
    BY <1>3, <2>1, <1>r DEF GetDetails, At, Reading
<1>4. ASSUME NEW skip \in BOOLEAN, CheckStored(w, skip)
      PROVE  Reading(n) => n.at < Pages
  <2>1. n = WrapUp(m) \/ n.at = m.at
    BY <1>4, <1>n, <1>m DEF CheckStored, Mind
  <2> QED
    BY <1>4, <2>1, <1>r, <1>m, WrapUpReads DEF CheckStored, At, Reading
<1>5. CASE GetThreads(w) \/ GetReplies(w) \/ StoreThreads(w) \/ CommentsUnavailable(w)
  <2>1. n.at = m.at
    BY <1>5, <1>n, <1>m DEF GetThreads, GetReplies, StoreThreads, CommentsUnavailable, Save, Mind
  <2> QED
    BY <1>5, <2>1, <1>r DEF GetThreads, GetReplies, StoreThreads, CommentsUnavailable, At, Reading
<1>6. CASE CommitPage(w)
  <2> DEFINE p == m.at + 1
  <2>1. p \in 1..Pages
    BY <1>6, <1>m, <1>r, ConstantsOK DEF CommitPage, LastPiece, At, Reading, Mind
  <2>2. n = WrapUp([m EXCEPT !.at = p, !.mem = Token(p), !.pc = "thread"])
        \/ (p # Pages /\ n.at = p)
    BY <1>6, <1>n, <1>m DEF CommitPage, Mind
  <2>3. CASE n = WrapUp([m EXCEPT !.at = p, !.mem = Token(p), !.pc = "thread"])
    <3>1. p \in 0..Pages /\ Token(p) \in Cursor
      BY <2>1, TokenType, ConstantsOK
    <3>2. [m EXCEPT !.at = p, !.mem = Token(p), !.pc = "thread"] \in Mind
      BY <1>m, <3>1 DEF Mind, Control, Upstream
    <3> QED
      BY <2>3, <3>2, WrapUpReads
  <2> QED
    BY <2>1, <2>2, <2>3, ConstantsOK
<1>7. CASE CommitRefused(w) \/ SaveRefused(w)
  <2>1. n.pc = "fail"
    BY <1>7, <1>n, <1>m DEF CommitRefused, SaveRefused, Mind
  <2> QED
    BY <2>1 DEF Reading
<1>8. CASE SaveRead(w) \/ SaveAgain(w)
  <2>1. n.at = m.at /\ n.next = m.next /\ n.pc \in {"save", "saving"}
    BY <1>8, <1>n, <1>m DEF SaveRead, SaveAgain, Mind
  <2> QED
    BY <1>8, <2>1, <1>r DEF SaveRead, SaveAgain, At, Reading
<1>9. CASE SaveWrite(w)
  <2>1. n = WrapUp(m) \/ (n.at = m.at /\ n.pc = m.next)
    BY <1>9, <1>n, <1>m DEF SaveWrite, Mind
  <2> QED
    BY <1>9, <2>1, <1>m, <1>r, WrapUpReads DEF SaveWrite, At, Reading, Mind, After
<1>10. CASE Finish(w)
  <2>1. n.pc = "ending"
    BY <1>10, <1>n, <1>m DEF Finish, Mind
  <2> QED
    BY <2>1 DEF Reading
<1>11. CASE SettleRefused(w)
  BY <1>11, <1>n, FreshReads DEF SettleRefused
<1> QED
  BY <1>1, <1>2, <1>3, <1>4, <1>5, <1>6, <1>7, <1>8, <1>9, <1>10, <1>11 DEF Collect

LEMMA RangeStep == TypeInv /\ [Next]_vars => InRange'
<1> SUFFICES ASSUME TypeInv, [Next]_vars PROVE InRange'
  OBVIOUS
<1> USE DEF TypeInv
<1>1. CASE UNCHANGED vars
  BY <1>1 DEF vars, InRange
<1>2. ASSUME NEW w \in Worker, NEW j \in Job, Claim(w, j)
      PROVE  InRange'
  <2>1. [Fresh EXCEPT !.pc = "begin", !.job = j] \in Mind
    BY FreshType DEF Mind, Control
  <2> QED
    BY <1>2, <2>1, FreshReads, RangeTurn DEF Claim
<1>3. ASSUME NEW w \in Worker, NEW outcome \in {"quota", "retry", "fail"}, CallFails(w, outcome)
      PROVE  InRange'
  <2> DEFINE n == Save(wk[w], "cursor", outcome)
  <2>1. n \in Mind
    BY SaveType DEF TypeOK, After
  <2>2. ~Reading(n)
    BY <2>1 DEF Save, Reading, TypeOK, Mind
  <2> QED
    BY <1>3, <2>1, <2>2, RangeTurn DEF CallFails
<1>4. ASSUME NEW w \in Worker, Poll(w)
      PROVE  InRange'
  BY <1>4 DEF Poll, vars, InRange
<1>5. ASSUME NEW w \in Worker, Crash(w) \/ Restart(w)
      PROVE  InRange'
  <2>1. [Fresh EXCEPT !.pc = "down"] \in Mind
    BY FreshType DEF Mind, Control
  <2> QED
    BY <1>5, <2>1, FreshType, FreshReads, RangeTurn DEF Crash, Restart
<1>6. ASSUME NEW j \in Job, LeaseExpires(j) \/ ResumeDue(j)
      PROVE  InRange'
  BY <1>6 DEF LeaseExpires, ResumeDue, InRange
<1> QED
  BY <1>1, <1>2, <1>3, <1>4, <1>5, <1>6, RangeCollect DEF Next

\* Every reachable state is well typed.
THEOREM TypeCorrect == Spec => []TypeOK
<1>1. Init => TypeInv
  BY InitType
<1>2. TypeInv /\ [Next]_vars => TypeInv'
  BY TypeStep, RangeStep DEF TypeInv
<1>3. TypeInv => TypeOK
  BY DEF TypeInv
<1> QED
  BY <1>1, <1>2, <1>3, PTL DEF Spec

------------------------------------------------------------------------------
(* Safety of the data, whatever the leases do.  The invariant says of every  *)
(* worker, the ones that lost their lease included, that what it may still   *)
(* write is true: the cursors it holds are committed, a state it read that   *)
(* was final still is, and a worker about to complete the job has evidence   *)
(* that the job may complete.                                                *)

Done(have, n) == \A p \in 1..n : WholePage(p) \subseteq have

Finishing(m) == m.pc = "finish" \/ (m.pc \in {"save", "saving"} /\ m.next = "finish")

MindOK(m, have, lost, r) ==
    /\ Done(have, m.mem) /\ Done(have, m.at)
    /\ m.pc \notin {"idle", "down"} => r.state # "queued"
    /\ m.pc = "saving" => m.seen # "queued" /\ (m.seen \in Terminal => r.state = m.seen)
    /\ m.pc \in {"reply", "replypage"} => <<m.at + 1, "threads">> \in have
    /\ Finishing(m) => Piece \subseteq have \/ m.job \in lost \/ r.warned
    /\ m.pc = "ending" => Piece \subseteq have \/ m.job \in lost \/ m.warned
    /\ m.pc \in {"save", "saving"} /\ m.next = "wrap" => m.what = "warning"

MindsOK == \A w \in Worker : MindOK(wk[w], stored[wk[w].job], gone, row[wk[w].job])

RowsOK == CursorCommitted /\ CompletedMeansCollected /\ PublishedOnce

DataInv == RowsOK /\ MindsOK

\* A row is only enriched: final states and warnings stay, no row is queued again.
RowGrows(r, r2) ==
    /\ r.warned => r2.warned
    /\ r.state # "queued" => r2.state # "queued"
    /\ r.state \in Terminal => r2.state = r.state

Grows ==
    /\ gone \subseteq gone'
    /\ \A j \in Job : stored[j] \subseteq stored'[j] /\ RowGrows(row[j], row'[j])

LEMMA MindGrows ==
  ASSUME NEW m, NEW have, NEW more, NEW lost, NEW lost2, NEW r, NEW r2,
         MindOK(m, have, lost, r), have \subseteq more, lost \subseteq lost2,
         RowGrows(r, r2)
  PROVE  MindOK(m, more, lost2, r2)
  BY DEF MindOK, Done, RowGrows

LEMMA MindsTurn ==
  ASSUME TypeInv, MindsOK, Grows, NEW w \in Worker, NEW n \in Mind, Turn(w, n),
         MindOK(n, stored'[n.job], gone', row'[n.job])
  PROVE  MindsOK'
<1> SUFFICES ASSUME NEW v \in Worker
             PROVE  MindOK(wk'[v], stored'[wk'[v].job], gone', row'[wk'[v].job])
  BY DEF MindsOK
<1>1. CASE v = w
  <2>1. wk'[v] = n
    BY <1>1 DEF Turn, TypeInv, TypeOK
  <2> QED
    BY <2>1
<1>2. CASE v # w
  <2>1. wk'[v] = wk[v]
    BY <1>2 DEF Turn, TypeInv, TypeOK
  <2>2. wk[v].job \in Job
    BY DEF TypeInv, TypeOK, Mind
  <2>3. MindOK(wk[v], stored[wk[v].job], gone, row[wk[v].job])
    BY DEF MindsOK
  <2>4. MindOK(wk[v], stored'[wk[v].job], gone', row'[wk[v].job])
    BY <2>2, <2>3, MindGrows DEF Grows
  <2> QED
    BY <2>1, <2>4
<1> QED
  BY <1>1, <1>2

LEMMA MindsKeep ==
  ASSUME TypeInv, MindsOK, Grows, wk' = wk
  PROVE  MindsOK'
<1> SUFFICES ASSUME NEW v \in Worker
             PROVE  MindOK(wk[v], stored'[wk[v].job], gone', row'[wk[v].job])
  BY DEF MindsOK
<1>1. wk[v].job \in Job
  BY DEF TypeInv, TypeOK, Mind
<1>2. MindOK(wk[v], stored[wk[v].job], gone, row[wk[v].job])
  BY DEF MindsOK
<1> QED
  BY <1>1, <1>2, MindGrows DEF Grows

\* A fresh worker holds nothing that could be wrong.
LEMMA FreshOK ==
  ASSUME NEW have, NEW lost, NEW r
  PROVE  /\ MindOK(Fresh, have, lost, r)
         /\ MindOK([Fresh EXCEPT !.pc = "down"], have, lost, r)
         /\ r.state # "queued" =>
               \A j : MindOK([Fresh EXCEPT !.pc = "begin", !.job = j], have, lost, r)
<1>1. Done(have, 0)
  BY DEF Done
<1> QED
  BY <1>1 DEF Fresh, MindOK, Finishing

\* The steps that keep every cursor and do not open, close or requeue a row.
RowsSame ==
    /\ bumps' = bumps
    /\ \A j \in Job : /\ row'[j].cursor = row[j].cursor
                      /\ row'[j].state \in Terminal => row[j].state \in Terminal
                      /\ RowGrows(row[j], row'[j])

LEMMA RowsKeep ==
  ASSUME TypeInv, TypeOK', RowsOK, Grows, RowsSame
  PROVE  RowsOK'
<1>1. CursorCommitted'
  BY DEF RowsOK, CursorCommitted, Grows, RowsSame
<1>2. CompletedMeansCollected'
  <2> SUFFICES ASSUME NEW j \in Job, row'[j].state = "completed"
               PROVE  stored'[j] = Piece \/ j \in gone'
    BY DEF CompletedMeansCollected
  <2>1. row[j].state = "completed"
    BY DEF RowsSame, RowGrows, Terminal
  <2> QED
    BY <2>1 DEF RowsOK, CompletedMeansCollected, Grows, TypeOK
<1>3. PublishedOnce'
  BY DEF RowsOK, PublishedOnce, RowsSame, RowGrows
<1> QED
  BY <1>1, <1>2, <1>3 DEF RowsOK

LEMMA RenewedKeeps ==
  ASSUME TypeInv, NEW w \in Worker, row' = Renewed(w), bumps' = bumps
  PROVE  RowsSame
<1>1. \A j \in Job : row[j] \in Row
  BY DEF TypeInv, TypeOK
<1>2. wk[w].job \in Job
  BY DEF TypeInv, TypeOK, Mind
<1>3. \A j \in Job : row'[j] = row[j] \/ row'[j] = [row[j] EXCEPT !.lease = "live"]
  BY <1>1, <1>2 DEF Renewed, TypeInv, TypeOK
<1> QED
  BY <1>1, <1>3 DEF RowsSame, RowGrows, Row

\* A worker that left the rows and the data to their owners, or only renewed.
LEMMA QuietTurn ==
  ASSUME TypeInv, TypeOK', DataInv, NEW w \in Worker, NEW n \in Mind, Turn(w, n),
         row' = row \/ row' = Renewed(w), bumps' = bumps,
         gone \subseteq gone', \A j \in Job : stored[j] \subseteq stored'[j],
         n.job \in Job => MindOK(n, stored'[n.job], gone', row'[n.job])
  PROVE  DataInv'
<1>1. RowsSame
  BY RenewedKeeps DEF RowsSame, RowGrows
<1>2. Grows
  BY <1>1 DEF Grows, RowsSame
<1>3. MindsOK'
  BY <1>2, MindsTurn DEF DataInv, Mind
<1> QED
  BY <1>1, <1>2, <1>3, RowsKeep DEF DataInv

\* A transition that overwrites no final state and writes only what is true.
LEMMA TransitionKeeps ==
  ASSUME TypeInv, TypeOK', RowsOK, NEW j \in Job, NEW r \in Row, Transition(j, r),
         RowGrows(row[j], r), Done(stored[j], r.cursor),
         r.state = "completed" => stored[j] = Piece \/ j \in gone
  PROVE  RowsOK' /\ Grows
<1>1. /\ row'[j] = r
      /\ \A k \in Job \ {j} : row'[k] = row[k] /\ bumps'[k] = bumps[k]
      /\ stored' = stored /\ gone' = gone
  BY DEF Transition, TypeInv, TypeOK
<1>2. Grows
  BY <1>1 DEF Grows, RowGrows
<1>3. CursorCommitted'
  BY <1>1 DEF RowsOK, CursorCommitted, Done
<1>4. CompletedMeansCollected'
  BY <1>1 DEF RowsOK, CompletedMeansCollected
<1>5. bumps'[j] = IF r.state \in Terminal THEN 1 ELSE 0
  <2>1. bumps[j] = IF row[j].state \in Terminal THEN 1 ELSE 0
    BY DEF RowsOK, PublishedOnce
  <2> QED
    BY <2>1 DEF Transition, TypeInv, TypeOK, RowGrows
<1>6. PublishedOnce'
  BY <1>1, <1>5 DEF RowsOK, PublishedOnce
<1> QED
  BY <1>2, <1>3, <1>4, <1>6 DEF RowsOK

LEMMA SavedKeeps ==
  ASSUME TypeInv, TypeOK', DataInv, NEW w \in Worker, At(w, "saving"),
         Transition(wk[w].job, SavedRow(wk[w]))
  PROVE  RowsOK' /\ Grows
<1> DEFINE m == wk[w]
           r == row[m.job]
<1>1. m \in Mind /\ m.job \in Job /\ r \in Row /\ SavedRow(m) \in Row
  BY SavedRowType DEF TypeInv, TypeOK, Mind
<1>2. MindOK(m, stored[m.job], gone, r)
  BY DEF DataInv, MindsOK
<1>3. /\ SavedRow(m).state = m.seen
      /\ SavedRow(m).cursor \in {m.mem, r.cursor}
      /\ r.warned => SavedRow(m).warned
  BY <1>1 DEF SavedRow, Row
<1>4. RowGrows(r, SavedRow(m))
  <2>1. m.seen # "queued" /\ (m.seen \in Terminal => r.state = m.seen)
    BY <1>2 DEF MindOK, At
  <2>2. CanMove(r.state, m.seen)
    BY <1>3 DEF Transition
  <2>3. r.state \in Terminal => m.seen = r.state
    BY <2>1, <2>2 DEF CanMove, Allowed, Terminal, Waiting
  <2> QED
    BY <1>3, <2>1, <2>3 DEF RowGrows
<1>5. Done(stored[m.job], SavedRow(m).cursor)
  <2>1. Done(stored[m.job], r.cursor)
    BY <1>1 DEF DataInv, RowsOK, CursorCommitted, Done
  <2> QED
    BY <1>2, <1>3, <2>1 DEF MindOK
<1>6. SavedRow(m).state = "completed" => stored[m.job] = Piece \/ m.job \in gone
  <2>1. SavedRow(m).state = "completed" => r.state = "completed"
    BY <1>2, <1>3 DEF MindOK, At, Terminal
  <2> QED
    BY <1>1, <2>1 DEF DataInv, RowsOK, CompletedMeansCollected
<1> QED
  BY <1>1, <1>4, <1>5, <1>6, TransitionKeeps DEF DataInv

LEMMA SettledKeeps ==
  ASSUME TypeInv, TypeOK', DataInv, NEW w \in Worker, Settling(w),
         Transition(wk[w].job, SettledRow(wk[w]))
  PROVE  RowsOK' /\ Grows
<1> DEFINE m == wk[w]
           r == row[m.job]
           s == SettledRow(m)
<1>1. m \in Mind /\ m.job \in Job /\ r \in Row /\ s \in Row
  BY SettledRowType DEF TypeInv, TypeOK, Mind, Settling
<1>2. MindOK(m, stored[m.job], gone, r)
  BY DEF DataInv, MindsOK
<1>3. /\ s.state \in Waiting \union {"failed", "completed", "completed_with_warnings"}
      /\ s.cursor = r.cursor /\ s.warned = r.warned
      /\ s.state = "completed" => m.pc = "ending" /\ ~m.warned
  BY <1>1 DEF SettledRow, Settling, Row, Waiting
<1>4. RowGrows(r, s)
  <2>1. CanMove(r.state, s.state)
    BY DEF Transition
  <2>2. r.state \in Terminal => s.state = r.state
    BY <1>3, <2>1 DEF CanMove, Allowed, Terminal, Waiting
  <2> QED
    BY <1>3, <2>2 DEF RowGrows, Waiting
<1>5. Done(stored[m.job], s.cursor)
  BY <1>1, <1>3 DEF DataInv, RowsOK, CursorCommitted, Done
<1>6. s.state = "completed" => stored[m.job] = Piece \/ m.job \in gone
  <2>1. stored[m.job] \subseteq Piece
    BY <1>1 DEF TypeInv, TypeOK
  <2> QED
    BY <1>2, <1>3, <2>1 DEF MindOK
<1> QED
  BY <1>1, <1>4, <1>5, <1>6, TransitionKeeps DEF DataInv

\* The steps of a worker that leave every row to its owner.
LEMMA QuietCollect ==
  ASSUME TypeInv, TypeOK', DataInv, NEW w \in Worker,
         \/ Begin(w) \/ LoseLease(w) \/ (\E found \in BOOLEAN : GetDetails(w, found))
         \/ (\E skip \in BOOLEAN : CheckStored(w, skip))
         \/ GetThreads(w) \/ CommentsUnavailable(w) \/ GetReplies(w)
         \/ StoreThreads(w) \/ CommitRefused(w) \/ SaveRead(w) \/ SaveRefused(w)
         \/ Finish(w) \/ SettleRefused(w)
         \/ (\E outcome \in {"quota", "retry", "fail"} : CallFails(w, outcome))
  PROVE  DataInv'
<1> DEFINE m == wk[w]
           r == row[m.job]
           n == wk'[w]
           have == stored[m.job]
<1>m. m \in Mind /\ m.job \in Job /\ r \in Row /\ n \in Mind
  BY DEF TypeInv, TypeOK, Mind
<1>k. MindOK(m, have, gone, r)
  BY DEF DataInv, MindsOK
<1>n. \A k : Turn(w, k) => n = k /\ Turn(w, n)
  BY DEF Turn, TypeInv, TypeOK
<1>g. ASSUME row' = row \/ row' = Renewed(w)
      PROVE  row'[m.job].state = r.state /\ row'[m.job].warned = r.warned
  BY <1>g, <1>m DEF Renewed, TypeInv, TypeOK, Row
<1>1. CASE Begin(w)
  <2> DEFINE k == [m EXCEPT !.pc = "detail", !.ident = r.owner, !.at = r.cursor, !.mem = r.cursor]
  <2>1. Done(have, r.cursor)
    BY <1>m DEF DataInv, RowsOK, CursorCommitted, Done
  <2>2. r.state = "running" => MindOK(k, have, gone, r)
    BY <1>m, <2>1 DEF MindOK, Mind, Finishing
  <2>3. n = IF r.state = "running" THEN k ELSE Fresh
    BY <1>1, <1>n DEF Begin
  <2>4. MindOK(n, stored'[n.job], gone', row'[n.job])
    <3>1. MindOK(Fresh, stored'[n.job], gone', row'[n.job])
      BY FreshOK
    <3>2. k.job = m.job /\ row' = row /\ stored' = stored /\ gone' = gone
      BY <1>1, <1>m DEF Begin, Mind
    <3>3. CASE n = k
      <4>1. r.state = "running"
        BY <1>1, <1>k, <2>3, <3>3, FreshType, <1>m DEF Mind
      <4> QED
        BY <2>2, <3>2, <3>3, <4>1
    <3> QED
      BY <2>3, <3>1, <3>3
  <2> QED
    BY <1>1, <1>m, <2>3, <2>4, QuietTurn DEF Begin
<1>2. CASE LoseLease(w) \/ SettleRefused(w)
  <2>1. n \in {Fresh, [Fresh EXCEPT !.pc = "down"]}
    BY <1>2, <1>n DEF LoseLease, SettleRefused
  <2>2. MindOK(n, stored'[n.job], gone', row'[n.job])
    <3>1. /\ MindOK(Fresh, stored'[n.job], gone', row'[n.job])
          /\ MindOK([Fresh EXCEPT !.pc = "down"], stored'[n.job], gone', row'[n.job])
      BY FreshOK
    <3> QED
      BY <2>1, <3>1
  <2>3. LoseLease(w) => Turn(w, n)
    BY <1>n DEF LoseLease
  <2>4. SettleRefused(w) => Turn(w, n)
    BY <1>n DEF SettleRefused
  <2>5. Turn(w, n)
    BY <1>2, <2>3, <2>4
  <2> QED
    BY <1>2, <1>m, <2>2, <2>5, QuietTurn DEF LoseLease, SettleRefused, Rejected
<1>3. ASSUME NEW found \in BOOLEAN, GetDetails(w, found)
      PROVE  DataInv'
  <2>1. n = Save([m EXCEPT !.mem = 0], "cursor", IF found THEN "check" ELSE "finish")
    BY <1>3, <1>n DEF GetDetails
  <2>2. /\ n.job = m.job /\ n.at = m.at /\ n.mem = 0 /\ n.pc = "save"
        /\ n.next = IF found THEN "check" ELSE "finish"
    BY <1>m, <2>1 DEF Save, Mind
  <2>3. Done(have, 0)
    BY DEF Done
  <2>4. ~found => m.job \in gone'
    BY <1>3, <1>m DEF GetDetails, Mind
  <2>5. MindOK(n, stored'[n.job], gone', row'[n.job])
    BY <1>3, <1>m, <1>k, <1>g, <2>2, <2>3, <2>4 DEF GetDetails, At, MindOK, Finishing
  <2> QED
    BY <1>3, <1>m, <1>n, <2>1, <2>5, QuietTurn DEF GetDetails
<1>4. ASSUME NEW skip \in BOOLEAN, CheckStored(w, skip)
      PROVE  DataInv'
  <2>1. n = IF skip THEN WrapUp(m) ELSE [m EXCEPT !.pc = "thread"]
    BY <1>4, <1>n DEF CheckStored
  <2>2. /\ n.job = m.job /\ n.at = m.at /\ n.mem \in {0, m.mem}
        /\ \/ n.pc = "thread"
           \/ n.pc = "save" /\ n.next = "finish" /\ have = Piece
    BY <1>4, <1>m, <2>1 DEF CheckStored, WrapUp, Save, Mind
  <2>3. Done(have, 0)
    BY DEF Done
  <2>4. MindOK(n, stored'[n.job], gone', row'[n.job])
    BY <1>4, <1>k, <2>2, <2>3 DEF CheckStored, At, MindOK, Finishing
  <2> QED
    BY <1>4, <1>m, <1>n, <2>1, <2>4, QuietTurn DEF CheckStored
<1>5. CASE GetThreads(w) \/ GetReplies(w)
  <2>1. n = [m EXCEPT !.pc = IF At(w, "thread") THEN "page" ELSE "replypage"]
    BY <1>5, <1>n DEF GetThreads, GetReplies, At
  <2>2. /\ n.job = m.job /\ n.at = m.at /\ n.mem = m.mem
        /\ n.pc = IF At(w, "thread") THEN "page" ELSE "replypage"
    BY <1>m, <2>1 DEF Mind
  <2>3. MindOK(n, stored'[n.job], gone', row'[n.job])
    BY <1>5, <1>k, <1>g, <2>2 DEF GetThreads, GetReplies, At, MindOK, Finishing
  <2> QED
    BY <1>5, <1>m, <1>n, <2>3, QuietTurn DEF GetThreads, GetReplies
<1>6. ASSUME NEW outcome \in After, NEW what \in {"cursor", "warning"},
             m.pc \in Upstream, Turn(w, Save(m, what, outcome)),
             outcome # "finish", outcome = "wrap" => what = "warning",
             row' = Renewed(w), UNCHANGED <<stored, gone, bumps>>
      PROVE  DataInv'
  <2>1. n = Save(m, what, outcome)
    BY <1>6, <1>n
  <2>2. /\ n.job = m.job /\ n.at = m.at /\ n.mem = m.mem /\ n.pc = "save"
        /\ n.next = outcome /\ n.what = what
    BY <1>m, <2>1 DEF Save, Mind
  <2>3. MindOK(n, stored'[n.job], gone', row'[n.job])
    BY <1>6, <1>k, <1>g, <2>2 DEF MindOK, Finishing, Upstream
  <2> QED
    BY <1>6, <1>m, <2>1, <2>3, QuietTurn
<1>7. CASE CommentsUnavailable(w)
  BY <1>7, <1>6 DEF CommentsUnavailable, After, At, Upstream
<1>8. ASSUME NEW outcome \in {"quota", "retry", "fail"}, CallFails(w, outcome)
      PROVE  DataInv'
  BY <1>8, <1>6 DEF CallFails, After
<1>9. CASE StoreThreads(w)
  <2>1. n = [m EXCEPT !.pc = "reply"]
    BY <1>9, <1>n DEF StoreThreads
  <2>2. n.job = m.job /\ n.at = m.at /\ n.mem = m.mem /\ n.pc = "reply"
    BY <1>m, <2>1 DEF Mind
  <2>3. /\ stored'[m.job] = have \union {<<m.at + 1, "threads">>}
        /\ \A j \in Job : stored[j] \subseteq stored'[j]
    BY <1>9, <1>m DEF StoreThreads, TypeInv, TypeOK
  <2>4. MindOK(n, stored'[n.job], gone', row'[n.job])
    BY <1>9, <1>k, <2>2, <2>3 DEF StoreThreads, At, MindOK, Finishing, Done
  <2> QED
    BY <1>9, <1>m, <1>n, <2>3, <2>4, QuietTurn DEF StoreThreads
<1>10. CASE CommitRefused(w) \/ SaveRefused(w)
  <2>1. n = [m EXCEPT !.pc = "fail"]
    BY <1>10, <1>n DEF CommitRefused, SaveRefused
  <2>2. n.job = m.job /\ n.at = m.at /\ n.mem = m.mem /\ n.pc = "fail"
    BY <1>m, <2>1 DEF Mind
  <2>3. MindOK(n, stored'[n.job], gone', row'[n.job])
    BY <1>10, <1>k, <2>2
    DEF CommitRefused, SaveRefused, LastPiece, Rejected, At, MindOK, Finishing
  <2> QED
    BY <1>10, <1>m, <1>n, <2>3, QuietTurn DEF CommitRefused, SaveRefused, Rejected
<1>11. CASE SaveRead(w)
  <2>1. n = [m EXCEPT !.pc = "saving", !.seen = r.state]
    BY <1>11, <1>n DEF SaveRead
  <2>2. /\ n.job = m.job /\ n.at = m.at /\ n.mem = m.mem /\ n.pc = "saving"
        /\ n.seen = r.state /\ n.next = m.next /\ n.what = m.what
    BY <1>m, <2>1 DEF Mind
  <2>3. MindOK(n, stored'[n.job], gone', row'[n.job])
    BY <1>11, <1>k, <2>2 DEF SaveRead, At, MindOK, Finishing
  <2> QED
    BY <1>11, <1>m, <1>n, <2>3, QuietTurn DEF SaveRead
<1>12. CASE Finish(w)
  <2>1. n = [m EXCEPT !.pc = "ending", !.warned = r.warned]
    BY <1>12, <1>n DEF Finish
  <2>2. /\ n.job = m.job /\ n.at = m.at /\ n.mem = m.mem /\ n.pc = "ending"
        /\ n.warned = r.warned
    BY <1>m, <2>1 DEF Mind
  <2>3. MindOK(n, stored'[n.job], gone', row'[n.job])
    BY <1>12, <1>k, <2>2 DEF Finish, At, MindOK, Finishing
  <2> QED
    BY <1>12, <1>m, <1>n, <2>3, QuietTurn DEF Finish
<1> QED
  BY <1>1, <1>2, <1>3, <1>4, <1>5, <1>7, <1>8, <1>9, <1>10, <1>11, <1>12

\* The page's last transaction: data and cursor together.
LEMMA CommitKeeps ==
  ASSUME TypeInv, TypeOK', DataInv, NEW w \in Worker, CommitPage(w)
  PROVE  DataInv'
<1> DEFINE m == wk[w]
           r == row[m.job]
           have == stored[m.job]
           p == m.at + 1
           new == IF At(w, "page") THEN WholePage(p) ELSE {<<p, "replies">>}
           done == [m EXCEPT !.at = p, !.mem = Token(p), !.pc = "thread"]
           n == IF p = Pages THEN WrapUp(done) ELSE done
<1>m. m \in Mind /\ m.job \in Job /\ r \in Row
  BY DEF TypeInv, TypeOK, Mind
<1>k. MindOK(m, have, gone, r)
  BY DEF DataInv, MindsOK
<1>p. p \in 1..Pages
  BY <1>m, ConstantsOK DEF CommitPage, LastPiece, At, TypeInv, InRange, Reading, Mind
<1>t. Token(p) \in Cursor /\ Token(p) \in 0..p
  BY <1>p, TokenType DEF Token
<1>1. /\ stored'[m.job] = have \union new
      /\ row'[m.job] = [r EXCEPT !.cursor = Token(p)]
      /\ \A j \in Job \ {m.job} : stored'[j] = stored[j] /\ row'[j] = row[j]
      /\ gone' = gone /\ bumps' = bumps /\ r.state = "running"
  BY <1>m DEF CommitPage, TypeInv, TypeOK
<1>2. /\ row'[m.job].cursor = Token(p)
      /\ row'[m.job].state = r.state /\ row'[m.job].warned = r.warned
  BY <1>m, <1>1 DEF Row
<1>3. WholePage(p) \subseteq have \union new
  BY <1>k DEF CommitPage, LastPiece, At, MindOK, WholePage
<1>4. Done(have \union new, p)
  <2> SUFFICES ASSUME NEW q \in 1..p PROVE WholePage(q) \subseteq have \union new
    BY DEF Done
  <2>1. q \in 1..m.at \/ q = p
    BY <1>m, <1>p DEF Mind
  <2> QED
    BY <1>k, <1>3, <2>1 DEF MindOK, Done
<1>5. Done(have \union new, Token(p))
  BY <1>p, <1>t, <1>4 DEF Done
<1>6. Grows
  BY <1>1, <1>2 DEF Grows, RowGrows
<1>7. RowsOK'
  <2>1. CursorCommitted'
    BY <1>1, <1>2, <1>5 DEF DataInv, RowsOK, CursorCommitted, Done
  <2>2. CompletedMeansCollected'
    BY <1>1, <1>2 DEF DataInv, RowsOK, CompletedMeansCollected
  <2>3. PublishedOnce'
    BY <1>1, <1>2 DEF DataInv, RowsOK, PublishedOnce
  <2> QED
    BY <2>1, <2>2, <2>3 DEF RowsOK
<1>8. done \in Mind /\ done.job = m.job /\ done.at = p /\ done.mem = Token(p) /\ done.pc = "thread"
  <2>1. p \in 0..Pages
    BY <1>p, ConstantsOK
  <2> QED
    BY <1>m, <1>t, <2>1 DEF Mind, Control, Upstream
<1>9. n \in Mind
  BY <1>8, WrapUpType
<1>10. MindOK(n, have \union new, gone, row'[m.job])
  <2>1. CASE p # Pages
    <3>1. n = done
      BY <2>1
    <3> QED
      BY <3>1, <1>1, <1>2, <1>4, <1>5, <1>8 DEF MindOK, Finishing
  <2>2. CASE p = Pages
    <3>1. n = WrapUp(done)
      BY <2>2
    <3>2. n.at = p /\ n.mem = 0 /\ n.pc = "save" /\ n.next = "finish"
      BY <3>1, <1>8 DEF WrapUp, Save, Mind
    <3>3. Piece \subseteq have \union new
      <4>1. \A q \in 1..Pages : WholePage(q) \subseteq have \union new
        BY <1>4, <2>2 DEF Done
      <4>2. \A x \in Piece : \E q \in 1..Pages : x \in WholePage(q)
        BY DEF Piece, WholePage
      <4> QED
        BY <4>1, <4>2
    <3>4. Done(have \union new, 0)
      BY DEF Done
    <3> QED
      BY <1>1, <1>2, <1>4, <3>2, <3>3, <3>4 DEF MindOK, Finishing
  <2> QED
    BY <2>1, <2>2
<1>11. n.job = m.job
  BY <1>8 DEF WrapUp, Save, Mind
<1>12. Turn(w, n)
  BY DEF CommitPage
<1>13. MindOK(n, stored'[n.job], gone', row'[n.job])
  BY <1>1, <1>10, <1>11
<1> QED
  BY <1>6, <1>7, <1>9, <1>12, <1>13, MindsTurn DEF DataInv

\* A save, however stale the state it writes.
LEMMA SaveKeeps ==
  ASSUME TypeInv, TypeOK', DataInv, NEW w \in Worker, SaveWrite(w) \/ SaveAgain(w)
  PROVE  DataInv'
<1> DEFINE m == wk[w]
           r == row[m.job]
           n == wk'[w]
<1>m. m \in Mind /\ m.job \in Job /\ r \in Row /\ n \in Mind /\ SavedRow(m) \in Row
  BY SavedRowType DEF TypeInv, TypeOK, Mind
<1>1. m.pc = "saving" /\ Transition(m.job, SavedRow(m))
  BY DEF SaveWrite, SaveAgain, At
<1>2. RowsOK' /\ Grows
  BY <1>1, SavedKeeps DEF At
<1>3. stored' = stored /\ gone' = gone /\ row'[m.job] = SavedRow(m)
  BY <1>1, <1>m DEF Transition, TypeInv, TypeOK
<1>4. MindOK(m, stored[m.job], gone, row'[m.job])
  <2>1. MindOK(m, stored[m.job], gone, r)
    BY DEF DataInv, MindsOK
  <2> QED
    BY <1>2, <1>m, <2>1, MindGrows DEF Grows
<1>5. \A k : Turn(w, k) => n = k
  BY DEF Turn, TypeInv, TypeOK
<1>6. CASE SaveAgain(w)
  <2>1. n = [m EXCEPT !.pc = "save"]
    BY <1>5, <1>6 DEF SaveAgain
  <2>2. /\ n.job = m.job /\ n.at = m.at /\ n.mem = m.mem /\ n.pc = "save"
        /\ n.next = m.next /\ n.what = m.what
    BY <1>m, <2>1 DEF Mind
  <2>3. MindOK(n, stored'[n.job], gone', row'[n.job])
    BY <1>1, <1>3, <1>4, <2>2 DEF MindOK, Finishing
  <2>4. Turn(w, n)
    BY <1>6, <2>1 DEF SaveAgain
  <2> QED
    BY <1>m, <1>2, <2>3, <2>4, MindsTurn DEF DataInv
<1>7. CASE SaveWrite(w)
  <2>1. n = IF m.next = "wrap" THEN WrapUp(m) ELSE [m EXCEPT !.pc = m.next]
    BY <1>5, <1>7 DEF SaveWrite
  <2>2. ASSUME m.next = "wrap"
        PROVE  MindOK(n, stored'[n.job], gone', row'[n.job])
    <3>1. n.job = m.job /\ n.at = m.at /\ n.mem = 0 /\ n.pc = "save" /\ n.next = "finish"
      BY <1>m, <2>1, <2>2 DEF WrapUp, Save, Mind
    <3>2. row'[m.job].warned
      BY <1>1, <1>3, <1>4, <1>m, <2>2 DEF MindOK, SavedRow, Row
    <3>3. Done(stored[m.job], 0)
      BY DEF Done
    <3> QED
      BY <1>1, <1>3, <1>4, <3>1, <3>2, <3>3 DEF MindOK, Finishing
  <2>3. ASSUME m.next # "wrap"
        PROVE  MindOK(n, stored'[n.job], gone', row'[n.job])
    <3>1. n.job = m.job /\ n.at = m.at /\ n.mem = m.mem /\ n.pc = m.next
      BY <1>m, <2>1, <2>3 DEF Mind, Control, After
    <3>2. m.next \in {"check", "finish", "quota", "retry", "fail"}
      BY <1>m, <2>3 DEF Mind, After
    <3> QED
      BY <1>1, <1>3, <1>4, <3>1, <3>2 DEF MindOK, Finishing
  <2>4. MindOK(n, stored'[n.job], gone', row'[n.job])
    BY <2>2, <2>3
  <2>5. Turn(w, n)
    BY <1>7, <2>1 DEF SaveWrite
  <2> QED
    BY <1>m, <1>2, <2>4, <2>5, MindsTurn DEF DataInv
<1> QED
  BY <1>6, <1>7

LEMMA SettleKeeps ==
  ASSUME TypeInv, TypeOK', DataInv, NEW w \in Worker, Settle(w)
  PROVE  DataInv'
<1>1. RowsOK' /\ Grows
  BY SettledKeeps DEF Settle
<1>2. MindOK(Fresh, stored'[Fresh.job], gone', row'[Fresh.job])
  BY FreshOK
<1>3. Turn(w, Fresh)
  BY DEF Settle
<1> QED
  BY <1>1, <1>2, <1>3, FreshType, MindsTurn DEF DataInv

LEMMA ClaimKeeps ==
  ASSUME TypeInv, TypeOK', DataInv, NEW w \in Worker, NEW j \in Job, Claim(w, j)
  PROVE  DataInv'
<1> DEFINE n == [Fresh EXCEPT !.pc = "begin", !.job = j]
<1>0. row[j] \in Row /\ n \in Mind /\ n.job = j
  BY FreshType DEF TypeInv, TypeOK, Mind, Control
<1>1. /\ row'[j].state = "running" /\ row'[j].cursor = row[j].cursor
      /\ row'[j].warned = row[j].warned /\ row[j].state \notin Terminal
      /\ \A k \in Job \ {j} : row'[k] = row[k]
  BY <1>0 DEF Claim, Claimable, Claimed, TypeInv, TypeOK, Row, Waiting, Terminal
<1>2. RowsSame /\ Grows
  BY <1>1 DEF RowsSame, RowGrows, Grows, Claim, Terminal
<1>3. RowsOK'
  BY <1>2, RowsKeep DEF DataInv
<1>4. MindOK(n, stored'[n.job], gone', row'[n.job])
  <2>1. row'[j].state # "queued"
    BY <1>1
  <2>2. MindOK(n, stored'[j], gone', row'[j])
    BY <2>1, FreshOK
  <2> QED
    BY <1>0, <2>2
<1>5. Turn(w, n)
  BY DEF Claim
<1> QED
  BY <1>0, <1>2, <1>3, <1>4, <1>5, MindsTurn DEF DataInv

LEMMA EnvironmentKeeps ==
  ASSUME TypeInv, TypeOK', DataInv,
         \/ \E w \in Worker : Crash(w) \/ Restart(w)
         \/ \E j \in Job : LeaseExpires(j) \/ ResumeDue(j)
  PROVE  DataInv'
<1>1. ASSUME NEW w \in Worker, Crash(w)
      PROVE  DataInv'
  <2>1. PICK n : n = [Fresh EXCEPT !.pc = "down"]
    OBVIOUS
  <2>2. n \in Mind
    BY <2>1, FreshType DEF Mind, Control
  <2>3. MindOK(n, stored'[n.job], gone', row'[n.job])
    <3>1. MindOK([Fresh EXCEPT !.pc = "down"], stored'[n.job], gone', row'[n.job])
      BY FreshOK
    <3> QED
      BY <2>1, <3>1
  <2>4. Turn(w, n)
    BY <1>1, <2>1 DEF Crash
  <2> QED
    BY <1>1, <2>2, <2>3, <2>4, QuietTurn DEF Crash
<1>2. ASSUME NEW w \in Worker, Restart(w)
      PROVE  DataInv'
  <2>1. PICK n : n = Fresh
    OBVIOUS
  <2>2. n \in Mind
    BY <2>1, FreshType
  <2>3. MindOK(n, stored'[n.job], gone', row'[n.job])
    BY <2>1, FreshOK
  <2>4. Turn(w, n)
    BY <1>2, <2>1 DEF Restart
  <2> QED
    BY <1>2, <2>2, <2>3, <2>4, QuietTurn DEF Restart
<1>3. ASSUME NEW j \in Job, LeaseExpires(j) \/ ResumeDue(j)
      PROVE  DataInv'
  <2>1. /\ row[j] \in Row
        /\ row' = [row EXCEPT ![j].lease = "expired"] \/ row' = [row EXCEPT ![j].resume = "due"]
        /\ UNCHANGED <<stored, gone, bumps, wk>>
    BY <1>3 DEF LeaseExpires, ResumeDue, TypeInv, TypeOK
  <2>2. RowsSame /\ Grows
    BY <2>1 DEF RowsSame, RowGrows, Grows, Row, TypeInv, TypeOK
  <2> QED
    BY <2>1, <2>2, RowsKeep, MindsKeep DEF DataInv
<1> QED
  BY <1>1, <1>2, <1>3

LEMMA DataStep == TypeInv /\ TypeInv' /\ DataInv /\ [Next]_vars => DataInv'
<1> SUFFICES ASSUME TypeInv, TypeInv', DataInv, [Next]_vars PROVE DataInv'
  OBVIOUS
<1>1. CASE UNCHANGED vars
  <2>1. RowsSame /\ Grows
    BY <1>1 DEF vars, RowsSame, RowGrows, Grows
  <2> QED
    BY <1>1, <2>1, RowsKeep, MindsKeep DEF vars, DataInv, TypeInv
<1>2. CASE \E w \in Worker : Poll(w)
  BY <1>1, <1>2 DEF Poll
<1>3. CASE \E w \in Worker : Collect(w) \/ SaveAgain(w)
                             \/ \E outcome \in {"quota", "retry", "fail"} : CallFails(w, outcome)
  BY <1>3, QuietCollect, CommitKeeps, SaveKeeps, SettleKeeps DEF Collect, TypeInv
<1> QED
  BY <1>1, <1>2, <1>3, ClaimKeeps, EnvironmentKeeps DEF Next, TypeInv

LEMMA DataInit == Init => DataInv
<1> SUFFICES ASSUME Init PROVE DataInv
  OBVIOUS
<1>1. RowsOK
  BY ConstantsOK DEF Init, RowsOK, CursorCommitted, CompletedMeansCollected, PublishedOnce,
                     NewRow, Terminal
<1>2. MindsOK
  BY FreshOK DEF Init, MindsOK
<1> QED
  BY <1>1, <1>2 DEF DataInv

LEMMA SafetyInvariant == Spec => [](TypeInv /\ DataInv)
<1>1. Init => TypeInv /\ DataInv
  BY InitType, DataInit
<1>2. TypeInv /\ DataInv /\ [Next]_vars => (TypeInv /\ DataInv)'
  BY TypeStep, RangeStep, DataStep DEF TypeInv
<1> QED
  BY <1>1, <1>2, PTL DEF Spec

\* A stored cursor never runs ahead of the stored pages (persist_comment_page
\* commits both, and a stale checkpoint only writes cursors that were committed).
THEOREM CursorsCommitted == Spec => []CursorCommitted
<1>1. DataInv => CursorCommitted
  BY DEF DataInv, RowsOK
<1> QED
  BY <1>1, SafetyInvariant, PTL

\* A job that completed without a warning has collected everything or its video is gone.
THEOREM CompletionsCollected == Spec => []CompletedMeansCollected
<1>1. DataInv => CompletedMeansCollected
  BY DEF DataInv, RowsOK
<1> QED
  BY <1>1, SafetyInvariant, PTL

\* The terminal effects of transition_job run exactly once for each finished job.
THEOREM PublicationsOnce == Spec => []PublishedOnce
<1>1. DataInv => PublishedOnce
  BY DEF DataInv, RowsOK
<1> QED
  BY <1>1, SafetyInvariant, PTL

------------------------------------------------------------------------------
(* Refinement of JobPromise: every step gathers data, learns that a video is  *)
(* gone, closes one open job, or changes nothing the promise speaks of.       *)

OutcomesSame ==
    /\ bumps' = bumps
    /\ \A j \in Job : /\ row'[j].state \in Terminal => row[j].state \in Terminal
                      /\ row[j].state \in Terminal => row'[j].state = row[j].state

status == [j \in Job |-> IF row[j].state \in Terminal THEN row[j].state ELSE "open"]

LEMMA StatusSame == OutcomesSame => status' = status
  BY DEF OutcomesSame, status

LEMMA SameRows == RowsSame => OutcomesSame
  BY DEF RowsSame, RowGrows, OutcomesSame

LEMMA PromiseStutters ==
  ASSUME OutcomesSame, stored' = stored, gone' = gone
  PROVE  UNCHANGED Promise!vars
  BY StatusSame DEF Promise!vars, OutcomesSame, status

LEMMA PromiseGathers ==
  ASSUME OutcomesSame, gone' = gone, NEW j \in Job, NEW new \in SUBSET Piece,
         stored' = [stored EXCEPT ![j] = @ \union new]
  PROVE  Promise!Next
<1>1. Promise!Gather(j, new)
  BY StatusSame DEF Promise!Gather, OutcomesSame, status
<1> QED
  BY <1>1 DEF Promise!Next

LEMMA PromiseLearns ==
  ASSUME OutcomesSame, stored' = stored, NEW j \in Job, gone' = gone \union {j}
  PROVE  Promise!Next
<1>1. Promise!LearnGone(j)
  BY StatusSame DEF Promise!LearnGone, OutcomesSame, status
<1> QED
  BY <1>1 DEF Promise!Next

LEMMA PromiseTransition ==
  ASSUME TypeInv, TypeInv', RowsOK', Grows, NEW j \in Job, NEW r \in Row, Transition(j, r)
  PROVE  [Promise!Next]_Promise!vars
<1>1. /\ row'[j] = r /\ stored' = stored /\ gone' = gone
      /\ \A k \in Job \ {j} : row'[k] = row[k]
  BY DEF Transition, TypeInv, TypeOK
<1>2. CASE row[j].state \notin Terminal /\ r.state \in Terminal
  <2>1. status[j] = "open" /\ status' = [status EXCEPT ![j] = r.state]
    <3>1. status[j] = "open"
      BY <1>2 DEF status
    <3>2. \A k \in Job : status'[k] = IF k = j THEN r.state ELSE status[k]
      BY <1>1, <1>2 DEF status
    <3> QED
      BY <3>1, <3>2 DEF status
  <2>2. r.state = "completed" => stored[j] = Piece \/ j \in gone
    BY <1>1 DEF RowsOK, CompletedMeansCollected
  <2>3. bumps' = [bumps EXCEPT ![j] = @ + 1]
    BY <1>2 DEF Transition
  <2>4. Promise!Close(j, r.state)
    BY <1>1, <2>1, <2>2, <2>3 DEF Promise!Close, status
  <2> QED
    BY <1>2, <2>4 DEF Promise!Next
<1>3. CASE ~(row[j].state \notin Terminal /\ r.state \in Terminal)
  <2>1. bumps' = bumps
    BY <1>3 DEF Transition, TypeInv, TypeOK
  <2>2. OutcomesSame
    BY <1>1, <1>3, <2>1 DEF OutcomesSame, Grows, RowGrows
  <2> QED
    BY <1>1, <2>2, PromiseStutters
<1> QED
  BY <1>2, <1>3

LEMMA PromiseCollect ==
  ASSUME TypeInv, TypeInv', DataInv, NEW w \in Worker, Collect(w) \/ SaveAgain(w)
  PROVE  [Promise!Next]_Promise!vars
<1> DEFINE m == wk[w]
<1>m. m \in Mind /\ m.job \in Job /\ row[m.job] \in Row
  BY DEF TypeInv, TypeOK, Mind
<1>1. ASSUME row' = row \/ row' = Renewed(w), UNCHANGED <<stored, gone, bumps>>
      PROVE  UNCHANGED Promise!vars
  BY <1>1, RenewedKeeps, SameRows, PromiseStutters DEF OutcomesSame
<1>2. CASE \/ Begin(w) \/ LoseLease(w) \/ (\E skip \in BOOLEAN : CheckStored(w, skip))
           \/ GetThreads(w) \/ CommentsUnavailable(w) \/ GetReplies(w)
           \/ CommitRefused(w) \/ SaveRead(w) \/ SaveRefused(w) \/ Finish(w) \/ SettleRefused(w)
  BY <1>1, <1>2 DEF Begin, LoseLease, CheckStored, GetThreads, CommentsUnavailable, GetReplies,
     CommitRefused, SaveRead, SaveRefused, Finish, SettleRefused, Rejected
<1>3. ASSUME NEW found \in BOOLEAN, GetDetails(w, found)
      PROVE  [Promise!Next]_Promise!vars
  <2>1. OutcomesSame
    BY <1>3, RenewedKeeps, SameRows DEF GetDetails
  <2>2. CASE found
    BY <1>3, <2>1, <2>2, PromiseStutters DEF GetDetails
  <2>3. CASE ~found
    <3>1. gone' = gone \union {m.job}
      BY <1>3, <2>3, <1>m DEF GetDetails, Mind
    <3> QED
      BY <1>3, <1>m, <2>1, <3>1, PromiseLearns DEF GetDetails
  <2> QED
    BY <2>2, <2>3
<1>4. CASE StoreThreads(w)
  <2>1. {<<m.at + 1, "threads">>} \subseteq Piece
    BY <1>4, ConstantsOK DEF StoreThreads, Piece
  <2>2. OutcomesSame
    BY <1>4 DEF StoreThreads, OutcomesSame
  <2> QED
    BY <1>4, <1>m, <2>1, <2>2, PromiseGathers DEF StoreThreads
<1>5. CASE CommitPage(w)
  <2> DEFINE p == m.at + 1
             new == IF At(w, "page") THEN WholePage(p) ELSE {<<p, "replies">>}
  <2>1. p \in 1..Pages
    BY <1>5, <1>m, ConstantsOK DEF CommitPage, LastPiece, At, TypeInv, InRange, Reading, Mind
  <2>2. new \subseteq Piece
    BY <2>1 DEF WholePage, Piece
  <2>3. row' = [row EXCEPT ![m.job].cursor = Token(p)] /\ bumps' = bumps
    BY <1>5 DEF CommitPage
  <2>4. OutcomesSame
    BY <1>m, <2>3 DEF OutcomesSame, Row, TypeInv, TypeOK
  <2>5. stored' = [stored EXCEPT ![m.job] = @ \union new] /\ gone' = gone
    BY <1>5 DEF CommitPage
  <2> QED
    BY <1>m, <2>2, <2>4, <2>5, PromiseGathers
<1>6. CASE SaveWrite(w) \/ SaveAgain(w)
  <2>1. At(w, "saving") /\ Transition(m.job, SavedRow(m)) /\ SavedRow(m) \in Row
    BY <1>6, <1>m, SavedRowType DEF SaveWrite, SaveAgain, TypeInv
  <2>2. RowsOK' /\ Grows
    BY <2>1, SavedKeeps DEF TypeInv
  <2> QED
    BY <1>m, <2>1, <2>2, PromiseTransition
<1>7. CASE Settle(w)
  <2>1. Settling(w) /\ Transition(m.job, SettledRow(m)) /\ SettledRow(m) \in Row
    BY <1>7, <1>m, SettledRowType DEF Settle, Settling, TypeInv
  <2>2. RowsOK' /\ Grows
    BY <2>1, SettledKeeps DEF TypeInv
  <2> QED
    BY <1>m, <2>1, <2>2, PromiseTransition
<1> QED
  BY <1>2, <1>3, <1>4, <1>5, <1>6, <1>7 DEF Collect

LEMMA PromiseStep ==
  TypeInv /\ TypeInv' /\ DataInv /\ [Next]_vars => [Promise!Next]_Promise!vars
<1> SUFFICES ASSUME TypeInv, TypeInv', DataInv, [Next]_vars PROVE [Promise!Next]_Promise!vars
  OBVIOUS
<1>1. CASE UNCHANGED vars
  BY <1>1, PromiseStutters DEF vars, OutcomesSame
<1>2. ASSUME NEW w \in Worker, NEW j \in Job, Claim(w, j)
      PROVE  UNCHANGED Promise!vars
  <2>1. row[j] \in Row
    BY DEF TypeInv, TypeOK
  <2>2. OutcomesSame
    BY <1>2, <2>1 DEF Claim, Claimable, Claimed, OutcomesSame, TypeInv, TypeOK, Row, Waiting, Terminal
  <2> QED
    BY <1>2, <2>2, PromiseStutters DEF Claim
<1>3. ASSUME NEW w \in Worker, NEW outcome \in {"quota", "retry", "fail"}, CallFails(w, outcome)
      PROVE  UNCHANGED Promise!vars
  <2>1. OutcomesSame
    BY <1>3, RenewedKeeps, SameRows DEF CallFails
  <2> QED
    BY <1>3, <2>1, PromiseStutters DEF CallFails
<1>4. ASSUME NEW w \in Worker, Poll(w) \/ Crash(w) \/ Restart(w)
      PROVE  UNCHANGED Promise!vars
  BY <1>4, PromiseStutters DEF Poll, Crash, Restart, vars, OutcomesSame
<1>5. ASSUME NEW j \in Job, LeaseExpires(j) \/ ResumeDue(j)
      PROVE  UNCHANGED Promise!vars
  <2>1. OutcomesSame
    BY <1>5 DEF LeaseExpires, ResumeDue, OutcomesSame, TypeInv, TypeOK, Row
  <2> QED
    BY <1>5, <2>1, PromiseStutters DEF LeaseExpires, ResumeDue
<1> QED
  BY <1>1, <1>2, <1>3, <1>4, <1>5, PromiseCollect DEF Next

\* The workers keep the promise of JobPromise: whatever leases are lost, a job
\* closes once, its outcome stands, and "completed" is only said with reason.
THEOREM WorkersKeepPromise == Spec => PromiseKept
<1>1. Init => Promise!Init
  <2> SUFFICES ASSUME Init PROVE Promise!Init
    OBVIOUS
  <2>1. \A j \in Job : row[j].state = "queued"
    BY DEF Init, NewRow
  <2> QED
    BY <2>1 DEF Init, Promise!Init, Terminal
<1>2. TypeInv /\ DataInv /\ (TypeInv /\ DataInv)' /\ [Next]_vars => [Promise!Next]_Promise!vars
  BY PromiseStep
<1> QED
  BY <1>1, <1>2, SafetyInvariant, PTL DEF Spec, PromiseKept, Promise!Spec

------------------------------------------------------------------------------
(***************************************************************************)
(* What timely leases add.  When no lease expires under a                    *)
(* worker that is still at it, the worker of a job is the owner its row      *)
(* names, under a live lease, and a state it read is still the row's state:  *)
(* that makes it the only one, and every transition it asks for is allowed.  *)
(***************************************************************************)

Holds(m, w, r) ==
    m.pc \notin {"idle", "down"} =>
        /\ r.state = "running" /\ r.owner = w /\ r.lease = "live"
        /\ m.pc # "begin" => m.ident = w
        /\ m.pc = "saving" => m.seen = "running"

\* A row nobody works on says when it can be claimed.
Reclaimable(r) ==
    /\ r.state = "running" => r.lease # "none"
    /\ r.state \in Waiting => r.resume # "none"

HeldInv ==
    /\ \A w \in Worker : Holds(wk[w], w, row[wk[w].job])
    /\ \A j \in Job : Reclaimable(row[j])

LEMMA HeldTurn ==
  ASSUME TypeInv, HeldInv, NEW w \in Worker, Working(w), NEW n \in Mind, Turn(w, n),
         NEW r \in Row, row' = [row EXCEPT ![wk[w].job] = r], Reclaimable(r),
         Holds(n, w, row'[n.job])
  PROVE  HeldInv'
<1> DEFINE j == wk[w].job
<1>1. j \in Job /\ row'[j] = r /\ \A k \in Job \ {j} : row'[k] = row[k]
  BY DEF TypeInv, TypeOK, Mind
<1>2. ASSUME NEW v \in Worker
      PROVE  Holds(wk'[v], v, row'[wk'[v].job])
  <2>1. CASE v = w
    BY <2>1 DEF Turn, TypeInv, TypeOK
  <2>2. CASE v # w
    <3>1. wk'[v] = wk[v] /\ wk[v].job \in Job
      BY <2>2 DEF Turn, TypeInv, TypeOK, Mind
    <3>2. CASE wk[v].job = j
      <4>1. row[j].owner = w
        BY DEF HeldInv, Holds, Working
      <4>2. wk[v].pc \in {"idle", "down"}
        BY <2>2, <3>2, <4>1 DEF HeldInv, Holds
      <4> QED
        BY <3>1, <4>2 DEF Holds
    <3>3. CASE wk[v].job # j
      BY <1>1, <3>1, <3>3 DEF HeldInv
    <3> QED
      BY <3>2, <3>3
  <2> QED
    BY <2>1, <2>2
<1>3. \A k \in Job : Reclaimable(row'[k])
  BY <1>1 DEF HeldInv
<1> QED
  BY <1>2, <1>3 DEF HeldInv

\* A step of a worker that does not disturb its row.
LEMMA HeldQuiet ==
  ASSUME TypeInv, HeldInv, NEW w \in Worker, Working(w), NEW n \in Mind, Turn(w, n), row' = row,
         \/ n.pc \in {"idle", "down"}
         \/ /\ n.job = wk[w].job /\ n.ident = w
            /\ n.pc = "saving" => n.seen = "running"
  PROVE  HeldInv'
<1> DEFINE r == row[wk[w].job]
<1>1. r \in Row /\ wk[w].job \in Job
  BY DEF TypeInv, TypeOK, Mind
<1>2. row' = [row EXCEPT ![wk[w].job] = r]
  BY <1>1 DEF TypeInv, TypeOK
<1>3. Reclaimable(r)
  BY <1>1 DEF HeldInv
<1>4. Holds(n, w, row'[n.job])
  BY DEF HeldInv, Holds, Working
<1> QED
  BY <1>1, <1>2, <1>3, <1>4, HeldTurn

LEMMA HeldFacts ==
  ASSUME TypeInv, HeldInv, NEW w \in Worker, Working(w)
  PROVE  LET m == wk[w]  r == row[m.job] IN
         /\ m \in Mind /\ m.job \in Job /\ r \in Row
         /\ r.state = "running" /\ r.owner = w /\ r.lease = "live"
         /\ m.pc # "begin" => m.ident = w
         /\ m.pc = "saving" => m.seen = "running"
         /\ Renewed(w) = row
<1> DEFINE m == wk[w]
           r == row[m.job]
<1>1. m \in Mind /\ m.job \in Job /\ r \in Row
  BY DEF TypeInv, TypeOK, Mind
<1>2. /\ r.state = "running" /\ r.owner = w /\ r.lease = "live"
      /\ m.pc # "begin" => m.ident = w
      /\ m.pc = "saving" => m.seen = "running"
  BY DEF HeldInv, Holds, Working
<1>3. Renewed(w) = row
  <2>1. [r EXCEPT !.lease = "live"] = r
    BY <1>1, <1>2 DEF Row
  <2> QED
    BY <1>1, <2>1 DEF Renewed, TypeInv, TypeOK
<1> QED
  BY <1>1, <1>2, <1>3

\* The owner's last transition is never refused.
LEMMA SettleAllowed ==
  ASSUME TypeInv, HeldInv, NEW w \in Worker, Settling(w)
  PROVE  /\ CanMove(row[wk[w].job].state, SettledRow(wk[w]).state)
         /\ SettledRow(wk[w]).state # "running"
         /\ Reclaimable(SettledRow(wk[w]))
<1>1. row[wk[w].job] \in Row /\ row[wk[w].job].state = "running"
  BY HeldFacts DEF Settling, Working
<1>2. SettledRow(wk[w]).state \in Waiting \union {"failed", "completed", "completed_with_warnings"}
  BY <1>1 DEF SettledRow, Settling, Row, Waiting
<1>3. SettledRow(wk[w]).state \in Waiting => SettledRow(wk[w]).resume = "later"
  BY <1>1 DEF SettledRow, Settling, Row, Waiting
<1> QED
  BY <1>1, <1>2, <1>3 DEF CanMove, Allowed, Reclaimable, Waiting, Terminal

LEMMA HeldCollect ==
  ASSUME TypeInv, TypeOK', HeldInv, NEW w \in Worker,
         \/ Collect(w) \/ SaveAgain(w) \/ Crash(w)
         \/ \E outcome \in {"quota", "retry", "fail"} : CallFails(w, outcome)
  PROVE  HeldInv'
<1> DEFINE m == wk[w]
           r == row[m.job]
           n == wk'[w]
<1>w. Working(w)
  BY DEF Collect, SaveAgain, Crash, CallFails, Begin, LoseLease, GetDetails, CheckStored,
         GetThreads, CommentsUnavailable, GetReplies, StoreThreads, CommitPage, LastPiece,
         CommitRefused, SaveRead, SaveWrite, SaveRefused, Finish, Settle, SettleRefused,
         Settling, At, Working, Upstream
<1>m. /\ m \in Mind /\ m.job \in Job /\ r \in Row /\ n \in Mind
      /\ r.state = "running" /\ r.owner = w /\ r.lease = "live"
      /\ m.pc # "begin" => m.ident = w
      /\ m.pc = "saving" => m.seen = "running"
      /\ Renewed(w) = row
  BY <1>w, HeldFacts DEF TypeOK
<1>n. \A k : Turn(w, k) => n = k /\ Turn(w, n)
  BY DEF Turn, TypeInv, TypeOK
<1>1. CASE Begin(w)
  <2>1. n = [m EXCEPT !.pc = "detail", !.ident = r.owner, !.at = r.cursor, !.mem = r.cursor]
    BY <1>1, <1>m, <1>n DEF Begin
  <2>2. n.job = m.job /\ n.ident = w /\ n.pc = "detail"
    BY <1>m, <2>1 DEF Mind
  <2> QED
    BY <1>1, <1>w, <1>m, <1>n, <2>2, HeldQuiet DEF Begin
<1>2. CASE LoseLease(w) \/ SettleRefused(w) \/ Crash(w)
  <2>1. n \in {Fresh, [Fresh EXCEPT !.pc = "down"]}
    BY <1>2, <1>n DEF LoseLease, SettleRefused, Crash
  <2>2. n.pc \in {"idle", "down"}
    BY <2>1, FreshType DEF Mind
  <2>3. Turn(w, n)
    <3>1. LoseLease(w) => Turn(w, n)
      BY <1>n DEF LoseLease
    <3>2. SettleRefused(w) => Turn(w, n)
      BY <1>n DEF SettleRefused
    <3>3. Crash(w) => Turn(w, n)
      BY <1>n DEF Crash
    <3> QED
      BY <1>2, <3>1, <3>2, <3>3
  <2> QED
    BY <1>2, <1>w, <1>m, <2>2, <2>3, HeldQuiet DEF LoseLease, SettleRefused, Crash, Rejected
<1>q. ASSUME NEW k, Turn(w, k), row' = row \/ row' = Renewed(w), m.pc # "begin",
             k.job = m.job, k.ident = m.ident, k.pc # "saving" \/ k.seen = "running"
      PROVE  HeldInv'
  BY <1>q, <1>w, <1>m, <1>n, HeldQuiet
<1>s. ASSUME NEW k \in Mind, NEW what, NEW next
      PROVE  Save(k, what, next).job = k.job /\ Save(k, what, next).ident = k.ident
             /\ Save(k, what, next).pc = "save"
  BY DEF Save, Mind
<1>0. 0 \in Cursor
  BY ConstantsOK DEF Cursor
<1>v. ASSUME NEW k \in Mind
      PROVE  WrapUp(k).job = k.job /\ WrapUp(k).ident = k.ident /\ WrapUp(k).pc = "save"
  BY DEF WrapUp, Save, Mind
<1>3. ASSUME NEW found \in BOOLEAN, GetDetails(w, found)
      PROVE  HeldInv'
  <2> DEFINE k == [m EXCEPT !.mem = 0]
  <2>1. k \in Mind /\ k.job = m.job /\ k.ident = m.ident
    BY <1>m, <1>0 DEF Mind
  <2>2. PICK s : Turn(w, s) /\ s = Save(k, "cursor", IF found THEN "check" ELSE "finish")
    BY <1>3 DEF GetDetails
  <2>3. s.job = m.job /\ s.ident = m.ident /\ s.pc = "save"
    <3> HIDE DEF k
    <3> QED
      BY <1>s, <2>1, <2>2
  <2> QED
    BY <1>3, <1>q, <2>2, <2>3 DEF GetDetails, At
<1>4. ASSUME NEW skip \in BOOLEAN, CheckStored(w, skip)
      PROVE  HeldInv'
  <2>1. Turn(w, WrapUp(m)) \/ Turn(w, [m EXCEPT !.pc = "thread"])
    BY <1>4 DEF CheckStored
  <2>2. [m EXCEPT !.pc = "thread"].job = m.job /\ [m EXCEPT !.pc = "thread"].ident = m.ident
        /\ [m EXCEPT !.pc = "thread"].pc = "thread"
    BY <1>m DEF Mind
  <2> QED
    BY <1>4, <1>m, <1>q, <1>v, <2>1, <2>2 DEF CheckStored, At
<1>p. ASSUME NEW pc, pc # "saving", Turn(w, [m EXCEPT !.pc = pc]), m.pc # "begin",
             row' = row \/ row' = Renewed(w)
      PROVE  HeldInv'
  <2>1. [m EXCEPT !.pc = pc].job = m.job /\ [m EXCEPT !.pc = pc].ident = m.ident
        /\ [m EXCEPT !.pc = pc].pc = pc
    BY <1>m DEF Mind
  <2> QED
    BY <1>p, <1>q, <2>1
<1>5. CASE GetThreads(w) \/ GetReplies(w) \/ StoreThreads(w) \/ CommitRefused(w) \/ SaveRefused(w)
  BY <1>5, <1>p DEF GetThreads, GetReplies, StoreThreads, CommitRefused, LastPiece, SaveRefused,
     Rejected, At
<1>6. CASE CommentsUnavailable(w)
  BY <1>6, <1>m, <1>q, <1>s DEF CommentsUnavailable, At
<1>7. ASSUME NEW outcome \in {"quota", "retry", "fail"}, CallFails(w, outcome)
      PROVE  HeldInv'
  BY <1>7, <1>m, <1>q, <1>s DEF CallFails, Upstream
<1>8. CASE CommitPage(w)
  <2> DEFINE p == m.at + 1
             s == [r EXCEPT !.cursor = Token(p)]
             done == [m EXCEPT !.at = p, !.mem = Token(p), !.pc = "thread"]
             k == IF p = Pages THEN WrapUp(done) ELSE done
  <2>1. p \in 1..Pages
    BY <1>8, <1>m, ConstantsOK DEF CommitPage, LastPiece, At, TypeInv, InRange, Reading, Mind
  <2>2. done \in Mind /\ done.job = m.job /\ done.ident = m.ident /\ done.pc = "thread"
    <3>1. p \in 0..Pages /\ Token(p) \in Cursor
      BY <2>1, TokenType, ConstantsOK
    <3> QED
      BY <1>m, <3>1 DEF Mind, Control, Upstream
  <2>3. k \in Mind /\ k.job = m.job /\ k.ident = m.ident /\ k.pc \in {"thread", "save"}
    BY <2>2, <1>v, WrapUpType
  <2>4. s \in Row /\ s.state = "running" /\ s.owner = w /\ s.lease = "live"
    BY <1>m, <2>1, TokenType DEF Row
  <2>5. row' = [row EXCEPT ![m.job] = s] /\ Turn(w, k)
    BY <1>8 DEF CommitPage
  <2>6. row'[k.job] = s
    BY <1>m, <2>3, <2>5 DEF TypeInv, TypeOK
  <2>7. m.pc # "begin"
    BY <1>8 DEF CommitPage, LastPiece, At
  <2>8. Holds(k, w, row'[k.job]) /\ Reclaimable(s)
    BY <1>m, <2>3, <2>4, <2>6, <2>7 DEF Holds, Reclaimable, Waiting
  <2> QED
    BY <1>w, <2>3, <2>4, <2>5, <2>8, HeldTurn
<1>9. CASE SaveRead(w)
  <2>1. /\ [m EXCEPT !.pc = "saving", !.seen = r.state].job = m.job
        /\ [m EXCEPT !.pc = "saving", !.seen = r.state].ident = m.ident
        /\ [m EXCEPT !.pc = "saving", !.seen = r.state].seen = "running"
    BY <1>m DEF Mind
  <2> QED
    BY <1>9, <1>m, <1>q, <2>1 DEF SaveRead, At
<1>10. CASE SaveWrite(w) \/ SaveAgain(w)
  <2> DEFINE s == SavedRow(m)
  <2>1. m.pc = "saving" /\ Transition(m.job, s)
    BY <1>10 DEF SaveWrite, SaveAgain, At
  <2>2. s \in Row /\ s.state = "running" /\ s.owner = w /\ s.lease = "live"
    BY <1>m, <2>1, SavedRowType DEF SavedRow, Row, TypeInv
  <2>3. row' = [row EXCEPT ![m.job] = s]
    BY <2>1 DEF Transition
  <2>4. n.job = m.job /\ n.ident = w /\ n.pc # "saving" /\ Turn(w, n)
    <3>1. CASE Turn(w, WrapUp(m))
      BY <1>m, <1>n, <1>v, <2>1, <3>1
    <3>2. ASSUME NEW pc \in After \union {"save"}, Turn(w, [m EXCEPT !.pc = pc])
          PROVE  n.job = m.job /\ n.ident = w /\ n.pc # "saving" /\ Turn(w, n)
      <4>1. n = [m EXCEPT !.pc = pc] /\ Turn(w, n)
        BY <1>n, <3>2
      <4> QED
        BY <1>m, <2>1, <4>1 DEF Mind, After
    <3>3. m.next \in After
      BY <1>m DEF Mind
    <3> QED
      BY <1>10, <3>1, <3>2, <3>3 DEF SaveWrite, SaveAgain
  <2>5. row'[n.job] = s
    BY <1>m, <2>3, <2>4 DEF TypeInv, TypeOK
  <2>6. Holds(n, w, row'[n.job]) /\ Reclaimable(s)
    BY <2>2, <2>4, <2>5 DEF Holds, Reclaimable, Waiting
  <2> QED
    BY <1>w, <1>m, <2>2, <2>3, <2>4, <2>6, HeldTurn
<1>11. CASE Finish(w)
  <2>1. /\ [m EXCEPT !.pc = "ending", !.warned = r.warned].job = m.job
        /\ [m EXCEPT !.pc = "ending", !.warned = r.warned].ident = m.ident
        /\ [m EXCEPT !.pc = "ending", !.warned = r.warned].pc = "ending"
    BY <1>m DEF Mind
  <2> QED
    BY <1>11, <1>m, <1>q, <2>1 DEF Finish, At
<1>12. CASE Settle(w)
  <2> DEFINE s == SettledRow(m)
  <2>1. s \in Row /\ Reclaimable(s)
    BY <1>12, <1>m, SettledRowType, SettleAllowed DEF Settle, Settling, TypeInv
  <2>2. row' = [row EXCEPT ![m.job] = s] /\ Turn(w, Fresh)
    BY <1>12 DEF Settle, Transition
  <2>3. Holds(Fresh, w, row'[Fresh.job])
    BY FreshType DEF Holds
  <2> QED
    BY <1>w, <2>1, <2>2, <2>3, FreshType, HeldTurn
<1> QED
  BY <1>1, <1>2, <1>3, <1>4, <1>5, <1>6, <1>7, <1>8, <1>9, <1>10, <1>11, <1>12 DEF Collect

LEMMA HeldClaim ==
  ASSUME TypeInv, HeldInv, NEW w \in Worker, NEW j \in Job, Claim(w, j)
  PROVE  HeldInv'
<1> DEFINE n == [Fresh EXCEPT !.pc = "begin", !.job = j]
<1>1. /\ row[j] \in Row /\ row[j].lease # "live"
      /\ row'[j] = Claimed(row[j], w) /\ \A k \in Job \ {j} : row'[k] = row[k]
  BY DEF Claim, Claimable, TypeInv, TypeOK
<1>2. n.pc = "begin" /\ n.job = j
  BY FreshType DEF Mind
<1>3. row'[j].state = "running" /\ row'[j].owner = w /\ row'[j].lease = "live"
  BY <1>1 DEF Claimed, Row
<1>4. ASSUME NEW v \in Worker
      PROVE  Holds(wk'[v], v, row'[wk'[v].job])
  <2>1. CASE v = w
    <3>1. wk'[v] = n
      BY <2>1 DEF Claim, Turn, TypeInv, TypeOK
    <3> QED
      BY <1>2, <1>3, <2>1, <3>1 DEF Holds
  <2>2. CASE v # w
    <3>1. wk'[v] = wk[v] /\ wk[v].job \in Job
      BY <2>2 DEF Claim, Turn, TypeInv, TypeOK, Mind
    <3>2. wk[v].job = j => wk[v].pc \in {"idle", "down"}
      BY <1>1 DEF HeldInv, Holds
    <3> QED
      BY <1>1, <3>1, <3>2 DEF HeldInv, Holds
  <2> QED
    BY <2>1, <2>2
<1>5. \A k \in Job : Reclaimable(row'[k])
  BY <1>1, <1>3 DEF HeldInv, Reclaimable, Waiting
<1> QED
  BY <1>4, <1>5 DEF HeldInv

LEMMA HeldStep ==
  ASSUME TimelyLeases
  PROVE  TypeInv /\ TypeInv' /\ HeldInv /\ [Next]_vars => HeldInv'
<1> SUFFICES ASSUME TypeInv, TypeInv', HeldInv, [Next]_vars PROVE HeldInv'
  OBVIOUS
<1>1. CASE UNCHANGED vars
  BY <1>1 DEF vars, HeldInv
<1>2. ASSUME NEW w \in Worker, Restart(w)
      PROVE  HeldInv'
  <2>1. \A v \in Worker : wk'[v] = IF v = w THEN Fresh ELSE wk[v]
    BY <1>2 DEF Restart, Turn, TypeInv, TypeOK
  <2>2. \A v \in Worker : Holds(wk'[v], v, row[wk'[v].job])
    BY <2>1, FreshType DEF HeldInv, Holds
  <2> QED
    BY <1>2, <2>2 DEF Restart, HeldInv
<1>3. ASSUME NEW j \in Job, LeaseExpires(j) \/ ResumeDue(j)
      PROVE  HeldInv'
  <2>1. wk' = wk /\ row[j] \in Row
    BY <1>3 DEF LeaseExpires, ResumeDue, TypeInv, TypeOK
  <2>2. /\ \A k \in Job \ {j} : row'[k] = row[k]
        /\ row'[j].state = row[j].state /\ row'[j].owner = row[j].owner
        /\ row'[j].lease # row[j].lease => \A w \in Worker : Working(w) => wk[w].job # j
        /\ row[j].lease # "none" => row'[j].lease # "none"
        /\ row[j].resume # "none" => row'[j].resume # "none"
    BY <1>3, <2>1 DEF LeaseExpires, ResumeDue, TypeInv, TypeOK, Row
  <2>3. \A w \in Worker : Holds(wk[w], w, row'[wk[w].job])
    <3> SUFFICES ASSUME NEW w \in Worker, Working(w)
                 PROVE  Holds(wk[w], w, row'[wk[w].job])
      BY DEF Holds, Working
    <3>1. wk[w].job \in Job
      BY DEF TypeInv, TypeOK, Mind
    <3> QED
      BY <2>2, <3>1 DEF HeldInv, Holds
  <2>4. \A k \in Job : Reclaimable(row'[k])
    BY <2>2 DEF HeldInv, Reclaimable
  <2> QED
    BY <2>1, <2>3, <2>4 DEF HeldInv
<1>4. CASE \E w \in Worker : Poll(w)
  BY <1>1, <1>4 DEF Poll
<1> QED
  BY <1>1, <1>2, <1>3, <1>4, HeldCollect, HeldClaim DEF Next, TypeInv

LEMMA HeldInvariant ==
  ASSUME TimelyLeases
  PROVE  Spec => [](TypeInv /\ HeldInv)
<1>1. Init => TypeInv /\ HeldInv
  <2>1. Init => HeldInv
    BY FreshType DEF Init, HeldInv, Holds, Reclaimable, NewRow, Waiting
  <2> QED
    BY <2>1, InitType
<1>2. TypeInv /\ HeldInv /\ [Next]_vars => (TypeInv /\ HeldInv)'
  BY TypeStep, RangeStep, HeldStep DEF TypeInv
<1> QED
  BY <1>1, <1>2, PTL DEF Spec

\* With timely leases two workers are never at work on one job: the lease of
\* claim_next_job and the renewal before each call are enough.
THEOREM ExclusiveCollection == ASSUME TimelyLeases PROVE Spec => []SoleCollector
<1>1. TypeInv /\ HeldInv => SoleCollector
  BY DEF HeldInv, Holds, SoleCollector, Working
<1> QED
  BY <1>1, HeldInvariant, PTL

\* With timely leases no unfinished job is beyond the reach of claim_next_job.
THEOREM NothingStranded == ASSUME TimelyLeases PROVE Spec => []NotStranded
<1>1. TypeInv /\ HeldInv => NotStranded
  <2> SUFFICES ASSUME TypeInv, HeldInv, NEW j \in Job
               PROVE  \/ row[j].state \in Terminal \union {"queued"}
                      \/ row[j].state = "running" /\ row[j].lease # "none"
                      \/ row[j].state \in Waiting /\ row[j].resume # "none"
    BY DEF NotStranded
  <2>1. row[j].state \in JobState
    BY DEF TypeInv, TypeOK, Row
  <2>2. Reclaimable(row[j])
    BY DEF HeldInv
  <2> QED
    BY <2>1, <2>2 DEF Reclaimable, JobState
<1> QED
  BY <1>1, HeldInvariant, PTL

\* Only a crash and a refused last transition end a worker process.
LEMMA DownSteps ==
  ASSUME TypeInv, NEW w \in Worker, Next, wk'[w].pc = "down", wk[w].pc # "down"
  PROVE  Crash(w) \/ SettleRefused(w)
<1> DEFINE m == wk[w]
<1>m. m \in Mind
  BY DEF TypeInv, TypeOK
<1>n. \A v \in Worker : \A k : Turn(v, k) => v = w /\ k.pc = "down"
  BY DEF Turn, TypeInv, TypeOK
<1>1. ASSUME NEW v \in Worker, NEW j \in Job
      PROVE  ~Claim(v, j)
  <2>1. [Fresh EXCEPT !.pc = "begin", !.job = j].pc = "begin"
    BY FreshType DEF Mind
  <2> QED
    BY <1>n, <2>1 DEF Claim
<1>2. ASSUME NEW v \in Worker, NEW outcome
      PROVE  ~CallFails(v, outcome)
  <2>1. Save(m, "cursor", outcome).pc = "save"
    BY <1>m DEF Save, Mind
  <2> QED
    BY <1>n, <2>1 DEF CallFails
<1>3. ASSUME NEW v \in Worker
      PROVE  ~Poll(v) /\ ~LoseLease(v) /\ ~Settle(v) /\ ~Restart(v)
  BY <1>n, FreshType DEF Poll, vars, LoseLease, Settle, Restart
<1>4. ASSUME NEW v \in Worker
      PROVE  ~Begin(v)
  <2>1. \A i, c, d : [m EXCEPT !.pc = "detail", !.ident = i, !.at = c, !.mem = d].pc = "detail"
    BY <1>m DEF Mind
  <2> QED
    <3> SUFFICES ASSUME Begin(v) PROVE FALSE
      OBVIOUS
    <3>1. v = w
      BY <1>n DEF Begin
    <3>2. Turn(w, Fresh) \/ \E i, c, d :
             Turn(w, [m EXCEPT !.pc = "detail", !.ident = i, !.at = c, !.mem = d])
      BY <3>1 DEF Begin
    <3> QED
      BY <1>n, <2>1, <3>2, FreshType
<1>z. 0 \in Cursor
  BY ConstantsOK DEF Cursor
<1>s. \A k \in Mind : \A what, next : Save(k, what, next).pc # "down"
  BY DEF Save, Mind
<1>u. \A k \in Mind : WrapUp(k).pc # "down"
  BY DEF WrapUp, Save, Mind
<1>p. \A pc : [m EXCEPT !.pc = pc].pc = pc
  BY <1>m DEF Mind
<1>5. ASSUME NEW v \in Worker, NEW found \in BOOLEAN
      PROVE  ~GetDetails(v, found)
  <2>1. [m EXCEPT !.mem = 0] \in Mind
    BY <1>m, <1>z DEF Mind
  <2> QED
    BY <1>n, <1>s, <2>1 DEF GetDetails
<1>6. ASSUME NEW v \in Worker, NEW skip \in BOOLEAN
      PROVE  ~CheckStored(v, skip)
  BY <1>n, <1>m, <1>u, <1>p DEF CheckStored
<1>7. ASSUME NEW v \in Worker
      PROVE  /\ ~GetThreads(v) /\ ~GetReplies(v) /\ ~StoreThreads(v)
             /\ ~CommitRefused(v) /\ ~SaveRefused(v) /\ ~SaveAgain(v)
  BY <1>n, <1>p DEF GetThreads, GetReplies, StoreThreads, CommitRefused, SaveRefused, SaveAgain
<1>8. ASSUME NEW v \in Worker
      PROVE  ~CommentsUnavailable(v)
  BY <1>n, <1>m, <1>s DEF CommentsUnavailable
<1>9. ASSUME NEW v \in Worker
      PROVE  ~SaveRead(v) /\ ~Finish(v)
  <2>1. \A x : /\ [m EXCEPT !.pc = "saving", !.seen = x].pc = "saving"
               /\ [m EXCEPT !.pc = "ending", !.warned = x].pc = "ending"
    BY <1>m DEF Mind
  <2> QED
    BY <1>n, <2>1 DEF SaveRead, Finish
<1>10. ASSUME NEW v \in Worker, CommitPage(v)
       PROVE  FALSE
  <2> DEFINE p == m.at + 1
             done == [m EXCEPT !.at = p, !.mem = Token(p), !.pc = "thread"]
  <2>1. v = w
    BY <1>10, <1>n DEF CommitPage
  <2>2. p \in 1..Pages
    BY <1>10, <1>m, <2>1, ConstantsOK
    DEF CommitPage, LastPiece, At, TypeInv, InRange, Reading, Mind
  <2>3. p \in 0..Pages /\ Token(p) \in Cursor
    BY <2>2, TokenType, ConstantsOK
  <2>4. done \in Mind /\ done.pc # "down"
    BY <1>m, <2>3 DEF Mind, Control, Upstream
  <2> QED
    BY <1>10, <1>n, <1>u, <2>1, <2>4 DEF CommitPage
<1>11. ASSUME NEW v \in Worker, SaveWrite(v)
       PROVE  FALSE
  <2>1. v = w
    BY <1>11, <1>n DEF SaveWrite
  <2>2. m.next # "down"
    BY <1>m DEF Mind, After
  <2> QED
    BY <1>11, <1>n, <1>m, <1>u, <1>p, <2>1, <2>2 DEF SaveWrite
<1>12. ASSUME NEW v \in Worker, Crash(v) \/ SettleRefused(v)
       PROVE  v = w
  BY <1>12, <1>n DEF Crash, SettleRefused
<1>13. ASSUME NEW j \in Job
       PROVE  ~LeaseExpires(j) /\ ~ResumeDue(j)
  BY DEF LeaseExpires, ResumeDue
<1> QED
  BY <1>1, <1>2, <1>3, <1>4, <1>5, <1>6, <1>7, <1>8, <1>9, <1>10, <1>11, <1>12, <1>13
  DEF Next, Collect

\* With timely leases the runner's last transition is accepted: a worker
\* process ends by a crash, never by an uncaught InvalidStateTransitionError.
THEOREM NoRefusedSettlement == ASSUME TimelyLeases PROVE Spec => DownOnlyByCrash
<1> DEFINE Safe == \A w \in Worker : wk'[w].pc = "down" /\ wk[w].pc # "down" => faults' = faults + 1
<1>1. ASSUME TypeInv, HeldInv, NEW w \in Worker, Next,
             wk'[w].pc = "down", wk[w].pc # "down"
      PROVE  faults' = faults + 1
  <2>1. ~SettleRefused(w)
    BY <1>1, SettleAllowed DEF SettleRefused, Rejected
  <2> QED
    BY <1>1, <2>1, DownSteps DEF Crash, Fault
<1>2. TypeInv /\ HeldInv /\ [Next]_vars => [Safe]_vars
  BY <1>1 DEF vars
<1> QED
  BY <1>2, HeldInvariant, PTL DEF Spec, DownOnlyByCrash

==============================================================================
