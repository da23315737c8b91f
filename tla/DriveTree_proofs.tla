-------------------------- MODULE DriveTree_proofs --------------------------
(***************************************************************************)
(* The drive's tree is well typed, parents exist whatever requests run     *)
(* together, shares have entries, and as long as no two transactions have  *)
(* uncommitted moves no folder gets below itself.                          *)
(***************************************************************************)
EXTENDS DriveTree, TLAPS

Rows == [Entries -> Row]

\* S holds with an entry the folder it is in.
UpwardClosed(rows, S) ==
    \A x \in S : rows[x].parent # NULL => rows[x].parent \in S

-----------------------------------------------------------------------------
(* The recursive queries *)

\* The chain of parents (ensure_active_entry, the parent trigger) starts with
\* the entry and holds the folder of each of its members.
LEMMA AncestorsClosed ==
    ASSUME NEW rows \in Rows, NEW e \in Entries
    PROVE  /\ Ancestors(rows, e) \in SUBSET Entries
           /\ e \in Ancestors(rows, e)
           /\ UpwardClosed(rows, Ancestors(rows, e))
<1>1. Ancestors(rows, e) \in SUBSET Entries /\ e \in Ancestors(rows, e)
  BY DEF Ancestors
<1>2. ASSUME NEW x \in Ancestors(rows, e), rows[x].parent # NULL
      PROVE  rows[x].parent \in Ancestors(rows, e)
  <2>1. x \in Entries /\ rows[x].parent \in Entries
    BY <1>1, <1>2 DEF Rows, Row
  <2>2. SUFFICES ASSUME NEW S \in SUBSET Entries, e \in S,
                        \A y \in S : rows[y].parent # NULL => rows[y].parent \in S
                 PROVE  rows[x].parent \in S
    BY <2>1 DEF Ancestors
  <2>3. x \in S
    BY <2>2 DEF Ancestors
  <2> QED BY <2>2, <2>3, <1>2
<1> QED BY <1>1, <1>2 DEF UpwardClosed

\* It holds nothing else: it is part of every set with these properties.
LEMMA AncestorsLeast ==
    ASSUME NEW rows \in Rows, NEW e \in Entries, NEW S \in SUBSET Entries,
           e \in S, UpwardClosed(rows, S)
    PROVE  Ancestors(rows, e) \subseteq S
BY DEF Ancestors, UpwardClosed

\* Deleting entries, or taking them to the top, makes no cycle.
LEMMA FewerEdges ==
    ASSUME NEW rows \in Rows, NEW new \in Rows, NoCycle(rows),
           \A x \in Entries : new[x].parent \in {rows[x].parent, NULL}
    PROVE  NoCycle(new)
<1> SUFFICES ASSUME NEW x \in Entries, new[x].parent # NULL
             PROVE  x \notin Ancestors(new, new[x].parent)
  BY DEF NoCycle
<1> DEFINE y == rows[x].parent
<1>1. y = new[x].parent /\ y \in Entries
  BY DEF Rows, Row
<1>2. x \notin Ancestors(rows, y)
  BY <1>1 DEF NoCycle
<1>3. Ancestors(rows, y) \in SUBSET Entries /\ y \in Ancestors(rows, y)
      /\ UpwardClosed(new, Ancestors(rows, y))
  BY <1>1, AncestorsClosed DEF UpwardClosed
<1> QED BY <1>1, <1>2, <1>3, AncestorsLeast

\* Putting an entry below a folder that is not below it makes no cycle: what the
\* handlers' folder_contains and the parent trigger check.
LEMMA MoveKeepsTree ==
    ASSUME NEW rows \in Rows, NEW new \in Rows, NoCycle(rows),
           NEW e \in Entries, NEW p \in Entries,
           e \notin Ancestors(rows, p),
           new[e].parent = p,
           \A x \in Entries \ {e} : new[x].parent = rows[x].parent
    PROVE  NoCycle(new)
<1> DEFINE B == Ancestors(rows, p)
<1>1. B \in SUBSET Entries /\ p \in B /\ UpwardClosed(rows, B)
  BY AncestorsClosed
<1> SUFFICES ASSUME NEW x \in Entries, new[x].parent # NULL
             PROVE  x \notin Ancestors(new, new[x].parent)
  BY DEF NoCycle
<1>2. CASE x = e
  <2>1. UpwardClosed(new, B)
    BY <1>1 DEF UpwardClosed
  <2> QED BY <1>1, <1>2, <2>1, AncestorsLeast
<1>3. CASE x # e
  <2> DEFINE y == rows[x].parent
             A == Ancestors(rows, y)
  <2>1. y = new[x].parent /\ y \in Entries
    BY <1>3 DEF Rows, Row
  <2>2. A \in SUBSET Entries /\ y \in A /\ UpwardClosed(rows, A) /\ x \notin A
    BY <2>1, AncestorsClosed DEF NoCycle
  <2>3. CASE e \notin A
    <3>1. UpwardClosed(new, A)
      BY <2>2, <2>3 DEF UpwardClosed
    <3> QED BY <2>1, <2>2, <3>1, AncestorsLeast
  <2>4. CASE e \in A
    <3>1. x \notin B
      <4> SUFFICES ASSUME x \in B PROVE FALSE
        OBVIOUS
      <4>1. y \in B
        BY <1>1, <2>1 DEF UpwardClosed
      <4>2. A \subseteq B
        BY <4>1, <1>1, <2>1, AncestorsLeast
      <4> QED BY <4>2, <2>4
    <3>2. A \cup B \in SUBSET Entries /\ y \in A \cup B /\ x \notin A \cup B
      BY <1>1, <2>2, <3>1
    <3>3. UpwardClosed(new, A \cup B)
      BY <1>1, <2>2 DEF UpwardClosed
    <3>4. Ancestors(new, y) \subseteq A \cup B
      BY <2>1, <3>2, <3>3, AncestorsLeast
    <3> QED BY <2>1, <3>2, <3>4
  <2> QED BY <2>3, <2>4
<1> QED BY <1>2, <1>3

\* An entry that is no one's parent is above nothing else: a file, or a new row.
LEMMA LeafAboveNothing ==
    ASSUME NEW rows \in Rows, NEW e \in Entries, NEW p \in Entries, p # e,
           \A x \in Entries : rows[x].parent # e
    PROVE  e \notin Ancestors(rows, p)
<1>1. UpwardClosed(rows, Entries \ {e})
  BY DEF UpwardClosed, Rows, Row
<1> QED BY <1>1, AncestorsLeast

-----------------------------------------------------------------------------
(* Types *)

\* The idle handler and the missing row have their types.
LEMMA IdleType == Idle \in Request /\ NoRow \in Row
BY DEF Idle, Request, NoRow, Row

\* What a statement sees is a table of rows.
LEMMA SeenType ==
    ASSUME TypeOK, NEW r \in Requests
    PROVE  /\ Seen(r) \in Rows
           /\ entry \in Rows
           /\ \A e \in Entries : Seen(r)[e] \in Row
BY DEF TypeOK, Seen, Written, Rows, Request

\* The same of what is seen after a step.
LEMMA SeenTypeNext ==
    ASSUME TypeOK', NEW r \in Requests
    PROVE  Seen(r)' \in Rows /\ entry' \in Rows
BY DEF TypeOK, Seen, Written, Rows, Request

\* Changing one column leaves a row a row.
LEMMA RowColumns ==
    ASSUME NEW row \in Row
    PROVE  /\ \A n \in Names : [row EXCEPT !.name = n] \in Row
           /\ \A p \in Entries \cup {NULL} : [row EXCEPT !.parent = p] \in Row
           /\ \A b \in BOOLEAN : [row EXCEPT !.trashed = b] \in Row
           /\ [row EXCEPT !.system = TRUE] \in Row
BY DEF Row

\* Writing a row, to the table or to a transaction; without an id nothing is
\* written.
LEMMA TableUpdate ==
    ASSUME NEW T, NEW rows \in [Entries -> T], NEW e, NEW row,
           e \in Entries => row \in T
    PROVE  [rows EXCEPT ![e] = row] \in [Entries -> T]
OBVIOUS

\* A handler whose transaction has written a row is still well typed.
LEMMA WroteType ==
    ASSUME TypeOK, NEW r \in Requests, NEW e, NEW row, e \in Entries => row \in Row
    PROVE  Wrote(r, e, row) \in Request
<1>1. [req[r].writes EXCEPT ![e] = row] \in [Entries -> Row \cup {NULL}]
  BY TableUpdate DEF TypeOK, Request
<1>2. req[r] \in Request
  BY DEF TypeOK
<1> DEFINE w == [req[r].writes EXCEPT ![e] = row]
<1>3. Wrote(r, e, row) = [req[r] EXCEPT !.writes = w]
  BY DEF Wrote
<1> HIDE DEF w
<1>4. w \in [Entries -> Row \cup {NULL}]
  BY <1>1 DEF w
<1> QED BY <1>2, <1>3, <1>4 DEF Request

\* The same when the row and its id are known: the row is among its writes.
LEMMA WroteRow ==
    ASSUME TypeOK, NEW r \in Requests, NEW e \in Entries, NEW row \in Row
    PROVE  /\ Wrote(r, e, row) \in Request
           /\ Wrote(r, e, row).writes = [req[r].writes EXCEPT ![e] = row]
BY WroteType DEF TypeOK, Wrote, Request

\* Types are kept by every request.
LEMMA TypeRequest ==
    ASSUME TypeOK, NEW r \in Requests, RequestStep(r)
    PROVE  TypeOK'
<1> USE IdleType, SeenType
<1>1. ASSUME NEW p \in Entries \cup {NULL}, CreateCheck(r, p) PROVE TypeOK'
  BY <1>1 DEF TypeOK, CreateCheck, Idle, Request
<1>2. ASSUME NEW e \in Entries, NEW kind \in {"file", "folder"}, NEW n \in Names,
             CreateInsert(r, e, kind, n)
      PROVE TypeOK'
  BY <1>2 DEF TypeOK, CreateInsert, Return, Row, Request
<1>3. ASSUME NEW e \in Entries, RenameCheck(r, e) PROVE TypeOK'
  BY <1>3 DEF TypeOK, RenameCheck, Idle, Request
<1>4. ASSUME NEW n \in Names, RenameUpdate(r, n) PROVE TypeOK'
  <2>1. req[r].id \in Entries =>
            [entry[req[r].id] EXCEPT !.name = n] \in Row
    BY RowColumns DEF TypeOK
  <2>2. entry' \in [Entries -> Row]
    BY <1>4, <2>1, TableUpdate DEF TypeOK, RenameUpdate
  <2> QED BY <1>4, <2>2 DEF TypeOK, RenameUpdate, Return
<1>5. ASSUME NEW e \in Entries, NEW p \in Entries \cup {NULL}, MoveCheck(r, e, p)
      PROVE TypeOK'
  BY <1>5 DEF TypeOK, MoveCheck, Idle, Request
<1>6. ASSUME MoveContains(r) PROVE TypeOK'
  BY <1>6 DEF TypeOK, MoveContains, Request
<1>7. ASSUME MoveUpdate(r) PROVE TypeOK'
  <2> DEFINE w == Wrote(r, req[r].id, Moved(r, req[r].id, req[r].to))
  <2>1. req[r].id \in Entries => Moved(r, req[r].id, req[r].to) \in Row
    BY RowColumns DEF TypeOK, Moved, Request
  <2>2. w \in Request
    BY <2>1, WroteType
  <2>3. req' = [req EXCEPT ![r] = [w EXCEPT !.pc = "commit"]]
    BY <1>7 DEF MoveUpdate
  <2> HIDE DEF w
  <2>4. [w EXCEPT !.pc = "commit"] \in Request
    BY <2>2 DEF Request
  <2> QED BY <1>7, <2>3, <2>4 DEF TypeOK, MoveUpdate
<1>8. ASSUME Commit(r) PROVE TypeOK'
  BY <1>8 DEF TypeOK, Commit, Return, Rows
<1>9. ASSUME NEW ids \in SUBSET Entries, NEW p \in Entries \cup {NULL},
             BatchMove(r, ids, p)
      PROVE TypeOK'
  BY <1>9 DEF TypeOK, BatchMove, Idle, Request
<1>10. ASSUME NEW ids \in SUBSET Entries, BatchTrash(r, ids) PROVE TypeOK'
  BY <1>10 DEF TypeOK, BatchTrash, Idle, Request
<1>11. ASSUME NEW e \in Entries, TrashEntry(r, e) PROVE TypeOK'
  BY <1>11 DEF TypeOK, TrashEntry, Idle, Request
<1>12. ASSUME NEW e \in Entries, BatchCheck(r, e) PROVE TypeOK'
  <2> DEFINE pc == IF req[r].pc = "move" THEN "moving" ELSE "trashing"
  <2>1. req' = [req EXCEPT ![r] = [req[r] EXCEPT !.pc = pc, !.id = e]]
    BY <1>12 DEF BatchCheck
  <2> HIDE DEF pc
  <2>2. pc \in {"moving", "trashing"}
    BY DEF pc
  <2>3. [req[r] EXCEPT !.pc = pc, !.id = e] \in Request
    BY <2>2 DEF TypeOK, Request
  <2> QED BY <1>12, <2>1, <2>3 DEF TypeOK, BatchCheck
<1>13. ASSUME BatchMoveOne(r) PROVE TypeOK'
  <2> DEFINE w == Wrote(r, req[r].id, Moved(r, req[r].id, req[r].to))
  <2>1. req[r].id \in Entries => Moved(r, req[r].id, req[r].to) \in Row
    BY RowColumns DEF TypeOK, Moved, Request
  <2>2. w \in Request
    BY <2>1, WroteType
  <2>3. req' = [req EXCEPT ![r] =
                  [w EXCEPT !.pc = "move", !.ids = w.ids \ {req[r].id}]]
    BY <1>13 DEF BatchMoveOne
  <2> HIDE DEF w
  <2>4. [w EXCEPT !.pc = "move", !.ids = w.ids \ {req[r].id}] \in Request
    BY <2>2 DEF Request
  <2> QED BY <1>13, <2>3, <2>4 DEF TypeOK, BatchMoveOne
<1>14. ASSUME TrashOne(r) PROVE TypeOK'
  <2> DEFINE row == [Seen(r)[req[r].id] EXCEPT !.trashed = TRUE]
             w == Wrote(r, req[r].id, row)
             R == RevokedShares(Seen(r), req[r].id)
  <2>1. req[r].id \in Entries => row \in Row
    BY RowColumns
  <2>2. w \in Request /\ R \subseteq Shares
    BY <2>1, WroteType DEF RevokedShares
  <2>3. req' = [req EXCEPT ![r] =
                  [w EXCEPT !.pc = "trash", !.ids = w.ids \ {req[r].id},
                            !.revokes = w.revokes \cup R]]
    BY <1>14 DEF TrashOne
  <2> HIDE DEF w, R, row
  <2>4. [w EXCEPT !.pc = "trash", !.ids = w.ids \ {req[r].id},
                  !.revokes = w.revokes \cup R] \in Request
    BY <2>2 DEF Request
  <2> QED BY <1>14, <2>3, <2>4 DEF TypeOK, TrashOne
<1>15. ASSUME NEW e \in Entries, RestoreCheck(r, e) PROVE TypeOK'
  BY <1>15 DEF TypeOK, RestoreCheck, Idle, Request
<1>16. ASSUME RestoreUpdate(r) PROVE TypeOK'
  <2>1. req[r].id \in Entries =>
            [entry[req[r].id] EXCEPT !.trashed = FALSE] \in Row
    BY RowColumns DEF TypeOK
  <2>2. entry' \in [Entries -> Row]
    BY <1>16, <2>1, TableUpdate DEF TypeOK, RestoreUpdate
  <2> QED BY <1>16, <2>2 DEF TypeOK, RestoreUpdate, Return
<1>17. ASSUME NEW e \in Entries, PurgeLock(r, e) PROVE TypeOK'
  BY <1>17 DEF TypeOK, PurgeLock, Idle, Request
<1>18. ASSUME PurgeList(r) PROVE TypeOK'
  <2> DEFINE S == Subtree(entry, req[r].id)
  <2>1. req' = [req EXCEPT ![r] = [req[r] EXCEPT !.pc = "delete", !.ids = S]]
    BY <1>18 DEF PurgeList
  <2>2. S \subseteq Entries
    BY DEF Subtree
  <2> HIDE DEF S
  <2>3. [req[r] EXCEPT !.pc = "delete", !.ids = S] \in Request
    BY <2>2 DEF TypeOK, Request
  <2> QED BY <1>18, <2>1, <2>3 DEF TypeOK, PurgeList
<1>19. ASSUME PurgeDelete(r) PROVE TypeOK'
  BY <1>19 DEF TypeOK, PurgeDelete, Return
<1>20. ASSUME NEW e \in Entries, PhotosAdopt(r, e) PROVE TypeOK'
  <2>1. [entry[e] EXCEPT !.system = TRUE] \in Row
    BY RowColumns DEF TypeOK
  <2> QED BY <1>20, <2>1 DEF TypeOK, PhotosAdopt
<1>21. ASSUME NEW e \in Entries, NEW n \in Names, PhotosInsert(r, e, n) PROVE TypeOK'
  BY <1>21 DEF TypeOK, PhotosInsert, Row
<1>22. ASSUME NEW e \in Entries, ShareCheck(r, e) PROVE TypeOK'
  BY <1>22 DEF TypeOK, ShareCheck, Idle, Request
<1>23. ASSUME NEW s \in Shares, ShareInsert(r, s) PROVE TypeOK'
  BY <1>23 DEF TypeOK, ShareInsert, Return, Request
<1>24. ASSUME RequestFail(r) PROVE TypeOK'
  BY <1>24 DEF TypeOK, RequestFail, Return
<1> QED
  BY <1>1, <1>2, <1>3, <1>4, <1>5, <1>6, <1>7, <1>8, <1>9, <1>10, <1>11, <1>12,
     <1>13, <1>14, <1>15, <1>16, <1>17, <1>18, <1>19, <1>20, <1>21, <1>22, <1>23,
     <1>24 DEF RequestStep

\* Types are kept by every step.
LEMMA TypeStep ==
    ASSUME TypeOK, [Next]_vars
    PROVE  TypeOK'
<1>1. ASSUME NEW s \in Shares, RevokeShare(s) PROVE TypeOK'
  BY <1>1 DEF TypeOK, RevokeShare
<1>2. CASE UNCHANGED vars
  BY <1>2 DEF TypeOK, vars
<1> QED BY <1>1, <1>2, TypeRequest DEF Next

\* The rows of drive_entries and shares and the state of every handler have
\* their types, also the uncommitted rows.
THEOREM TreeTypeCorrectness == Spec => []TypeOK
<1>1. Init => TypeOK
  BY IdleType DEF Init, TypeOK
<1>2. TypeOK /\ [Next]_vars => TypeOK'
  BY TypeStep
<1> QED BY <1>1, <1>2, PTL DEF Spec

-----------------------------------------------------------------------------
(* The invariant.  RowsInv holds whatever requests run together; that there *)
(* is no cycle needs commits of moves that do not overlap.                  *)

RowsInv == ParentsExist /\ ControlInv /\ UncommittedInv

CycleInv == NoCycle(entry) /\ \A r \in Requests : NoCycle(Seen(r))

\* What a handler may go on to do (ControlInv of one handler).
Controlled(q) ==
    req[q].pc \in {"contains", "update", "moving", "trashing"} =>
         req[q].id \in Entries

\* A transaction goes on with what it has written, or ends without it.
KeptOrEnded(q) ==
    \/ req'[q].writes = req[q].writes
    \/ \A e \in Entries : req'[q].writes[e] = NULL

\* A step that inserts, deletes and moves nothing.
Quiet ==
    /\ \A e \in Entries : /\ entry'[e].kind = entry[e].kind
                          /\ entry'[e].parent = entry[e].parent
    /\ \A q \in Requests : KeptOrEnded(q) /\ Controlled(q)'

\* A step that inserts row e below a folder.
Inserted(e, row) ==
    /\ entry[e].kind = "none"
    /\ row.kind # "none"
    /\ row.parent # NULL => entry[row.parent].kind = "folder"
    /\ entry' = [entry EXCEPT ![e] = row]
    /\ \A q \in Requests : KeptOrEnded(q) /\ Controlled(q)'

\* A step in which the transaction of r writes entry e.
OneWritten(r, e, row) ==
    /\ entry' = entry
    /\ \A q \in Requests \ {r} : req'[q] = req[q]
    /\ req'[r].writes = [req[r].writes EXCEPT ![e] = row]
    /\ Controlled(r)'
    /\ \A q \in Requests \ {r} : e \notin Written(q)
    /\ row.kind = Seen(r)[e].kind /\ row.kind # "none"
    /\ row.parent # NULL => Seen(r)[row.parent].kind = "folder"
    /\ \/ row.parent \in {Seen(r)[e].parent, NULL}
       \/ row.kind = "folder" => e \notin Ancestors(Seen(r), row.parent)

\* A transaction sees the same entries as everyone else, of the same kinds, and
\* puts them only below folders.
LEMMA SeenRows ==
    ASSUME TypeOK, RowsInv, NEW r \in Requests, NEW e \in Entries
    PROVE  /\ Seen(r)[e].kind = entry[e].kind
           /\ Seen(r)[e].parent # NULL => entry[Seen(r)[e].parent].kind = "folder"
BY DEF RowsInv, ParentsExist, UncommittedInv, Seen

\* A step that inserts, deletes and moves nothing keeps the rows in order.
LEMMA QuietRows ==
    ASSUME TypeOK, TypeOK', RowsInv, Quiet
    PROVE  RowsInv'
<1>1. \A e \in Entries : entry[e].parent # NULL => entry[e].parent \in Entries
  BY DEF TypeOK, Row
<1>2. ParentsExist'
  BY <1>1 DEF RowsInv, ParentsExist, Quiet
<1>3. ControlInv'
  BY DEF RowsInv, ControlInv, Quiet, Controlled
<1>4. ASSUME NEW r \in Requests, NEW e \in Written(r)'
      PROVE  e \in Written(r) /\ req'[r].writes = req[r].writes
  BY <1>4 DEF Written, Quiet, KeptOrEnded
<1>5. UncommittedInv'
  <2> SUFFICES ASSUME NEW r \in Requests, NEW e \in Written(r)'
               PROVE  LET row == req'[r].writes[e]
                      IN /\ row.kind = entry'[e].kind /\ row.kind # "none"
                         /\ row.parent # NULL => entry'[row.parent].kind = "folder"
                         /\ \A q \in Requests \ {r} : e \notin Written(q)'
    BY DEF UncommittedInv
  <2> DEFINE row == req[r].writes[e]
  <2>1. e \in Written(r) /\ req'[r].writes[e] = row
    BY <1>4
  <2>2. e \in Entries /\ row \in Row
    BY <2>1 DEF Written, TypeOK, Request
  <2>3. /\ row.kind = entry[e].kind /\ row.kind # "none"
        /\ row.parent # NULL => entry[row.parent].kind = "folder"
        /\ \A q \in Requests \ {r} : e \notin Written(q)
    BY <2>1 DEF RowsInv, UncommittedInv
  <2>4. \A q \in Requests \ {r} : e \notin Written(q)'
    BY <1>4, <2>3
  <2>5. row.parent # NULL => row.parent \in Entries
    BY <2>2 DEF Row
  <2> QED BY <2>1, <2>2, <2>3, <2>4, <2>5 DEF Quiet
<1> QED BY <1>2, <1>3, <1>5 DEF RowsInv

\* A step that inserts, deletes and moves nothing makes no cycle.
LEMMA QuietCycles ==
    ASSUME TypeOK, TypeOK', CycleInv, Quiet
    PROVE  CycleInv'
<1>1. NoCycle(entry')
  BY FewerEdges DEF CycleInv, Quiet, TypeOK, Rows
<1>2. ASSUME NEW r \in Requests PROVE NoCycle(Seen(r)')
  <2>1. Seen(r) \in Rows /\ Seen(r)' \in Rows /\ entry \in Rows
    BY SeenType, SeenTypeNext
  <2>2. CASE req'[r].writes = req[r].writes
    <3>1. \A x \in Entries : Seen(r)'[x].parent = Seen(r)[x].parent
      BY <2>2 DEF Seen, Written, Quiet
    <3> QED BY <2>1, <3>1, FewerEdges DEF CycleInv
  <2>3. CASE \A e \in Entries : req'[r].writes[e] = NULL
    <3>1. \A x \in Entries : Seen(r)'[x].parent = entry[x].parent
      BY <2>3 DEF Seen, Written, Quiet
    <3> QED BY <2>1, <3>1, FewerEdges DEF CycleInv
  <2> QED BY <2>2, <2>3 DEF Quiet, KeptOrEnded
<1>3. \A r \in Requests : NoCycle(Seen(r))'
  BY <1>2 DEF NoCycle
<1> QED BY <1>1, <1>3 DEF CycleInv, NoCycle

\* What is uncommitted of one transaction (UncommittedInv of one row).
LEMMA UncommittedRow ==
    ASSUME TypeOK, RowsInv, NEW r \in Requests, NEW e \in Written(r)
    PROVE  LET row == req[r].writes[e]
           IN /\ e \in Entries /\ row \in Row
              /\ row.kind = entry[e].kind /\ row.kind # "none"
              /\ row.parent # NULL => row.parent \in Entries
                                      /\ entry[row.parent].kind = "folder"
              /\ \A q \in Requests \ {r} : e \notin Written(q)
<1>1. e \in Entries /\ req[r].writes[e] \in Row
  BY DEF Written, TypeOK, Request
<1> QED BY <1>1 DEF RowsInv, UncommittedInv, Row

\* What is uncommitted after such a step was so before it.
LEMMA KeptWritten ==
    ASSUME NEW r \in Requests, KeptOrEnded(r), NEW e \in Written(r)'
    PROVE  e \in Written(r) /\ req'[r].writes = req[r].writes
BY DEF Written, KeptOrEnded

\* create_folder and ensure_photos_folder insert a row no one writes and
\* nothing is below.
LEMMA InsertRows ==
    ASSUME TypeOK, TypeOK', RowsInv, NEW e \in Entries, NEW row \in Row,
           Inserted(e, row)
    PROVE  RowsInv'
<1>1. \A x \in Entries : /\ x # e => entry'[x] = entry[x]
                         /\ entry'[e] = row
                         /\ entry[x].parent # NULL => entry[x].parent \in Entries
  BY DEF TypeOK, Row, Inserted
<1>2. row.parent # NULL => row.parent \in Entries
  BY DEF Row
<1>3. ParentsExist'
  BY <1>1, <1>2 DEF RowsInv, ParentsExist, Inserted
<1>4. ControlInv'
  BY <1>1 DEF RowsInv, ControlInv, Inserted, Controlled
<1>5. UncommittedInv'
  <2> SUFFICES ASSUME NEW r \in Requests, NEW x \in Written(r)'
               PROVE  LET w == req'[r].writes[x]
                      IN /\ w.kind = entry'[x].kind /\ w.kind # "none"
                         /\ w.parent # NULL => entry'[w.parent].kind = "folder"
                         /\ \A q \in Requests \ {r} : x \notin Written(q)'
    BY DEF UncommittedInv
  <2>1. x \in Written(r) /\ req'[r].writes = req[r].writes
    BY KeptWritten DEF Inserted
  <2>2. \A q \in Requests \ {r} : x \notin Written(q)'
    BY <2>1, UncommittedRow, KeptWritten DEF Inserted
  <2> DEFINE w == req[r].writes[x]
  <2>3. /\ x \in Entries /\ w.kind = entry[x].kind /\ w.kind # "none"
        /\ w.parent # NULL => w.parent \in Entries /\ entry[w.parent].kind = "folder"
    BY <2>1, UncommittedRow
  <2>4. x # e /\ (w.parent # NULL => w.parent # e)
    BY <2>3 DEF Inserted
  <2> QED BY <1>1, <2>1, <2>2, <2>3, <2>4
<1> QED BY <1>3, <1>4, <1>5 DEF RowsInv

\* A new row is no one's parent, in any transaction.
LEMMA InsertCycles ==
    ASSUME TypeOK, TypeOK', RowsInv, CycleInv, NEW e \in Entries, NEW row \in Row,
           Inserted(e, row)
    PROVE  CycleInv'
<1>1. \A x \in Entries : /\ x # e => entry'[x] = entry[x]
                         /\ entry'[e] = row
  BY DEF TypeOK, Inserted
<1>2. ASSUME NEW rows \in Rows, NEW new \in Rows, NoCycle(rows),
             \A x \in Entries : rows[x].parent # NULL =>
                                  entry[rows[x].parent].kind = "folder",
             rows[e].parent = NULL, new[e].parent = row.parent,
             \A x \in Entries \ {e} : new[x].parent = rows[x].parent
      PROVE  NoCycle(new)
  <2>1. \A x \in Entries : rows[x].parent # e
    BY <1>2, TreeAssumption DEF Inserted
  <2>2. CASE row.parent = NULL
    BY <1>2, <2>2, FewerEdges
  <2>3. CASE row.parent # NULL
    <3>1. row.parent \in Entries /\ row.parent # e
      BY <2>3 DEF Inserted, Row
    <3>2. e \notin Ancestors(rows, row.parent)
      BY <3>1, <2>1, <1>2, LeafAboveNothing
    <3> QED BY <1>2, <3>1, <3>2, MoveKeepsTree
  <2> QED BY <2>2, <2>3
<1>3. entry[e].parent = NULL
  BY DEF RowsInv, ControlInv, Inserted
<1>4. entry \in Rows /\ entry' \in Rows
  BY DEF TypeOK, Rows
<1>5. NoCycle(entry')
  BY <1>1, <1>2, <1>3, <1>4 DEF RowsInv, ParentsExist, CycleInv
<1>6. ASSUME NEW r \in Requests PROVE NoCycle(Seen(r)')
  <2>1. Seen(r) \in Rows /\ Seen(r)' \in Rows
    BY SeenType, SeenTypeNext
  <2>2. CASE req'[r].writes = req[r].writes
    <3>1. e \notin Written(r)
      BY UncommittedRow DEF Inserted
    <3>2. \A x \in Entries : /\ Seen(r)[e].parent = NULL
                             /\ Seen(r)'[e].parent = row.parent
                             /\ x # e => Seen(r)'[x].parent = Seen(r)[x].parent
      BY <2>2, <3>1, <1>1, <1>3 DEF Seen, Written
    <3>3. \A x \in Entries : Seen(r)[x].parent # NULL =>
                               entry[Seen(r)[x].parent].kind = "folder"
      BY SeenRows
    <3>4. NoCycle(Seen(r))
      BY DEF CycleInv
    <3> QED BY <1>2, <2>1, <3>2, <3>3, <3>4
  <2>3. CASE \A x \in Entries : req'[r].writes[x] = NULL
    <3>1. \A x \in Entries : Seen(r)'[x].parent = entry'[x].parent
      BY <2>3 DEF Seen, Written
    <3> QED BY <2>1, <3>1, <1>4, <1>5, FewerEdges
  <2> QED BY <2>2, <2>3 DEF Inserted, KeptOrEnded
<1>7. \A r \in Requests : NoCycle(Seen(r))'
  BY <1>6 DEF NoCycle
<1> QED BY <1>5, <1>7 DEF CycleInv, NoCycle

\* What the transaction of r sees after it has written entry e.
LEMMA SeenWritten ==
    ASSUME TypeOK, NEW r \in Requests, NEW e \in Entries, NEW row \in Row,
           OneWritten(r, e, row)
    PROVE  /\ Written(r)' = Written(r) \cup {e}
           /\ req'[r].writes[e] = row
           /\ \A x \in Entries \ {e} : req'[r].writes[x] = req[r].writes[x]
           /\ \A x \in Entries : Seen(r)'[x] = IF x = e THEN row ELSE Seen(r)[x]
           /\ \A q \in Requests \ {r} : /\ Written(q)' = Written(q)
                                        /\ Seen(q)' = Seen(q)
<1>1. req[r].writes \in [Entries -> Row \cup {NULL}]
  BY DEF TypeOK, Request
<1>2. row # NULL
  BY RowAssumption
<1> QED BY <1>1, <1>2 DEF OneWritten, Written, Seen

\* A move or trash writes a row no other transaction writes.
LEMMA WriteRows ==
    ASSUME TypeOK, TypeOK', RowsInv, NEW r \in Requests, NEW e \in Entries,
           NEW row \in Row, OneWritten(r, e, row)
    PROVE  RowsInv'
<1>1. ParentsExist'
  BY DEF RowsInv, ParentsExist, OneWritten
<1>2. ControlInv'
  BY DEF RowsInv, ControlInv, OneWritten, Controlled
<1>3. UncommittedInv'
  <2> SUFFICES ASSUME NEW q \in Requests, NEW x \in Written(q)'
               PROVE  LET w == req'[q].writes[x]
                      IN /\ w.kind = entry[x].kind /\ w.kind # "none"
                         /\ w.parent # NULL => entry[w.parent].kind = "folder"
                         /\ \A s \in Requests \ {q} : x \notin Written(s)'
    BY DEF UncommittedInv, OneWritten
  <2>1. CASE q = r /\ x = e
    <3>1. row.parent # NULL => row.parent \in Entries
      BY DEF Row
    <3>2. /\ row.kind = entry[e].kind /\ row.kind # "none"
          /\ row.parent # NULL => entry[row.parent].kind = "folder"
      BY <3>1, SeenRows DEF OneWritten
    <3>3. \A s \in Requests \ {r} : e \notin Written(s)'
      BY SeenWritten DEF OneWritten
    <3> QED BY <2>1, <3>2, <3>3, SeenWritten
  <2>2. CASE q = r /\ x # e
    <3>1. x \in Written(r) /\ x \in Entries /\ req'[r].writes[x] = req[r].writes[x]
      BY <2>2, SeenWritten DEF Written
    <3> QED BY <2>2, <3>1, SeenWritten, UncommittedRow
  <2>3. CASE q # r
    <3>1. x \in Written(q) /\ req'[q].writes[x] = req[q].writes[x] /\ x # e
      BY <2>3, SeenWritten DEF OneWritten
    <3>2. \A s \in Requests \ {q} : x \notin Written(s)'
      BY <2>3, <3>1, SeenWritten, UncommittedRow
    <3> QED BY <3>1, <3>2, UncommittedRow
  <2> QED BY <2>1, <2>2, <2>3
<1> QED BY <1>1, <1>2, <1>3 DEF RowsInv

\* The parent trigger keeps what the transaction sees free of cycles: a folder
\* is not above its new parent, and a file is above nothing.
LEMMA WriteCycles ==
    ASSUME TypeOK, TypeOK', RowsInv, CycleInv, NEW r \in Requests,
           NEW e \in Entries, NEW row \in Row, OneWritten(r, e, row)
    PROVE  CycleInv'
<1> DEFINE p == row.parent
<1>1. Seen(r) \in Rows /\ Seen(r)' \in Rows /\ NoCycle(Seen(r))
  BY SeenType, SeenTypeNext DEF CycleInv
<1>2. NoCycle(Seen(r)')
  <2>1. CASE p \in {Seen(r)[e].parent, NULL}
    <3>1. \A x \in Entries : Seen(r)'[x].parent \in {Seen(r)[x].parent, NULL}
      BY <2>1, SeenWritten
    <3> QED BY <1>1, <3>1, FewerEdges
  <2>2. CASE p \notin {Seen(r)[e].parent, NULL}
    <3>1. p \in Entries /\ Seen(r)[p].kind = "folder"
      BY <2>2 DEF OneWritten, Row
    <3>2. e \notin Ancestors(Seen(r), p)
      <4>1. CASE row.kind = "folder"
        BY <2>2, <4>1 DEF OneWritten
      <4>2. CASE row.kind # "folder"
        <5>1. p # e /\ entry[e].kind # "folder"
          BY <3>1, <4>2, SeenRows DEF OneWritten
        <5>2. \A x \in Entries : Seen(r)[x].parent # e
          BY <5>1, SeenRows, TreeAssumption
        <5> QED BY <1>1, <3>1, <5>1, <5>2, LeafAboveNothing
      <4> QED BY <4>1, <4>2
    <3>3. Seen(r)'[e].parent = p
          /\ \A x \in Entries \ {e} : Seen(r)'[x].parent = Seen(r)[x].parent
      BY SeenWritten
    <3> QED BY <1>1, <3>1, <3>2, <3>3, MoveKeepsTree
  <2> QED BY <2>1, <2>2
<1>3. \A q \in Requests : NoCycle(Seen(q)')
  BY <1>2, SeenWritten DEF CycleInv
<1>4. \A q \in Requests : NoCycle(Seen(q))'
  BY <1>3 DEF NoCycle
<1> QED BY <1>4 DEF CycleInv, NoCycle, Ancestors, OneWritten

-----------------------------------------------------------------------------
(* Commits and purges *)

\* A handler that returns keeps nothing uncommitted; the others go on.
LEMMA EndedHandler ==
    ASSUME TypeOK, NEW r \in Requests, Return(r)
    PROVE  /\ Written(r)' = {}
           /\ Controlled(r)'
           /\ \A q \in Requests \ {r} : req'[q] = req[q] /\ Written(q)' = Written(q)
           /\ \A q \in Requests : KeptOrEnded(q)
BY DEF Return, Idle, Written, Controlled, KeptOrEnded, TypeOK

\* A commit publishes rows of unchanged kinds below folders that exist.
LEMMA CommitRows ==
    ASSUME TypeOK, TypeOK', RowsInv, NEW r \in Requests, Commit(r)
    PROVE  RowsInv'
<1>1. Return(r) /\ \A x \in Entries : entry'[x] = Seen(r)[x]
  BY DEF Commit
<1>2. \A x \in Entries : entry'[x].kind = entry[x].kind
  BY <1>1, SeenRows
<1>3. \A x \in Entries : entry'[x].parent # NULL =>
          entry'[x].parent \in Entries /\ entry'[entry'[x].parent].kind = "folder"
  <2>1. \A x \in Entries : entry'[x].parent # NULL => entry'[x].parent \in Entries
    BY DEF TypeOK, Row
  <2> QED BY <1>1, <1>2, <2>1, SeenRows
<1>4. ParentsExist'
  BY <1>3 DEF ParentsExist
<1>5. ControlInv'
  <2>1. \A x \in Entries : entry'[x].kind = "none" => entry'[x].parent = NULL
    BY <1>1, <1>2, UncommittedRow DEF Seen, RowsInv, ControlInv
  <2> QED BY <1>1, <2>1, EndedHandler DEF RowsInv, ControlInv, Controlled
<1>6. UncommittedInv'
  <2> SUFFICES ASSUME NEW q \in Requests, NEW x \in Written(q)'
               PROVE  LET w == req'[q].writes[x]
                      IN /\ w.kind = entry'[x].kind /\ w.kind # "none"
                         /\ w.parent # NULL => entry'[w.parent].kind = "folder"
                         /\ \A s \in Requests \ {q} : x \notin Written(s)'
    BY DEF UncommittedInv
  <2>1. q # r /\ x \in Written(q) /\ req'[q] = req[q]
    BY <1>1, EndedHandler
  <2>2. x \in Entries /\ x \notin Written(r) /\ entry'[x] = entry[x]
    BY <1>1, <2>1, UncommittedRow DEF Seen
  <2>3. \A s \in Requests \ {q} : x \notin Written(s)'
    BY <1>1, <2>1, EndedHandler, UncommittedRow
  <2> QED BY <1>2, <2>1, <2>2, <2>3, UncommittedRow
<1> QED BY <1>4, <1>5, <1>6 DEF RowsInv

\* Without overlapping moves, a commit that moves entries does so under
\* transactions that move nothing, and a transaction with moves sees commits that move nothing.
LEMMA CommitCycles ==
    ASSUME TypeOK, TypeOK', RowsInv, CycleInv, SerialMoves, NEW r \in Requests,
           Commit(r)
    PROVE  CycleInv'
<1>1. Return(r) /\ \A x \in Entries : entry'[x] = Seen(r)[x]
  BY DEF Commit
<1>2. Seen(r) \in Rows /\ entry \in Rows /\ entry' \in Rows /\ NoCycle(Seen(r))
  BY SeenType, SeenTypeNext DEF CycleInv
<1>3. NoCycle(entry')
  BY <1>1, <1>2, FewerEdges
<1>4. ASSUME NEW q \in Requests PROVE NoCycle(Seen(q)')
  <2>1. Seen(q) \in Rows /\ Seen(q)' \in Rows /\ NoCycle(Seen(q))
    BY SeenType, SeenTypeNext DEF CycleInv
  <2>2. CASE q = r
    <3>1. \A x \in Entries : Seen(q)'[x].parent = entry'[x].parent
      BY <1>1, <2>2, EndedHandler DEF Seen
    <3> QED BY <1>2, <1>3, <2>1, <3>1, FewerEdges
  <2>3. CASE q # r /\ ~Moving(q)
    <3>1. \A x \in Entries : Seen(q)'[x].parent = entry'[x].parent
      <4> SUFFICES ASSUME NEW x \in Entries
                   PROVE  Seen(q)'[x].parent = entry'[x].parent
        OBVIOUS
      <4>1. CASE x \in Written(q)
        <5>1. x \notin Written(r) /\ req[q].writes[x].parent = entry[x].parent
          BY <2>3, <4>1, UncommittedRow DEF Moving
        <5>2. entry'[x] = entry[x]
          BY <1>1, <5>1 DEF Seen
        <5>3. Seen(q)'[x] = req[q].writes[x]
          BY <1>1, <2>3, <4>1, EndedHandler DEF Seen
        <5> QED BY <5>1, <5>2, <5>3
      <4>2. CASE x \notin Written(q)
        BY <1>1, <2>3, <4>2, EndedHandler DEF Seen
      <4> QED BY <4>1, <4>2
    <3> QED BY <1>2, <1>3, <2>1, <3>1, FewerEdges
  <2>4. CASE q # r /\ Moving(q)
    <3>1. ~Moving(r)
      BY <2>4 DEF SerialMoves
    <3>2. \A x \in Entries : entry'[x].parent = entry[x].parent
      BY <1>1, <3>1 DEF Seen, Moving
    <3>3. \A x \in Entries : Seen(q)'[x].parent = Seen(q)[x].parent
      BY <1>1, <2>4, <3>2, EndedHandler DEF Seen
    <3> QED BY <2>1, <3>3, FewerEdges
  <2> QED BY <2>2, <2>3, <2>4
<1>5. \A q \in Requests : NoCycle(Seen(q))'
  BY <1>4 DEF NoCycle
<1> QED BY <1>3, <1>5 DEF CycleInv, NoCycle

\* A purge deletes a set of rows that nothing outside it is below and no
\* transaction writes or puts anything into.
LEMMA PurgeFrame ==
    ASSUME TypeOK, NEW r \in Requests, PurgeDelete(r)
    PROVE  /\ Return(r)
           /\ \A x \in Entries : x \in req[r].ids => entry'[x] = NoRow
           /\ \A x \in Entries : x \notin req[r].ids =>
                /\ entry'[x] = entry[x]
                /\ entry[x].kind # "none" => entry[x].parent \notin req[r].ids
           /\ \A q \in Requests \ {r} : \A x \in Written(q) :
                /\ x \notin req[r].ids
                /\ req[q].writes[x].parent \notin req[r].ids
BY DEF PurgeDelete, Deletable, Locked, Referenced, Exists

\* A purge leaves no entry and no uncommitted row below what it deletes.
LEMMA PurgeRows ==
    ASSUME TypeOK, TypeOK', RowsInv, NEW r \in Requests, PurgeDelete(r)
    PROVE  RowsInv'
<1>1. Return(r)
  BY PurgeFrame
<1>2. \A x \in Entries : entry[x].parent # NULL => entry[x].parent \in Entries
  BY DEF TypeOK, Row
<1>3. NoRow.kind = "none" /\ NoRow.parent = NULL
  BY DEF NoRow
<1>4. ParentsExist'
  <2> SUFFICES ASSUME NEW x \in Entries, entry'[x].parent # NULL
               PROVE  entry'[entry'[x].parent].kind = "folder"
    BY DEF ParentsExist
  <2>1. x \notin req[r].ids
    BY <1>3, PurgeFrame
  <2>2. entry'[x] = entry[x] /\ entry[x].kind # "none"
    BY <2>1, PurgeFrame DEF RowsInv, ControlInv
  <2>3. entry[x].parent \notin req[r].ids /\ entry[x].parent \in Entries
    BY <2>1, <2>2, <1>2, PurgeFrame
  <2> QED BY <2>2, <2>3, PurgeFrame DEF RowsInv, ParentsExist
<1>5. ControlInv'
  BY <1>1, <1>3, PurgeFrame, EndedHandler DEF RowsInv, ControlInv, Controlled
<1>6. UncommittedInv'
  <2> SUFFICES ASSUME NEW q \in Requests, NEW x \in Written(q)'
               PROVE  LET w == req'[q].writes[x]
                      IN /\ w.kind = entry'[x].kind /\ w.kind # "none"
                         /\ w.parent # NULL => entry'[w.parent].kind = "folder"
                         /\ \A s \in Requests \ {q} : x \notin Written(s)'
    BY DEF UncommittedInv
  <2>1. q # r /\ x \in Written(q) /\ req'[q] = req[q]
    BY <1>1, EndedHandler
  <2>2. \A s \in Requests \ {q} : x \notin Written(s)'
    BY <1>1, <2>1, EndedHandler, UncommittedRow
  <2>3. x \notin req[r].ids /\ req[q].writes[x].parent \notin req[r].ids
    BY <2>1, PurgeFrame
  <2> QED BY <2>1, <2>2, <2>3, PurgeFrame, UncommittedRow
<1> QED BY <1>4, <1>5, <1>6 DEF RowsInv

\* A purge only takes entries out of the tree.
LEMMA PurgeCycles ==
    ASSUME TypeOK, TypeOK', RowsInv, CycleInv, NEW r \in Requests, PurgeDelete(r)
    PROVE  CycleInv'
<1>1. Return(r)
  BY PurgeFrame
<1>2. entry \in Rows /\ entry' \in Rows
  BY DEF TypeOK, Rows
<1>3. \A x \in Entries : entry'[x].parent \in {entry[x].parent, NULL}
  BY PurgeFrame DEF NoRow
<1>4. NoCycle(entry')
  BY <1>2, <1>3, FewerEdges DEF CycleInv
<1>5. ASSUME NEW q \in Requests PROVE NoCycle(Seen(q)')
  <2>1. Seen(q) \in Rows /\ Seen(q)' \in Rows /\ NoCycle(Seen(q))
    BY SeenType, SeenTypeNext DEF CycleInv
  <2>2. CASE q = r
    <3>1. \A x \in Entries : Seen(q)'[x].parent = entry'[x].parent
      BY <1>1, <2>2, EndedHandler DEF Seen
    <3> QED BY <1>2, <1>4, <2>1, <3>1, FewerEdges
  <2>3. CASE q # r
    <3>1. \A x \in Entries : Seen(q)'[x].parent \in {Seen(q)[x].parent, NULL}
      BY <1>1, <1>3, <2>3, EndedHandler DEF Seen
    <3> QED BY <2>1, <3>1, FewerEdges
  <2> QED BY <2>2, <2>3
<1>6. \A q \in Requests : NoCycle(Seen(q))'
  BY <1>5 DEF NoCycle
<1> QED BY <1>4, <1>6 DEF CycleInv, NoCycle

-----------------------------------------------------------------------------
(* Every step is of one of these kinds *)

\* A step of one handler that inserts, deletes and moves nothing.
LEMMA QuietHandler ==
    ASSUME TypeOK, RowsInv, NEW r \in Requests,
           \A q \in Requests \ {r} : req'[q] = req[q],
           KeptOrEnded(r), Controlled(r)',
           \A e \in Entries : /\ entry'[e].kind = entry[e].kind
                              /\ entry'[e].parent = entry[e].parent
    PROVE  Quiet
BY DEF RowsInv, ControlInv, Controlled, KeptOrEnded, Quiet

\* A handler that begins has written nothing yet.
Started(r) ==
    /\ \A q \in Requests \ {r} : req'[q] = req[q]
    /\ \A e \in Entries : req'[r].writes[e] = NULL
    /\ Controlled(r)'
    /\ entry' = entry

\* Its first step is quiet.
LEMMA QuietStart ==
    ASSUME TypeOK, RowsInv, NEW r \in Requests, Started(r)
    PROVE  Quiet
BY QuietHandler DEF Started, KeptOrEnded

\* A handler that returns and has moved, inserted and deleted nothing.
LEMMA QuietReturn ==
    ASSUME TypeOK, RowsInv, NEW r \in Requests, Return(r),
           \A e \in Entries : /\ entry'[e].kind = entry[e].kind
                              /\ entry'[e].parent = entry[e].parent
    PROVE  Quiet
BY EndedHandler, QuietHandler

\* The trigger and the checks give an update what the tree needs of it.
LEMMA MoveWrites ==
    ASSUME TypeOK, RowsInv, NEW r \in Requests, NEW e \in Entries,
           NEW p \in Entries \cup {NULL}, Movable(r, e, p)
    PROVE  LET row == Moved(r, e, p)
           IN /\ row \in Row
              /\ \A q \in Requests \ {r} : e \notin Written(q)
              /\ row.kind = Seen(r)[e].kind /\ row.kind # "none"
              /\ row.parent = p
              /\ row.parent # NULL => Seen(r)[row.parent].kind = "folder"
              /\ \/ row.parent \in {Seen(r)[e].parent, NULL}
                 \/ row.kind = "folder" => e \notin Ancestors(Seen(r), row.parent)
<1>2. Seen(r)[e] \in Row
  BY SeenType
<1>3. Moved(r, e, p) \in Row
  BY <1>2, RowColumns DEF Moved
<1>4. Moved(r, e, p).kind = Seen(r)[e].kind /\ Moved(r, e, p).parent = p
  BY <1>2 DEF Moved, Row
<1>5. /\ ~Locked(r, e) /\ Live(Seen(r), e)
      /\ ParentGuard(Seen(r), e, Seen(r)[e].kind, p)
  BY DEF Movable
<1> QED BY <1>3, <1>4, <1>5 DEF Locked, Live, Exists, ParentGuard

\* Every step of a handler is quiet, inserts a row, writes a row, commits or
\* purges.
LEMMA StepKinds ==
    ASSUME TypeOK, RowsInv, NEW r \in Requests, RequestStep(r)
    PROVE  \/ Quiet
           \/ \E e \in Entries, row \in Row : Inserted(e, row)
           \/ \E e \in Entries, row \in Row : OneWritten(r, e, row)
           \/ Commit(r)
           \/ PurgeDelete(r)
<1> DEFINE Goal == \/ Quiet
                   \/ \E e \in Entries, row \in Row : Inserted(e, row)
                   \/ \E e \in Entries, row \in Row : OneWritten(r, e, row)
                   \/ Commit(r)
                   \/ PurgeDelete(r)
<1>0. \A e \in Entries : Idle.writes[e] = NULL
  BY DEF Idle
<1>1. ASSUME NEW p \in Entries \cup {NULL}, CreateCheck(r, p) PROVE Quiet
  <2>1. Started(r)
    BY <1>1 DEF CreateCheck, Idle, Started, Controlled, TypeOK
  <2> QED BY <2>1, QuietStart
<1>2. ASSUME NEW e \in Entries, NEW kind \in {"file", "folder"}, NEW n \in Names,
             CreateInsert(r, e, kind, n)
      PROVE  Goal
  <2> DEFINE row == [kind |-> kind, parent |-> req[r].to, name |-> n,
                     trashed |-> FALSE, system |-> FALSE]
  <2>1. row \in Row
    BY DEF Row, TypeOK, Request
  <2>2. Return(r) /\ entry' = [entry EXCEPT ![e] = row]
        /\ entry[e].kind = "none"
        /\ (req[r].to # NULL => entry[req[r].to].kind = "folder")
    BY <1>2 DEF CreateInsert, Fresh, Exists, ParentGuard
  <2>3. \A q \in Requests : KeptOrEnded(q) /\ Controlled(q)'
    BY <2>2, EndedHandler DEF RowsInv, ControlInv, Controlled
  <2>4. Inserted(e, row)
    BY <2>2, <2>3 DEF Inserted
  <2> QED BY <2>1, <2>4
<1>3. ASSUME NEW e \in Entries, RenameCheck(r, e) PROVE Quiet
  <2>1. Started(r)
    BY <1>3 DEF RenameCheck, Idle, Started, Controlled, TypeOK
  <2> QED BY <2>1, QuietStart
<1>4. ASSUME NEW n \in Names, RenameUpdate(r, n) PROVE Quiet
  BY <1>4, QuietReturn DEF RenameUpdate, TypeOK, Row
<1>5. ASSUME NEW e \in Entries, NEW p \in Entries \cup {NULL}, MoveCheck(r, e, p)
      PROVE  Quiet
  <2>1. Started(r)
    BY <1>5 DEF MoveCheck, Idle, Started, Controlled, TypeOK
  <2> QED BY <2>1, QuietStart
<1>6. ASSUME MoveContains(r) PROVE Quiet
  <2>1. /\ \A q \in Requests \ {r} : req'[q] = req[q]
        /\ req'[r].writes = req[r].writes /\ req'[r].id = req[r].id
        /\ req'[r].pc = "update" /\ entry' = entry
        /\ req[r].pc = "contains"
    BY <1>6 DEF MoveContains, TypeOK, Request
  <2>2. KeptOrEnded(r) /\ Controlled(r)'
    BY <2>1 DEF KeptOrEnded, Controlled, RowsInv, ControlInv
  <2> QED BY <2>1, <2>2, QuietHandler
<1>7. ASSUME MoveUpdate(r) PROVE Goal
  <2> DEFINE e == req[r].id
             p == req[r].to
             row == Moved(r, e, p)
             w == Wrote(r, e, row)
             h == [w EXCEPT !.pc = "commit"]
  <2>1. e \in Entries /\ p \in Entries \cup {NULL} /\ Movable(r, e, p)
    BY <1>7 DEF MoveUpdate, RowsInv, ControlInv, TypeOK, Request
  <2>2. req' = [req EXCEPT ![r] = h] /\ entry' = entry
    BY <1>7 DEF MoveUpdate
  <2>3. row \in Row
    BY <2>1, MoveWrites
  <2> HIDE DEF row, p, e
  <2>4. w \in Request /\ w.writes = [req[r].writes EXCEPT ![e] = row]
    BY <2>1, <2>3, WroteRow
  <2> HIDE DEF w
  <2>5. h.writes = [req[r].writes EXCEPT ![e] = row] /\ h.pc = "commit"
    BY <2>4 DEF Request
  <2> HIDE DEF h
  <2>6. req'[r] = h /\ \A q \in Requests \ {r} : req'[q] = req[q]
    BY <2>2 DEF TypeOK
  <2>7. Controlled(r)'
    BY <2>5, <2>6 DEF Controlled
  <2>8. OneWritten(r, e, row)
    BY <2>1, <2>2, <2>5, <2>6, <2>7, MoveWrites DEF OneWritten, row
  <2> QED BY <2>1, <2>3, <2>8
<1>9. ASSUME NEW ids \in SUBSET Entries, NEW p \in Entries \cup {NULL},
             BatchMove(r, ids, p)
      PROVE  Quiet
  <2>1. Started(r)
    BY <1>9 DEF BatchMove, Idle, Started, Controlled, TypeOK
  <2> QED BY <2>1, QuietStart
<1>10. ASSUME NEW ids \in SUBSET Entries, BatchTrash(r, ids) PROVE Quiet
  <2>1. Started(r)
    BY <1>10 DEF BatchTrash, Idle, Started, Controlled, TypeOK
  <2> QED BY <2>1, QuietStart
<1>11. ASSUME NEW e \in Entries, TrashEntry(r, e) PROVE Quiet
  <2>1. Started(r)
    BY <1>11 DEF TrashEntry, Idle, Started, Controlled, TypeOK
  <2> QED BY <2>1, QuietStart
<1>12. ASSUME NEW e \in Entries, BatchCheck(r, e) PROVE Quiet
  <2>1. /\ \A q \in Requests \ {r} : req'[q] = req[q]
        /\ req'[r].writes = req[r].writes /\ req'[r].id = e
        /\ req'[r].pc = IF req[r].pc = "move" THEN "moving" ELSE "trashing"
        /\ entry' = entry
    BY <1>12 DEF BatchCheck, TypeOK, Request
  <2>2. KeptOrEnded(r) /\ Controlled(r)'
    BY <2>1 DEF KeptOrEnded, Controlled, RowsInv, ControlInv
  <2> QED BY <2>1, <2>2, QuietHandler
<1>13. ASSUME BatchMoveOne(r) PROVE Goal
  <2> DEFINE e == req[r].id
             p == req[r].to
             row == Moved(r, e, p)
             w == Wrote(r, e, row)
             h == [w EXCEPT !.pc = "move", !.ids = w.ids \ {e}]
  <2>1. e \in Entries /\ p \in Entries \cup {NULL} /\ Movable(r, e, p)
    BY <1>13 DEF BatchMoveOne, RowsInv, ControlInv, TypeOK, Request
  <2>2. req' = [req EXCEPT ![r] = h] /\ entry' = entry
    BY <1>13 DEF BatchMoveOne
  <2>3. row \in Row
    BY <2>1, MoveWrites
  <2> HIDE DEF row, p, e
  <2>4. w \in Request /\ w.writes = [req[r].writes EXCEPT ![e] = row]
    BY <2>1, <2>3, WroteRow
  <2> HIDE DEF w
  <2>5. h.writes = [req[r].writes EXCEPT ![e] = row] /\ h.pc = "move"
    BY <2>4 DEF Request
  <2> HIDE DEF h
  <2>6. req'[r] = h /\ \A q \in Requests \ {r} : req'[q] = req[q]
    BY <2>2 DEF TypeOK
  <2>7. Controlled(r)'
    BY <2>1, <2>5, <2>6 DEF Controlled
  <2>8. OneWritten(r, e, row)
    BY <2>1, <2>2, <2>5, <2>6, <2>7, MoveWrites DEF OneWritten, row
  <2> QED BY <2>1, <2>3, <2>8
<1>14. ASSUME TrashOne(r) PROVE Goal
  <2> DEFINE e == req[r].id
             row == [Seen(r)[e] EXCEPT !.trashed = TRUE]
             w == Wrote(r, e, row)
             R == RevokedShares(Seen(r), e)
             h == [w EXCEPT !.pc = "trash", !.ids = w.ids \ {e},
                            !.revokes = w.revokes \cup R]
  <2>1. e \in Entries /\ ~Locked(r, e) /\ Seen(r)[e].kind # "none"
    BY <1>14 DEF TrashOne, RowsInv, ControlInv, Live, Exists
  <2>2. req' = [req EXCEPT ![r] = h] /\ entry' = entry
    BY <1>14 DEF TrashOne
  <2>3. row \in Row /\ row.kind = Seen(r)[e].kind /\ row.parent = Seen(r)[e].parent
    <3>1. Seen(r)[e] \in Row
      BY <2>1, SeenType
    <3> QED BY <3>1, RowColumns DEF Row
  <2> HIDE DEF row, R, e
  <2>4. w \in Request /\ w.writes = [req[r].writes EXCEPT ![e] = row]
    BY <2>1, <2>3, WroteRow
  <2> HIDE DEF w
  <2>5. h.writes = [req[r].writes EXCEPT ![e] = row] /\ h.pc = "trash"
    BY <2>4 DEF Request
  <2> HIDE DEF h
  <2>6. req'[r] = h /\ \A q \in Requests \ {r} : req'[q] = req[q]
    BY <2>2 DEF TypeOK
  <2>7. Controlled(r)'
    BY <2>5, <2>6 DEF Controlled
  <2>8. row.parent # NULL => Seen(r)[row.parent].kind = "folder"
    <3>1. row.parent # NULL => row.parent \in Entries
      BY <2>3 DEF Row
    <3> QED BY <3>1, <2>1, <2>3, SeenRows
  <2>9. \A q \in Requests \ {r} : e \notin Written(q)
    BY <2>1 DEF Locked
  <2>10. OneWritten(r, e, row)
    BY <2>1, <2>2, <2>3, <2>5, <2>6, <2>7, <2>8, <2>9 DEF OneWritten
  <2> QED BY <2>1, <2>3, <2>10
<1>15. ASSUME NEW e \in Entries, RestoreCheck(r, e) PROVE Quiet
  <2>1. Started(r)
    BY <1>15 DEF RestoreCheck, Idle, Started, Controlled, TypeOK
  <2> QED BY <2>1, QuietStart
<1>16. ASSUME RestoreUpdate(r) PROVE Quiet
  BY <1>16, QuietReturn DEF RestoreUpdate, TypeOK, Row
<1>17. ASSUME NEW e \in Entries, PurgeLock(r, e) PROVE Quiet
  <2>1. Started(r)
    BY <1>17 DEF PurgeLock, Idle, Started, Controlled, TypeOK
  <2> QED BY <2>1, QuietStart
<1>18. ASSUME PurgeList(r) PROVE Quiet
  <2>1. /\ \A q \in Requests \ {r} : req'[q] = req[q]
        /\ req'[r].writes = req[r].writes
        /\ req'[r].pc = "delete" /\ entry' = entry
    BY <1>18 DEF PurgeList, TypeOK, Request
  <2>2. KeptOrEnded(r) /\ Controlled(r)'
    BY <2>1 DEF KeptOrEnded, Controlled
  <2> QED BY <2>1, <2>2, QuietHandler
<1>20. ASSUME NEW e \in Entries, PhotosAdopt(r, e) PROVE Quiet
  BY <1>20 DEF PhotosAdopt, Quiet, KeptOrEnded, Controlled, RowsInv, ControlInv,
     TypeOK, Row
<1>21. ASSUME NEW e \in Entries, NEW n \in Names, PhotosInsert(r, e, n) PROVE Goal
  <2> DEFINE row == [kind |-> "folder", parent |-> NULL, name |-> n,
                     trashed |-> FALSE, system |-> TRUE]
  <2>1. row \in Row
    BY DEF Row
  <2>2. Inserted(e, row)
    BY <1>21 DEF PhotosInsert, Fresh, Exists, Inserted, KeptOrEnded, Controlled,
       RowsInv, ControlInv
  <2> QED BY <2>1, <2>2
<1>22. ASSUME NEW e \in Entries, ShareCheck(r, e) PROVE Quiet
  <2>1. Started(r)
    BY <1>22 DEF ShareCheck, Idle, Started, Controlled, TypeOK
  <2> QED BY <2>1, QuietStart
<1>23. ASSUME NEW s \in Shares, ShareInsert(r, s) PROVE Quiet
  BY <1>23, QuietReturn DEF ShareInsert
<1>24. ASSUME RequestFail(r) PROVE Quiet
  BY <1>24, QuietReturn DEF RequestFail
<1> QED
  BY <1>1, <1>2, <1>3, <1>4, <1>5, <1>6, <1>7, <1>9, <1>10, <1>11, <1>12,
     <1>13, <1>14, <1>15, <1>16, <1>17, <1>18, <1>20, <1>21, <1>22, <1>23,
     <1>24 DEF RequestStep

\* revoke_share and stuttering change no entry.
LEMMA QuietOther ==
    ASSUME TypeOK, RowsInv,
           UNCHANGED vars \/ \E s \in Shares : RevokeShare(s)
    PROVE  Quiet
<1>1. entry' = entry /\ req' = req
  BY DEF vars, RevokeShare
<1> QED BY <1>1 DEF Quiet, KeptOrEnded, Controlled, RowsInv, ControlInv

\* RowsInv is kept by every step.
LEMMA RowsStep ==
    ASSUME TypeOK, RowsInv, [Next]_vars
    PROVE  RowsInv'
<1>1. TypeOK'
  BY TypeStep
<1>2. CASE UNCHANGED vars \/ \E s \in Shares : RevokeShare(s)
  BY <1>1, <1>2, QuietOther, QuietRows
<1>3. ASSUME NEW r \in Requests, RequestStep(r) PROVE RowsInv'
  BY <1>1, <1>3, StepKinds, QuietRows, InsertRows, WriteRows, CommitRows, PurgeRows
<1> QED BY <1>2, <1>3 DEF Next

\* CycleInv is kept by every step from a state without overlapping moves.
LEMMA CyclesStep ==
    ASSUME TypeOK, RowsInv, CycleInv, SerialMoves, [Next]_vars
    PROVE  CycleInv'
<1>1. TypeOK'
  BY TypeStep
<1>2. CASE UNCHANGED vars \/ \E s \in Shares : RevokeShare(s)
  BY <1>1, <1>2, QuietOther, QuietCycles
<1>3. ASSUME NEW r \in Requests, RequestStep(r) PROVE CycleInv'
  BY <1>1, <1>3, StepKinds, QuietCycles, InsertCycles, WriteCycles, CommitCycles,
     PurgeCycles
<1> QED BY <1>2, <1>3 DEF Next

\* The empty drive satisfies the invariant.
LEMMA InitInv ==
    ASSUME Init
    PROVE  TypeOK /\ RowsInv /\ CycleInv
<1>1. TypeOK
  BY IdleType DEF Init, TypeOK
<1>2. \A e \in Entries : entry[e].parent = NULL
  BY DEF Init, NoRow
<1>3. \A r \in Requests : Written(r) = {} /\ req[r].pc = "idle"
  BY DEF Init, Idle, Written
<1>4. RowsInv
  BY <1>2, <1>3 DEF RowsInv, ParentsExist, ControlInv, UncommittedInv
<1>5. CycleInv
  BY <1>2, <1>3 DEF CycleInv, NoCycle, Seen
<1> QED BY <1>1, <1>4, <1>5

\* Whatever creates, renames, moves, trashes, restores and purges run together,
\* every entry's parent is a folder that is there.
THEOREM ParentsAreFolders == Spec => []ParentsExist
<1>1. Init => TypeOK /\ RowsInv
  BY InitInv
<1>2. TypeOK /\ RowsInv /\ [Next]_vars => (TypeOK /\ RowsInv)'
  BY TypeStep, RowsStep
<1>3. RowsInv => ParentsExist
  BY DEF RowsInv
<1> QED BY <1>1, <1>2, <1>3, PTL DEF Spec

\* An insert of a share finds its entry, a purge takes the shares of what it
\* deletes, and nothing else deletes an entry.
LEMMA SharesStep ==
    ASSUME TypeOK, RowsInv, SharesResolve, [Next]_vars
    PROVE  SharesResolve'
<1>1. \A s \in Shares : share[s] # NULL =>
          share[s] \in Entries /\ entry[share[s]].kind # "none"
  BY DEF TypeOK, SharesResolve, Exists
<1>2. ASSUME share' = share,
             \A e \in Entries : entry[e].kind # "none" => entry'[e].kind # "none"
      PROVE  SharesResolve'
  BY <1>1, <1>2 DEF SharesResolve, Exists
<1>3. ASSUME NEW s \in Shares, RevokeShare(s) PROVE SharesResolve'
  BY <1>1, <1>3 DEF RevokeShare, SharesResolve, Exists, TypeOK
<1>4. ASSUME NEW r \in Requests, RequestStep(r) PROVE SharesResolve'
  <2>1. CASE Commit(r)
    <3>1. \A x \in Entries : entry'[x].kind = entry[x].kind
      BY <2>1, SeenRows DEF Commit
    <3>2. \A s \in Shares : share'[s] # NULL => share'[s] = share[s]
      BY <2>1 DEF Commit
    <3> QED BY <1>1, <3>1, <3>2 DEF SharesResolve, Exists
  <2>2. CASE PurgeDelete(r)
    <3>1. \A s \in Shares : share'[s] # NULL =>
              share'[s] = share[s] /\ share[s] \notin req[r].ids
      BY <2>2 DEF PurgeDelete
    <3> QED BY <1>1, <2>2, <3>1, PurgeFrame DEF SharesResolve, Exists
  <2>3. CASE \E s \in Shares : ShareInsert(r, s)
    <3>1. PICK s \in Shares : ShareInsert(r, s)
      BY <2>3
    <3>2. /\ entry' = entry
          /\ share' = [share EXCEPT ![s] = req[r].id]
          /\ Exists(entry, req[r].id)
      BY <3>1 DEF ShareInsert
    <3> QED BY <1>1, <3>2 DEF SharesResolve, Exists, TypeOK
  <2>4. CASE /\ ~Commit(r) /\ ~PurgeDelete(r)
             /\ ~\E s \in Shares : ShareInsert(r, s)
    <3>1. share' = share
      BY <1>4, <2>4 DEF RequestStep, CreateCheck, CreateInsert, RenameCheck,
         RenameUpdate, MoveCheck, MoveContains, MoveUpdate, BatchMove, BatchTrash,
         TrashEntry, BatchCheck, BatchMoveOne, TrashOne, RestoreCheck,
         RestoreUpdate, PurgeLock, PurgeList, PhotosAdopt, PhotosInsert,
         ShareCheck, RequestFail
    <3>2. \A e \in Entries : entry[e].kind # "none" => entry'[e].kind # "none"
      BY <1>4, <2>4, StepKinds DEF Quiet, Inserted, OneWritten, TypeOK
    <3> QED BY <1>2, <3>1, <3>2
  <2> QED BY <2>1, <2>2, <2>3, <2>4
<1>5. CASE UNCHANGED vars
  BY <1>2, <1>5 DEF vars
<1> QED BY <1>3, <1>4, <1>5 DEF Next

\* A valid share always leads to an entry that is there, although create_share
\* checks it without a lock while purges run.
THEOREM SharesHaveEntries == Spec => []SharesResolve
<1>1. Init => TypeOK /\ RowsInv /\ SharesResolve
  BY InitInv DEF Init, SharesResolve
<1>2. TypeOK /\ RowsInv /\ SharesResolve /\ [Next]_vars
        => (TypeOK /\ RowsInv /\ SharesResolve)'
  BY TypeStep, RowsStep, SharesStep
<1> QED BY <1>1, <1>2, PTL DEF Spec

\* In every behaviour in which no two transactions have uncommitted moves at the
\* same time, the committed tree and what every transaction sees have no cycle,
\* and uncommitted rows stay below folders that exist.  Checks, updates and
\* commits of any number of moves, trashes, restores and purges overlap freely
\* otherwise; that two overlapping moves are all it takes is MCMoveCycle.
THEOREM TreeInvariance == SerialSpec => []TreeInv
<1> DEFINE I == TypeOK /\ RowsInv /\ CycleInv /\ SerialMoves
<1>1. Init => I
  BY InitInv DEF Init, Idle, SerialMoves, Moving, Written
<1>2. I /\ [Next /\ SerialMoves']_vars => I'
  <2> SUFFICES ASSUME I, [Next /\ SerialMoves']_vars PROVE I'
    OBVIOUS
  <2>1. [Next]_vars
    OBVIOUS
  <2>2. CASE SerialMoves'
    BY <2>1, <2>2, TypeStep, RowsStep, CyclesStep
  <2>3. CASE UNCHANGED vars
    <3>1. SerialMoves'
      BY <2>3 DEF vars, SerialMoves, Moving, Written
    <3> QED BY <2>1, <3>1, TypeStep, RowsStep, CyclesStep
  <2> QED BY <2>2, <2>3
<1>3. I => TreeInv
  BY DEF RowsInv, CycleInv, TreeInv
<1> QED BY <1>1, <1>2, <1>3, PTL DEF SerialSpec

\* A folder gets below itself only when two moves overlap uncommitted: neither a
\* stale folder_contains nor what is created, renamed, trashed, restored or
\* purged meanwhile is enough.
THEOREM SerialMovesAcyclic == SerialSpec => []Acyclic
<1>1. TreeInv => Acyclic
  BY DEF TreeInv, Acyclic
<1> QED BY <1>1, TreeInvariance, PTL
=============================================================================
