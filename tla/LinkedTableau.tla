---------------------------- MODULE LinkedTableau ---------------------------
(***************************************************************************)
(* Tableau.h: the sparse matrix of the equations, every entry on a doubly  *)
(* linked list of its row and on one of its column.  Its operations walk   *)
(* such lists while they erase, move and add entries, so each turn of a    *)
(* loop is an action here: op, cursor and dense are the local variables of *)
(* the operation under way, pivoting those of Reluplex::pivot around it.   *)
(* The clients (Reluplex.h, GlpkWrapper.h) decide which operation is next. *)
(*                                                                         *)
(* Doubles are integers modulo Modulus: enough to tell which terms were    *)
(* added to a cell, and to let sums, and products when Modulus is not a    *)
(* prime, vanish as small doubles do (FloatUtils::isZero).                 *)
(***************************************************************************)
EXTENDS Integers, FiniteSets

CONSTANTS
  Size,           \* the number of variables
  Modulus,
  Weight,         \* the weights the driver writes into the rows
  GlpkWeight,     \* the weights extractTableau writes into them
  Entry,          \* the addresses an entry may have
  NULL,
  InitialBasic,   \* the variables with a row at first, all of them auxiliary
  Pairs,          \* <<b, f>> for every ReLU
  MaxOperations   \* bound: calls of the client, the driver's addEntry and store aside

ASSUME SizesAssumption ==
  /\ Size \in Nat \ {0}
  /\ Modulus \in Nat \ {0, 1}
  /\ Weight \union GlpkWeight \subseteq 0 .. Modulus - 1
  /\ NULL \notin Entry
  /\ InitialBasic \subseteq 0 .. Size - 1
  /\ Pairs \subseteq (0 .. Size - 1) \X (0 .. Size - 1)
  /\ \A pair \in Pairs : pair[1] # pair[2]
  /\ MaxOperations \in Nat

Variable == 0 .. Size - 1
Value == 0 .. Modulus - 1
MinusOne == Modulus - 1
Plus(x, y) == (x + y) % Modulus
Times(x, y) == (x * y) % Modulus
Matrix == {"tableau", "preprocessed"}
Other(m) == IF m = "tableau" THEN "preprocessed" ELSE "tableau"
Link == Entry \union {NULL}

VARIABLES
  live,            \* the entries allocated and not deleted
  cell,            \* their contents; a deleted one keeps its last
  byRow, byColumn, \* the lists: head and size of each, links of each entry
  op, cursor, dense, pivoting,
  basicVariables,  \* _basicVariables, _preprocessedBasicVariables
  dropped,         \* per matrix, the columns eliminated or merged away
  filling,         \* how many cells of the rows being written are done
  stored,          \* storePreprocessedMatrix has been called
  operations,      \* counts the calls of the client
  before           \* history: the two matrices when the call began

heap == <<live, cell, byRow, byColumn>>
locals == <<op, cursor, dense, pivoting>>
client == <<basicVariables, dropped, filling, stored, operations, before>>
vars == <<heap, locals, client>>

(***************************************************************************)
(* Lists.  A list family has for every matrix and every row (or column) a  *)
(* head and a size, and for every entry the links _next and _prev.         *)
(***************************************************************************)
Empty == [head |-> [l \in Matrix \X Variable |-> NULL],
          size |-> [l \in Matrix \X Variable |-> 0],
          next |-> [e \in Entry |-> NULL],
          prev |-> [e \in Entry |-> NULL]]

\* The new head: all insertions happen at the front.
PushFront(lists, l, e) ==
  [head |-> [lists.head EXCEPT ![l] = e],
   size |-> [lists.size EXCEPT ![l] = @ + 1],
   next |-> [lists.next EXCEPT ![e] = lists.head[l]],
   prev |-> [x \in Entry |-> IF x = e THEN NULL
                             ELSE IF x = lists.head[l] THEN e
                             ELSE lists.prev[x]]]

\* Mutant: the head keeps pointing to e.
UnlinkKeepsHead(lists, l, e) ==
  [lists EXCEPT !.size[l] = @ - 1,
                !.next = [x \in Entry |-> IF x = lists.prev[e] THEN lists.next[e]
                                          ELSE lists.next[x]],
                !.prev = [x \in Entry |-> IF x = lists.next[e] THEN lists.prev[e]
                                          ELSE lists.prev[x]]]

\* The neighbours, or the head, let go of e; e keeps its links.
Unlink(lists, l, e) ==
  [head |-> IF lists.head[l] = e
            THEN [lists.head EXCEPT ![l] = lists.next[e]] ELSE lists.head,
   size |-> [lists.size EXCEPT ![l] = @ - 1],
   next |-> [x \in Entry |-> IF x = lists.prev[e] THEN lists.next[e]
                             ELSE lists.next[x]],
   prev |-> [x \in Entry |-> IF x = lists.next[e] THEN lists.prev[e]
                             ELSE lists.prev[x]]]

\* _rows[i] = NULL; _rowSize[i] = 0, for the lists in ls.
Reset(lists, ls) ==
  [head |-> [l \in Matrix \X Variable |-> IF l \in ls THEN NULL ELSE lists.head[l]],
   size |-> [l \in Matrix \X Variable |-> IF l \in ls THEN 0 ELSE lists.size[l]],
   next |-> lists.next,
   prev |-> lists.prev]

RowList(e) == <<cell[e].matrix, cell[e].row>>
ColumnList(e) == <<cell[e].matrix, cell[e].column>>
InRow(m, r) == {e \in live : RowList(e) = <<m, r>>}
InColumn(m, c) == {e \in live : ColumnList(e) = <<m, c>>}

\* getCell
Cell(m, r, c) ==
  IF \E e \in InRow(m, r) : cell[e].column = c
  THEN cell[CHOOSE e \in InRow(m, r) : cell[e].column = c].value ELSE 0
MatrixOf(m) == [r \in Variable |-> [c \in Variable |-> Cell(m, r, c)]]

-----------------------------------------------------------------------------
(***************************************************************************)
(* One entry.                                                              *)
(***************************************************************************)
AddEntry(m, r, c, v) ==
  IF v = 0 THEN UNCHANGED heap
  ELSE LET e == CHOOSE x \in Entry \ live : TRUE IN
       /\ live # Entry
       /\ live' = live \union {e}
       /\ cell' = [cell EXCEPT ![e] = [matrix |-> m, row |-> r,
                                       column |-> c, value |-> v]]
       /\ byRow' = PushFront(byRow, <<m, r>>, e)
       /\ byColumn' = PushFront(byColumn, <<m, c>>, e)

\* setValue, then eraseEntry when the value became zero.
SetValue(e, v) ==
  /\ cell' = [cell EXCEPT ![e] = [cell[e] EXCEPT !.value = v]]
  /\ IF v # 0 THEN UNCHANGED <<live, byRow, byColumn>>
     ELSE /\ live' = live \ {e}
          /\ byRow' = Unlink(byRow, RowList(e), e)
          /\ byColumn' = Unlink(byColumn, ColumnList(e), e)

DeleteAllEntries(m) ==
  /\ live' = {e \in live : cell[e].matrix # m}
  /\ byRow' = Reset(byRow, {m} \X Variable)
  /\ byColumn' = Reset(byColumn, {m} \X Variable)
  /\ UNCHANGED cell

(***************************************************************************)
(* The operations that loop.  Begin sets the local variables, one action   *)
(* per operation makes a turn, and Return ends the loop.                   *)
(***************************************************************************)
NoOp == [kind |-> "none", matrix |-> "tableau", source |-> 0, target |-> 0,
         scale |-> 0, index |-> 0, value |-> 0]
NoDense == [i \in Variable |-> NULL]
NoPivot == [stage |-> "none", nonBasic |-> 0, basic |-> 0, cursor |-> NULL]

Returned == op.kind = "none"
Idle == Returned /\ pivoting.stage = "none"

\* _denseMap: the entry of a row by its column, or the other way around
DenseRow(r) ==
  [c \in Variable |-> IF \E e \in InRow("tableau", r) : cell[e].column = c
                      THEN CHOOSE e \in InRow("tableau", r) : cell[e].column = c
                      ELSE NULL]
DenseColumn(c) ==
  [r \in Variable |-> IF \E e \in InColumn("tableau", c) : cell[e].row = r
                      THEN CHOOSE e \in InColumn("tableau", c) : cell[e].row = r
                      ELSE NULL]

EraseRow(r) ==
  /\ op' = [NoOp EXCEPT !.kind = "eraseRow", !.source = r]
  /\ cursor' = byRow.head[<<"tableau", r>>]
  /\ UNCHANGED <<heap, dense>>

EraseColumn(c) ==
  /\ op' = [NoOp EXCEPT !.kind = "eraseColumn", !.source = c]
  /\ cursor' = byColumn.head[<<"tableau", c>>]
  /\ UNCHANGED <<heap, dense>>

AddScaledRow(source, scale, target, index, value) ==
  /\ IF byRow.head[<<"tableau", source>>] = NULL THEN UNCHANGED <<op, cursor, dense>>
     ELSE /\ op' = [kind |-> "addScaledRow", matrix |-> "tableau",
                    source |-> source, target |-> target, scale |-> scale,
                    index |-> index, value |-> value]
          /\ cursor' = byRow.head[<<"tableau", source>>]
          /\ dense' = DenseRow(target)
  /\ UNCHANGED heap

AddColumnEraseSource(source, target) ==
  /\ IF byColumn.head[<<"tableau", source>>] = NULL THEN UNCHANGED <<op, cursor, dense>>
     ELSE /\ op' = [NoOp EXCEPT !.kind = "addColumn", !.source = source,
                                !.target = target]
          /\ cursor' = byColumn.head[<<"tableau", source>>]
          /\ dense' = DenseColumn(target)
  /\ UNCHANGED heap

\* Mutant: the sizes stay those of the matrix that was overwritten.
BackupIntoMatrixOldSizes(m) ==
  LET Prepared(lists) ==
        [lists EXCEPT !.head = [l \in Matrix \X Variable |->
                                  IF l[1] = m THEN lists.head[l] ELSE NULL]]
  IN
  /\ live' = {e \in live : cell[e].matrix = m}
  /\ byRow' = Prepared(byRow)
  /\ byColumn' = Prepared(byColumn)
  /\ op' = [NoOp EXCEPT !.kind = "copy", !.matrix = m]
  /\ cursor' = byRow.head[<<m, 0>>]
  /\ UNCHANGED <<cell, dense>>

\* The other matrix is emptied and given the sizes; source is the row being
\* copied.
BackupIntoMatrix(m) ==
  LET Prepared(lists) ==
        [head |-> [l \in Matrix \X Variable |->
                     IF l[1] = m THEN lists.head[l] ELSE NULL],
         size |-> [l \in Matrix \X Variable |-> lists.size[<<m, l[2]>>]],
         next |-> lists.next,
         prev |-> lists.prev]
  IN
  /\ live' = {e \in live : cell[e].matrix = m}
  /\ byRow' = Prepared(byRow)
  /\ byColumn' = Prepared(byColumn)
  /\ op' = [NoOp EXCEPT !.kind = "copy", !.matrix = m]
  /\ cursor' = byRow.head[<<m, 0>>]
  /\ UNCHANGED <<cell, dense>>

Return == op' = NoOp /\ cursor' = NULL /\ dense' = NoDense

EraseRowStep ==
  /\ op.kind = "eraseRow"
  /\ IF cursor = NULL
     THEN /\ byRow' = Reset(byRow, {<<"tableau", op.source>>})
          /\ Return
          /\ UNCHANGED <<live, cell, byColumn>>
     ELSE /\ byColumn' = Unlink(byColumn, ColumnList(cursor), cursor)
          /\ live' = live \ {cursor}
          /\ cursor' = byRow.next[cursor]
          /\ UNCHANGED <<cell, byRow, op, dense>>

EraseColumnStep ==
  /\ op.kind = "eraseColumn"
  /\ IF cursor = NULL
     THEN /\ byColumn' = Reset(byColumn, {<<"tableau", op.source>>})
          /\ Return
          /\ UNCHANGED <<live, cell, byRow>>
     ELSE /\ byRow' = Unlink(byRow, RowList(cursor), cursor)
          /\ live' = live \ {cursor}
          /\ cursor' = byColumn.next[cursor]
          /\ UNCHANGED <<cell, byColumn, op, dense>>

AddScaledRowStep ==
  /\ op.kind = "addScaledRow"
  /\ IF cursor = NULL THEN Return /\ UNCHANGED heap
     ELSE LET column == cell[cursor].column
              newValue == Times(cell[cursor].value, op.scale)
              entry == dense[column]
              sum == IF column = op.index THEN op.value
                     ELSE IF entry = NULL THEN newValue
                     ELSE Plus(cell[entry].value, newValue)
          IN
          /\ cursor' = byRow.next[cursor]
          /\ IF entry = NULL
             THEN AddEntry("tableau", op.target, column, sum) /\ UNCHANGED dense
             ELSE /\ SetValue(entry, sum)
                  /\ dense' = IF sum = 0 THEN [dense EXCEPT ![column] = NULL]
                              ELSE dense
          /\ UNCHANGED op

\* Mutants: the partner's value is overwritten; every entry is stolen; the next
\* entry is read when this one is in the other column.
AddColumnStepOverwrites ==
  LET row == cell[cursor].row
      entry == dense[row]
  IN
  /\ op.kind = "addColumn"
  /\ IF cursor = NULL THEN EraseColumn(op.source)
     ELSE /\ cursor' = byColumn.next[cursor]
          /\ IF entry # NULL
             THEN SetValue(entry, cell[cursor].value)
             ELSE /\ byColumn' = PushFront(
                       Unlink(byColumn, <<"tableau", op.source>>, cursor),
                       <<"tableau", op.target>>, cursor)
                  /\ cell' = [cell EXCEPT ![cursor].column = op.target]
                  /\ UNCHANGED <<live, byRow>>
          /\ UNCHANGED <<op, dense>>

AddColumnStepReadsLate ==
  LET row == cell[cursor].row
      entry == dense[row]
  IN
  /\ op.kind = "addColumn"
  /\ IF cursor = NULL THEN EraseColumn(op.source)
     ELSE /\ IF entry # NULL
             THEN /\ SetValue(entry, Plus(cell[entry].value, cell[cursor].value))
                  /\ cursor' = byColumn.next[cursor]
             ELSE /\ byColumn' = PushFront(
                       Unlink(byColumn, <<"tableau", op.source>>, cursor),
                       <<"tableau", op.target>>, cursor)
                  /\ cursor' = byColumn'.next[cursor]
                  /\ cell' = [cell EXCEPT ![cursor].column = op.target]
                  /\ UNCHANGED <<live, byRow>>
          /\ UNCHANGED <<op, dense>>

AddColumnStepSteals ==
  /\ op.kind = "addColumn"
  /\ IF cursor = NULL THEN EraseColumn(op.source)
     ELSE /\ cursor' = byColumn.next[cursor]
          /\ byColumn' = PushFront(
               Unlink(byColumn, <<"tableau", op.source>>, cursor),
               <<"tableau", op.target>>, cursor)
          /\ cell' = [cell EXCEPT ![cursor].column = op.target]
          /\ UNCHANGED <<live, byRow, op, dense>>

\* An entry with no partner in the target column is stolen; the others are
\* added to their partner and left to eraseColumn.
AddColumnStep ==
  /\ op.kind = "addColumn"
  /\ IF cursor = NULL THEN EraseColumn(op.source)
     ELSE LET row == cell[cursor].row
              entry == dense[row]
              sum == Plus(cell[entry].value, cell[cursor].value)
              source == <<"tableau", op.source>>
              target == <<"tableau", op.target>>
          IN
          /\ cursor' = byColumn.next[cursor]
          /\ IF entry # NULL
             THEN /\ SetValue(entry, sum)
                  /\ dense' = IF sum = 0 THEN [dense EXCEPT ![row] = NULL]
                              ELSE dense
             ELSE /\ byColumn' = PushFront(Unlink(byColumn, source, cursor),
                                           target, cursor)
                  /\ cell' = [cell EXCEPT ![cursor] =
                                [cell[cursor] EXCEPT !.column = op.target]]
                  /\ UNCHANGED <<live, byRow, dense>>
          /\ UNCHANGED op

\* Mutants: the loop over the rows makes a turn too many; it repeats a row.
CopyStepPastEnd ==
  /\ op.kind = "copy" /\ cursor = NULL
  /\ op' = [op EXCEPT !.source = op.source + 1]
  /\ UNCHANGED <<heap, cursor, dense>>

CopyStepRepeats ==
  LET o == Other(op.matrix)
      e == CHOOSE x \in Entry \ live : TRUE
  IN
  /\ op.kind = "copy" /\ live # Entry
  /\ IF cursor = NULL
     THEN cursor' = byRow.head[<<op.matrix, op.source>>] /\ UNCHANGED heap
     ELSE /\ live' = live \union {e}
          /\ cell' = [cell EXCEPT ![e] = [cell[cursor] EXCEPT !.matrix = o]]
          /\ byRow' = PushFront(byRow, <<o, cell[cursor].row>>, e)
          /\ byColumn' = PushFront(byColumn, <<o, cell[cursor].column>>, e)
          /\ cursor' = byRow.next[cursor]
  /\ UNCHANGED <<op, dense>>

\* The sizes of the copy are those of the original already.
CopyStep ==
  LET o == Other(op.matrix)
      Sized(lists, new) == [new EXCEPT !.size = lists.size]
      e == CHOOSE x \in Entry \ live : TRUE
      r == cell[cursor].row
      c == cell[cursor].column
  IN
  /\ op.kind = "copy"
  /\ IF cursor # NULL
     THEN /\ live # Entry
          /\ live' = live \union {e}
          /\ cell' = [cell EXCEPT ![e] = [cell[cursor] EXCEPT !.matrix = o]]
          /\ byRow' = Sized(byRow, PushFront(byRow, <<o, r>>, e))
          /\ byColumn' = Sized(byColumn, PushFront(byColumn, <<o, c>>, e))
          /\ cursor' = byRow.next[cursor]
          /\ UNCHANGED <<op, dense>>
     ELSE /\ IF op.source + 1 \in Variable
             THEN /\ op' = [op EXCEPT !.source = op.source + 1]
                  /\ cursor' = byRow.head[<<op.matrix, op.source + 1>>]
                  /\ UNCHANGED dense
             ELSE Return
          /\ UNCHANGED heap

-----------------------------------------------------------------------------
(***************************************************************************)
(* The clients.  The rows are written by the driver (initializeCell) or by *)
(* GlpkWrapper::extractTableau, for every basic variable a row with -1 on  *)
(* the diagonal and weights of non-basic variables.                        *)
(***************************************************************************)
Call == Idle /\ filling = Size * Size /\ operations < MaxOperations
Calls ==
  /\ operations' = operations + 1
  /\ before' = [m \in Matrix |-> MatrixOf(m)]

FillCell ==
  LET r == filling \div Size
      c == filling % Size
  IN
  /\ Idle /\ filling < Size * Size
  /\ filling' = filling + 1
  /\ \E v \in IF r \notin basicVariables["tableau"] THEN {0}
              ELSE IF c = r THEN {MinusOne}
              ELSE IF c \in basicVariables["tableau"] \union dropped["tableau"] THEN {0}
              ELSE IF stored THEN GlpkWeight ELSE Weight :
       AddEntry("tableau", r, c, v)
  /\ UNCHANGED <<locals, basicVariables, dropped, stored, operations, before>>

\* GLPK may leave the search with any basis.
ExtractTableau ==
  /\ Call /\ stored
  /\ Calls
  /\ \E B \in SUBSET (Variable \ dropped["tableau"]) :
       /\ Cardinality(B) = Cardinality(basicVariables["tableau"])
       /\ basicVariables' = [basicVariables EXCEPT !["tableau"] = B]
  /\ DeleteAllEntries("tableau")
  /\ filling' = 0
  /\ UNCHANGED <<locals, dropped, stored>>

(***************************************************************************)
(* Reluplex::pivot.  Any scale: -1 over the pivot rounds as it may, the    *)
(* guaranteed values make the column of the entering variable exact.       *)
(***************************************************************************)
Pivot(nonBasic, basic, scale) ==
  /\ Call
  /\ Calls
  /\ nonBasic \notin basicVariables["tableau"]
  /\ basic \in basicVariables["tableau"]
  /\ Cell("tableau", basic, nonBasic) # 0
  /\ basicVariables' = [basicVariables EXCEPT
       !["tableau"] = (@ \ {basic}) \union {nonBasic}]
  /\ AddScaledRow(basic, scale, nonBasic, nonBasic, MinusOne)
  /\ pivoting' = [NoPivot EXCEPT !.stage = "moved", !.nonBasic = nonBasic,
                                 !.basic = basic]
  /\ UNCHANGED <<dropped, filling, stored>>

PivotEraseRow ==
  /\ Returned /\ pivoting.stage = "moved"
  /\ EraseRow(pivoting.basic)
  /\ pivoting' = [pivoting EXCEPT !.stage = "erased"]
  /\ UNCHANGED client

PivotReadColumn ==
  /\ Returned /\ pivoting.stage = "erased"
  /\ pivoting' = [pivoting EXCEPT !.stage = "column",
       !.cursor = byColumn.head[<<"tableau", pivoting.nonBasic>>]]
  /\ UNCHANGED <<heap, op, cursor, dense, client>>

PivotClearCell ==
  LET current == pivoting.cursor
      row == cell[current].row
  IN
  /\ Returned /\ pivoting.stage = "column"
  /\ IF current = NULL
     THEN pivoting' = NoPivot /\ UNCHANGED <<heap, op, cursor, dense>>
     ELSE /\ pivoting' = [pivoting EXCEPT !.cursor = byColumn.next[current]]
          /\ IF row = pivoting.nonBasic THEN UNCHANGED <<heap, op, cursor, dense>>
             ELSE AddScaledRow(pivoting.nonBasic, cell[current].value, row,
                               pivoting.nonBasic, 0)
  /\ UNCHANGED client

\* unifyReluPair, once neither variable is basic
UnifyReluPair(b, f) ==
  /\ Call
  /\ Calls
  /\ byColumn.size[<<"tableau", b>>] # 0
  /\ {b, f} \intersect basicVariables["tableau"] = {}
  /\ AddColumnEraseSource(b, f)
  /\ dropped' = [dropped EXCEPT !["tableau"] = @ \union {b}]
  /\ UNCHANGED <<pivoting, basicVariables, filling, stored>>

\* The end of eliminateIfPossible: the pivot before it is Pivot.
Eliminate(aux) ==
  /\ Call /\ ~stored
  /\ Calls
  /\ aux \in InitialBasic \ (basicVariables["tableau"] \union dropped["tableau"])
  /\ EraseColumn(aux)
  /\ dropped' = [dropped EXCEPT !["tableau"] = @ \union {aux}]
  /\ UNCHANGED <<pivoting, basicVariables, filling, stored>>

StorePreprocessedMatrix ==
  /\ Idle /\ filling = Size * Size /\ ~stored
  /\ before' = [m \in Matrix |-> MatrixOf(m)]
  /\ BackupIntoMatrix("tableau")
  /\ stored' = TRUE
  /\ basicVariables' = [m \in Matrix |-> basicVariables["tableau"]]
  /\ dropped' = [m \in Matrix |-> dropped["tableau"]]
  /\ UNCHANGED <<pivoting, filling, operations>>

RestoreTableauFromBackup ==
  /\ Call /\ stored
  /\ Calls
  /\ BackupIntoMatrix("preprocessed")
  /\ basicVariables' = [m \in Matrix |-> basicVariables["preprocessed"]]
  /\ dropped' = [m \in Matrix |-> dropped["preprocessed"]]
  /\ UNCHANGED <<pivoting, filling, stored>>

Init ==
  /\ live = {}
  /\ cell = [e \in Entry |-> [matrix |-> "tableau", row |-> 0, column |-> 0,
                              value |-> 0]]
  /\ byRow = Empty /\ byColumn = Empty
  /\ op = NoOp /\ cursor = NULL /\ dense = NoDense /\ pivoting = NoPivot
  /\ basicVariables = [m \in Matrix |-> InitialBasic]
  /\ dropped = [m \in Matrix |-> {}]
  /\ filling = 0 /\ stored = FALSE /\ operations = 0
  /\ before = [m \in Matrix |-> MatrixOf(m)]

Loop ==
  /\ EraseRowStep \/ EraseColumnStep \/ AddScaledRowStep \/ AddColumnStep \/ CopyStep
  /\ UNCHANGED <<pivoting, client>>

Step == Loop \/ PivotEraseRow \/ PivotReadColumn \/ PivotClearCell

Client ==
  \/ FillCell
  \/ ExtractTableau
  \/ \E nb, b \in Variable, k \in Value \ {0} : Pivot(nb, b, k)
  \/ \E pair \in Pairs : UnifyReluPair(pair[1], pair[2])
  \/ \E aux \in Variable : Eliminate(aux)
  \/ StorePreprocessedMatrix
  \/ RestoreTableauFromBackup

Next == Step \/ Client

\* The loops run to their end: nothing else happens while one is under way.
Spec == Init /\ [][Next]_vars /\ WF_vars(Step)

-----------------------------------------------------------------------------
(***************************************************************************)
(* Properties.                                                             *)
(***************************************************************************)
ListsOK == [head : [Matrix \X Variable -> Link], size : [Matrix \X Variable -> Int],
            next : [Entry -> Link], prev : [Entry -> Link]]
CellOK == [matrix : Matrix, row : Variable, column : Variable, value : Value]
OpOK == [kind : {"none", "eraseRow", "eraseColumn", "addScaledRow", "addColumn",
                 "copy"},
         matrix : Matrix, source : Variable, target : Variable, scale : Value,
         index : Variable, value : Value]
PivotOK == [stage : {"none", "moved", "erased", "column"}, nonBasic : Variable,
            basic : Variable, cursor : Link]

\* Every variable has the values its C++ type and its use allow.
TableauTypeOK ==
  /\ live \subseteq Entry
  /\ cell \in [Entry -> CellOK]
  /\ byRow \in ListsOK /\ byColumn \in ListsOK
  /\ op \in OpOK
  /\ cursor \in Link
  /\ dense \in [Variable -> Link]
  /\ pivoting \in PivotOK
  /\ basicVariables \in [Matrix -> SUBSET Variable]
  /\ dropped \in [Matrix -> SUBSET Variable]
  /\ filling \in 0 .. Size * Size
  /\ stored \in BOOLEAN
  /\ operations \in 0 .. MaxOperations

(***************************************************************************)
(* The members of R are the list that starts at first: links mirror each   *)
(* other, and no part of R is closed on itself.                            *)
(***************************************************************************)
Chain(lists, R, first) ==
  /\ first \in R \/ (first = NULL /\ R = {})
  /\ \A e \in R :
       /\ lists.next[e] = NULL \/ (lists.next[e] \in R /\ lists.prev[lists.next[e]] = e)
       /\ e # first => (lists.prev[e] \in R /\ lists.next[lists.prev[e]] = e)
  /\ \A T \in SUBSET R : T # {} => \E e \in T : lists.prev[e] \notin T

List(lists, R, l) ==
  /\ Chain(lists, R, lists.head[l])
  /\ lists.head[l] # NULL => lists.prev[lists.head[l]] = NULL

ErasedRows == IF op.kind = "eraseRow" THEN {<<"tableau", op.source>>} ELSE {}
ErasedColumns == IF op.kind = "eraseColumn" THEN {<<"tableau", op.source>>} ELSE {}

(***************************************************************************)
(* At every turn of every loop the entries of a row, and of a column, are  *)
(* exactly the list that starts at its head (but for the list eraseRow or  *)
(* eraseColumn is freeing), and no two entries share a cell: addEntry      *)
(* assumes "that the entry does not currently exist".                      *)
(***************************************************************************)
ListsLinked ==
  \A m \in Matrix, i \in Variable :
    /\ <<m, i>> \notin ErasedRows => List(byRow, InRow(m, i), <<m, i>>)
    /\ <<m, i>> \notin ErasedColumns => List(byColumn, InColumn(m, i), <<m, i>>)
CellsUnique ==
  \A d, e \in live : RowList(d) = RowList(e) /\ ColumnList(d) = ColumnList(e) => d = e

(***************************************************************************)
(* What the loops hold survives their turns: the cursor is an entry of the *)
(* list walked and what is left of that list hangs from it, the cursor of  *)
(* pivot is an entry of the entering variable's column, and the dense map  *)
(* holds live entries, with every one of the target that an entry still to *)
(* come will be added to.  No entry still to be copied has a copy.         *)
(***************************************************************************)
Left(lists, R, first) == {Q \in SUBSET R : Chain(lists, Q, first)}
RowScanned ==
  /\ \A c \in Variable : dense[c] # NULL =>
       dense[c] \in InRow("tableau", op.target) /\ cell[dense[c]].column = c
  /\ \E Q \in Left(byRow, InRow("tableau", op.source), cursor) :
       \A e \in Q, d \in InRow("tableau", op.target) :
         cell[d].column = cell[e].column => dense[cell[e].column] = d
ColumnScanned ==
  /\ \A r \in Variable : dense[r] # NULL =>
       dense[r] \in InColumn("tableau", op.target) /\ cell[dense[r]].row = r
  /\ \E Q \in Left(byColumn, InColumn("tableau", op.source), cursor) :
       \A e \in Q, d \in InColumn("tableau", op.target) :
         cell[d].row = cell[e].row => dense[cell[e].row] = d
RowsCopied ==
  \E Q \in Left(byRow, InRow(op.matrix, op.source), cursor) :
    \A d \in live : cell[d].matrix = Other(op.matrix) =>
      \/ cell[d].row < op.source
      \/ cell[d].row = op.source /\ \A e \in Q : cell[e].column # cell[d].column
CursorsLive ==
  /\ op.kind = "none" => cursor = NULL
  /\ op.kind = "eraseRow" => Chain(byRow, InRow("tableau", op.source), cursor)
  /\ op.kind = "eraseColumn" => Chain(byColumn, InColumn("tableau", op.source), cursor)
  /\ op.kind = "addScaledRow" => RowScanned
  /\ op.kind = "addColumn" => ColumnScanned
  /\ op.kind = "copy" => RowsCopied
  /\ pivoting.stage = "column" =>
       Left(byColumn, InColumn("tableau", pivoting.nonBasic), pivoting.cursor) # {}

\* getColumnSize, which unifyReluPair trusts, counts the entries.
SizesRight ==
  op.kind \in {"none", "addScaledRow", "addColumn"} =>
    \A m \in Matrix, i \in Variable :
      /\ byRow.size[<<m, i>>] = Cardinality(InRow(m, i))
      /\ byColumn.size[<<m, i>>] = Cardinality(InColumn(m, i))

(***************************************************************************)
(* Seen between calls, the lists are the matrix their callers mean.        *)
(***************************************************************************)
Seen(m) == IF Idle THEN MatrixOf(m) ELSE before[m]
MatrixSeen == Seen("tableau")
SavedSeen == Seen("preprocessed")
Abstract == INSTANCE SparseMatrix WITH matrix <- MatrixSeen, saved <- SavedSeen
ImplementsMatrix == Abstract!Spec

\* The loops end, though they add and erase entries of the lists they walk.
LoopsEnd == ~Idle ~> Idle
=============================================================================
