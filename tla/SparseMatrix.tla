---------------------------- MODULE SparseMatrix ----------------------------
(***************************************************************************)
(* What the tableau promises its callers: a square matrix of which all     *)
(* cells are zero at first, a pivot, the sum of two columns, and a second  *)
(* matrix to copy it to and from.  Values are integers modulo Modulus.     *)
(***************************************************************************)
EXTENDS Integers

CONSTANTS Size, Modulus

Variable == 0 .. Size - 1
Value == 0 .. Modulus - 1
MinusOne == Modulus - 1
Plus(x, y) == (x + y) % Modulus
Times(x, y) == (x * y) % Modulus

VARIABLES matrix, saved

ZeroMatrix == [r \in Variable |-> [c \in Variable |-> 0]]

Init == matrix = ZeroMatrix /\ saved = ZeroMatrix

SetCell(r, c, v) ==
  /\ matrix[r][c] = 0
  /\ matrix' = [matrix EXCEPT ![r][c] = v]
  /\ UNCHANGED saved

(***************************************************************************)
(* The row of the leaving variable, scaled by k, becomes the row of the    *)
(* entering one, whose own cell is -1 whatever k; it is then added to all  *)
(* rows so often that their cells in its column vanish.  In exact          *)
(* arithmetic k is -1 over the pivot; here it may be any rounding of it.   *)
(***************************************************************************)
Pivot(nonBasic, basic, k) ==
  LET newRow == [c \in Variable |-> IF c = nonBasic THEN MinusOne
                                    ELSE Times(k, matrix[basic][c])]
  IN
  /\ nonBasic # basic
  /\ matrix[basic][nonBasic] # 0
  /\ matrix' = [r \in Variable |->
                  IF r = nonBasic THEN newRow
                  ELSE [c \in Variable |->
                          IF r = basic \/ c = nonBasic THEN 0
                          ELSE Plus(matrix[r][c],
                                    Times(matrix[r][nonBasic], newRow[c]))]]
  /\ UNCHANGED saved

\* Column b is added to column f and cleared.
MergeColumns(b, f) ==
  /\ b # f
  /\ matrix' = [r \in Variable |->
                  [matrix[r] EXCEPT ![f] = Plus(matrix[r][f], matrix[r][b]),
                                    ![b] = 0]]
  /\ UNCHANGED saved

ClearColumn(c) ==
  /\ matrix' = [r \in Variable |-> [matrix[r] EXCEPT ![c] = 0]]
  /\ UNCHANGED saved

Clear == matrix' = ZeroMatrix /\ UNCHANGED saved

Save == saved' = matrix /\ UNCHANGED matrix
Restore == matrix' = saved /\ UNCHANGED saved

Next ==
  \/ \E r, c \in Variable, v \in Value : SetCell(r, c, v)
  \/ \E nb, b \in Variable, k \in Value : Pivot(nb, b, k)
  \/ \E b, f \in Variable : MergeColumns(b, f)
  \/ \E c \in Variable : ClearColumn(c)
  \/ Clear \/ Save \/ Restore

Spec == Init /\ [][Next]_<<matrix, saved>>
=============================================================================
