-------------------------------- MODULE Matrix --------------------------------
(* The vectors and matrices of Math over exact numbers: the decomposition  *)
(* P A = L U with a choice of the pivot, column by column, the inverse     *)
(* solved from it, the determinants, transposes and products.  What the    *)
(* rounding of a float adds is left out; so a pivot is too small only if   *)
(* it is zero.                                                             *)
EXTENDS Integers, Sequences, FiniteSets, SequencesExt, FiniteSetsExt, Functions

-----------------------------------------------------------------------------
(* Numbers: fractions in lowest terms.                                     *)
gcd[x \in Nat, y \in Nat] == IF y = 0 THEN x ELSE gcd[y, x % y]

Abs(x) == IF x < 0 THEN -x ELSE x

Q(x, y) == LET g == gcd[Abs(x), Abs(y)] s == IF y < 0 THEN -1 ELSE 1
           IN  <<(s * x) \div g, (s * y) \div g>>
Whole(x)       == <<x, 1>>
Plus(x, y)     == Q(x[1] * y[2] + y[1] * x[2], x[2] * y[2])
Minus(x, y)    == Plus(x, <<-y[1], y[2]>>)
Times(x, y)    == Q(x[1] * y[1], x[2] * y[2])
Quotient(x, y) == Q(x[1] * y[2], x[2] * y[1])
Larger(x, y)   == Abs(x[1]) * y[2] > Abs(y[1]) * x[2]
Zero == Whole(0)

Total(f)   == FoldFunction(Plus, Zero, f)
Product(f) == FoldFunction(Times, Whole(1), f)

Range0(n)  == 0..(n - 1)
Dim(x)     == Cardinality(DOMAIN x)
Whole2(x)  == [i \in DOMAIN x |-> [j \in DOMAIN x |-> Whole(x[i][j])]]
Unit(n, c) == [i \in Range0(n) |-> Whole(IF i = c THEN 1 ELSE 0)]
-----------------------------------------------------------------------------
(* Products, determinants, transposes.                                     *)
DotProduct(x, y) == Total([i \in DOMAIN x |-> Times(y[i], x[i])])

(* Normal is the root of it, Normalized divides by that root.              *)
NormalSquare(x) == DotProduct(x, x)

Column(x, j) == [i \in DOMAIN x |-> x[i][j]]
Mul(x, y)    == [i \in DOMAIN x |-> [j \in DOMAIN x |-> DotProduct(x[i], Column(y, j))]]
VecMat(v, x) == [j \in DOMAIN x |-> DotProduct(v, Column(x, j))]
MatVec(x, v) == [i \in DOMAIN x |-> DotProduct(x[i], v)]

(* The operators +=, -=, *= and /= of vectors and of matrices: entry by    *)
(* entry, a number in every place of a vector or of a row.                 *)
Each(op(_, _), x, y)    == [i \in DOMAIN x |-> op(x[i], y[i])]
EachRow(op(_, _), x, y) == [i \in DOMAIN x |-> Each(op, x[i], y[i])]
Fill(x, number)         == [i \in DOMAIN x |-> number]

Added(x, y)       == Each(Plus, x, y)
Subtracted(x, y)  == Each(Minus, x, y)
Scaled(x, number) == Each(Times, x, Fill(x, number))
Shifted(x, number) == Added(x, Fill(x, number))
Divided(x, number) == Each(Quotient, x, Fill(x, number))
RowsAdded(x, y)       == EachRow(Plus, x, y)
RowsSubtracted(x, y)  == EachRow(Minus, x, y)
RowsScaled(x, number) == [i \in DOMAIN x |-> Scaled(x[i], number)]
RowsShifted(x, number) == [i \in DOMAIN x |-> Shifted(x[i], number)]
RowsDivided(x, number) == [i \in DOMAIN x |-> Divided(x[i], number)]

CrossProduct(x, y) ==
  [i \in 0..2 |-> LET n == (i + 1) % 3 p == (i + 2) % 3
                  IN  Minus(Times(y[n], x[p]), Times(y[p], x[n]))]

\* mutant: the last product with the wrong sign
Det3Sign(x) ==
  LET s(i) == x[i \div 3][i % 3]
      p(i, j, l) == Times(s(i), Times(s(j), s(l)))
  IN  Minus(Minus(Plus(Plus(Plus(p(0, 4, 8), p(1, 5, 6)), p(3, 7, 2)), p(5, 7, 0)),
                  p(2, 4, 6)), p(1, 3, 8))

(* Matrix3x3::Det, and Det of a 4x4 matrix from its decomposition.         *)
Det3(x) ==
  LET s(i) == x[i \div 3][i % 3]
      p(i, j, l) == Times(s(i), Times(s(j), s(l)))
  IN  Minus(Minus(Minus(Plus(Plus(p(0, 4, 8), p(1, 5, 6)), p(3, 7, 2)),
                        p(2, 4, 6)), p(1, 3, 8)), p(5, 7, 0))
Det4(u) == Minus(Zero, Product([i \in DOMAIN u |-> u[i][i]]))

(* Three swaps; four shuffles and four more.                               *)
Swap(x, i, j) == [x EXCEPT ![i][j] = x[j][i], ![j][i] = x[i][j]]
Transpose3(x) == Swap(Swap(Swap(x, 0, 1), 0, 2), 1, 2)

Shuffle(x, y, mask) ==
  [i \in 0..3 |-> LET lane == (mask \div 4^i) % 4 IN IF i < 2 THEN x[lane] ELSE y[lane]]
Transpose4(x) ==
  LET tmp0 == Shuffle(x[0], x[1], 68)  tmp1 == Shuffle(x[2], x[3], 68)
      tmp2 == Shuffle(x[0], x[1], 238) tmp3 == Shuffle(x[2], x[3], 238)
  IN  [i \in 0..3 |-> CASE i = 0 -> Shuffle(tmp0, tmp1, 136)
                        [] i = 1 -> Shuffle(tmp0, tmp1, 221)
                        [] i = 2 -> Shuffle(tmp2, tmp3, 136)
                        [] i = 3 -> Shuffle(tmp2, tmp3, 221)]
-----------------------------------------------------------------------------
(* A decomposition after k columns: the matrix with L below its diagonal,  *)
(* pi, and whether the pivot of a column was zero, by which the next step  *)
(* divides.                                                                *)
Undecomposed(x) ==
  [a |-> x, pi |-> [i \in DOMAIN x |-> i], k |-> 0, nan |-> FALSE]

(* The first row with the largest entry of the column; 0 if all are zero.  *)
PivotRow(a, k) ==
  LET better(s, i) == IF Larger(a[i][k], s.p) THEN [p |-> a[i][k], row |-> i] ELSE s
  IN  FoldLeft(better, [p |-> Zero, row |-> 0], [i \in 1..(Dim(a) - k) |-> k + i - 1])

\* mutant: the multipliers of the columns before stay where they are
ExchangeRest(a, k, row) ==
  [a EXCEPT ![k]   = [j \in DOMAIN a |-> IF j < k THEN a[k][j] ELSE a[row][j]],
            ![row] = [j \in DOMAIN a |-> IF j < k THEN a[row][j] ELSE a[k][j]]]

Exchange(a, k, row) == [a EXCEPT ![k] = a[row], ![row] = a[k]]

(* The rows below k, each with its multiplier in the column k.             *)
Eliminate(a, k) ==
  [i \in DOMAIN a |->
     IF i <= k THEN a[i]
     ELSE LET l == Quotient(a[i][k], a[k][k]) IN
          [j \in DOMAIN a |-> CASE j < k -> a[i][j] [] j = k -> l
                                 [] j > k -> Minus(a[i][j], Times(l, a[k][j]))]]

NextColumn(d) ==
  LET best == PivotRow(d.a, d.k) IN
  IF d.nan \/ best.p = Zero THEN [d EXCEPT !.nan = TRUE]
  ELSE [d EXCEPT !.a = Eliminate(Exchange(d.a, d.k, best.row), d.k), !.k = @ + 1,
                 !.pi = [@ EXCEPT ![d.k] = d.pi[best.row],
                                  ![best.row] = d.pi[d.k]]]

(* LUPDecomposition, the outer loop up to a column.                        *)
Decompose(x, columns) ==
  LET d[k \in 0..columns] == IF k = 0 THEN Undecomposed(x) ELSE NextColumn(d[k - 1])
  IN  d[columns]

(* What the assertions of a debug build say of a pivot.                    *)
Asserted3(p) == p # Zero
Asserted4(p) == p = Zero \* as the code has it
Aborts(d) ==
  LET p == PivotRow(d.a, d.k).p IN
  d.k < Dim(d.a) /\ IF Dim(d.a) = 3 THEN ~Asserted3(p) ELSE ~Asserted4(p)

(* LUPSolve: L y = P b forward, U x = y backward.                          *)
Forward(d, b) ==
  LET y[i \in DOMAIN d.a] ==
        Minus(b[d.pi[i]], Total([j \in Range0(i) |-> Times(d.a[i][j], y[j])]))
  IN  y
LUPSolve(d, b) ==
  LET y == Forward(d, b)
      last == Dim(d.a) - 1
      x[i \in DOMAIN d.a] ==
        Quotient(Minus(y[i], Total([j \in (i + 1)..last |-> Times(d.a[i][j], x[j])])),
                 d.a[i][i])
  IN  x

(* Inverse and Inversed, from a decomposition.                             *)
Inversed(d) ==
  LET x == [c \in DOMAIN d.a |-> LUPSolve(d, Unit(Dim(d.a), c))]
  IN  [i \in DOMAIN d.a |-> Column(x, i)]
-----------------------------------------------------------------------------
Sign(p) ==
  LET swapped == {x \in (DOMAIN p) \X (DOMAIN p) : x[1] < x[2] /\ p[x[1]] > p[x[2]]}
  IN  IF Cardinality(swapped) % 2 = 0 THEN 1 ELSE -1

Bijections0(n) == {p \in [Range0(n) -> Range0(n)] : IsInjective(p)}

(* The determinant by its definition.                                      *)
Leibniz(x) ==
  Total([p \in Bijections0(Dim(x)) |->
           Times(Whole(Sign(p)), Product([i \in DOMAIN x |-> x[i][p[i]]]))])

Identity(n)  == [i \in Range0(n) |-> Unit(n, i)]
Transposed(x) == [i \in DOMAIN x |-> Column(x, i)]

(* The decomposition and Inverse.  After each column the rows of the       *)
(* matrix, permuted, are the product of the columns of L and the rows of U *)
(* found so far plus what is left to do, and no multiplier exceeds 1.  The *)
(* matrix Inverse returns is the inverse on both sides; it divides by zero *)
(* only for a singular matrix, and no 4x4 inverse comes out of a build     *)
(* with assertions (the test of the pivot is the wrong way round).         *)
InvertsRight(m) ==
  LET n == Dim(m) x == Whole2(m) d == Decompose(x, n) IN
  /\ \A c \in 0..n :
       LET e == Decompose(x, c)
           product(i, j) ==
             Total([l \in {h \in Range0(e.k) : h < i /\ h <= j} |->
                      Times(e.a[i][l], e.a[l][j])])
       IN  \A i, j \in DOMAIN m :
             /\ x[e.pi[i]][j] =
                  Plus(product(i, j), IF i <= j \/ j >= e.k THEN e.a[i][j] ELSE Zero)
             /\ j < e.k /\ j < i => ~Larger(e.a[i][j], Whole(1))
  /\ d.nan <=> Leibniz(x) = Zero
  /\ ~d.nan => LET inv == Inversed(d) IN
               Mul(x, inv) = Identity(n) /\ Mul(inv, x) = Identity(n)
  /\ n = 3 => ((\E c \in 0..2 : Aborts(Decompose(x, c))) <=> d.nan)
  /\ n = 4 /\ ~d.nan => \E c \in 0..3 : Aborts(Decompose(x, c))

(* Det of a 3x3 matrix is its determinant; of a 4x4 matrix it is, but with *)
(* the sign of an odd permutation whatever pi is.  CrossProduct(x, y) is   *)
(* normal to both and as long as it should be, but points along y cross x. *)
(* Transposes transpose; products associate and distribute over the rest.  *)
MultipliesRight(m) ==
  LET x == Whole2(m) n == Dim(m) d == Decompose(x, n) IN
  /\ Transposed(x) = IF n = 3 THEN Transpose3(x) ELSE Transpose4(x)
  /\ VecMat(x[0], x) = MatVec(Transposed(x), x[0])
  /\ VecMat(VecMat(x[1], x), Transposed(x)) = VecMat(x[1], Mul(x, Transposed(x)))
  /\ LET t == Transposed(x) number == x[0][1] v == Added(x[0], x[1]) IN
     /\ Mul(RowsSubtracted(x, t), x) = RowsSubtracted(Mul(x, x), Mul(t, x))
     /\ Mul(x, RowsAdded(x, t)) = RowsAdded(Mul(x, x), Mul(x, t))
     /\ Mul(RowsScaled(x, number), t) = RowsScaled(Mul(x, t), number)
     /\ VecMat(v, x) = Added(VecMat(x[0], x), VecMat(x[1], x))
     /\ VecMat(Scaled(v, number), x) = Scaled(VecMat(v, x), number)
     /\ NormalSquare(Subtracted(x[0], x[1])) =
          Minus(Plus(NormalSquare(x[0]), NormalSquare(x[1])),
                Times(Whole(2), DotProduct(x[0], x[1])))
     /\ Mul(RowsShifted(x, number), t) =
          RowsAdded(Mul(x, t), [i \in DOMAIN x |-> Scaled(VecMat(Fill(v, Whole(1)), t), number)])
     /\ number # Zero => /\ Scaled(MatVec(RowsDivided(x, number), v), number) = MatVec(x, v)
                         /\ VecMat(Divided(v, number), RowsScaled(x, number)) = VecMat(v, x)
  /\ n = 3 =>
       LET c == CrossProduct(x[1], x[2]) dot == DotProduct(x[1], x[2]) IN
       /\ Det3(x) = Leibniz(x)
       /\ DotProduct(x[0], c) = Minus(Zero, Det3(x))
       /\ NormalSquare(c) = Minus(Times(NormalSquare(x[1]), NormalSquare(x[2])),
                                  Times(dot, dot))
  /\ n = 4 /\ ~d.nan => Det4(d.a) = Times(Whole(-Sign(d.pi)), Leibniz(x))
=============================================================================
