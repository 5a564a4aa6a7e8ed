------------------------- MODULE NativeImageProofs --------------------------
(***************************************************************************)
(* What the native functions compute for images of every size and every    *)
(* range of gray values: a shift is a rotation, spectra meet their kernel  *)
(* in order, a difference image does not depend on the shading, and the    *)
(* rounded division by the backgrounds inverts no contrast.                *)
(***************************************************************************)
EXTENDS NativeImage, WellFoundedInduction, TLAPS

------------------------------------------------------------------------------
(* Quotients and remainders.                                               *)

LEMMA DivFacts ==
    ASSUME NEW a \in Int, NEW w \in Nat \ {0}
    PROVE  /\ a % w \in 0..(w - 1) /\ a \div w \in Int
           /\ a = ((a \div w) * w) + (a % w)
  OBVIOUS

LEMMA DivUnique ==
    ASSUME NEW w \in Nat \ {0}, NEW a \in Int, NEW q \in Int, NEW r \in 0..(w - 1),
           a = (q * w) + r
    PROVE  a % w = r /\ a \div w = q
  OBVIOUS

LEMMA MinusZero == -0 = 0
  <1>1. PICK z \in Int : z + 1 = 1
    OBVIOUS
  <1>2. z = 0 /\ -z = z
    BY <1>1
  <1> QED BY <1>2, Zenon

(* The remainder of C, made positive, is the remainder of TLA+.            *)
LEMMA ShiftOfIsRemainder ==
    ASSUME NEW w \in Nat \ {0}, NEW x \in Int
    PROVE  ShiftOf(x, w) = x % w
  <1>1. CASE x >= 0
    BY <1>1, DivFacts DEF ShiftOf, Rem
  <1>2. CASE x < 0
    <2>1. PICK q, r : q = (-x) \div w /\ r = (-x) % w
      OBVIOUS
    <2>2. q \in Int /\ r \in 0..(w - 1) /\ -x = (q * w) + r
      BY <2>1, DivFacts
    <2>3. CASE r = 0
      <3>1. x = ((-q) * w) + 0
        BY <2>2, <2>3
      <3>2. x % w = 0
        BY <2>2, <3>1, DivUnique
      <3> QED BY <1>2, <2>1, <2>3, <3>2 DEF ShiftOf, Rem
    <2>4. CASE r > 0
      <3>1. x = ((-q - 1) * w) + (w - r)
        BY <2>2
      <3>2. -q - 1 \in Int /\ w - r \in 0..(w - 1)
        BY <2>2, <2>4
      <3>3. x % w = w - r
        BY <3>1, <3>2, DivUnique
      <3> QED BY <1>2, <2>1, <2>2, <2>4, <3>3 DEF ShiftOf, Rem
    <2> QED BY <2>2, <2>3, <2>4
  <1> QED BY <1>1, <1>2

(* Where a place comes from in a rotation by x.                            *)
LEMMA Rotated ==
    ASSUME NEW w \in Nat \ {0}, NEW x \in Int, NEW p \in 0..(w - 1)
    PROVE  /\ p >= x % w => (p - x) % w = p - (x % w)
           /\ p < x % w => (p - x) % w = (p - (x % w)) + w
           /\ (p - x) % w \in 0..(w - 1)
  <1>1. PICK q, s : q = x \div w /\ s = x % w
    OBVIOUS
  <1>2. q \in Int /\ s \in 0..(w - 1) /\ x = (q * w) + s
    BY <1>1, DivFacts
  <1>3. ASSUME p >= s PROVE (p - x) % w = p - s
    <2>1. p - x = ((-q) * w) + (p - s)
      BY <1>2
    <2>2. -q \in Int /\ p - s \in 0..(w - 1) /\ p - x \in Int
      BY <1>2, <1>3
    <2> QED BY <2>1, <2>2, DivUnique
  <1>4. ASSUME p < s PROVE (p - x) % w = (p - s) + w
    <2>1. p - x = ((-q - 1) * w) + ((p - s) + w)
      BY <1>2
    <2>2. -q - 1 \in Int /\ (p - s) + w \in 0..(w - 1) /\ p - x \in Int
      BY <1>2, <1>4
    <2> QED BY <2>1, <2>2, DivUnique
  <1>5. (p - x) % w \in 0..(w - 1)
    BY DivFacts
  <1> QED BY <1>1, <1>3, <1>4, <1>5

------------------------------------------------------------------------------
(* Shifts.                                                                 *)

(* A Mat given by the function of its values.                              *)
MatOf(rows, cols, f) == [rows |-> rows, cols |-> cols, at |-> f]

(* One copy changes the values inside its rectangle and nothing else.      *)
LEMMA Copied ==
    ASSUME NEW rows, NEW cols, NEW f, NEW g, NEW m, NEW n, NEW move
    PROVE  CopyTo(MatOf(m, n, f), move, MatOf(rows, cols, g)) =
            MatOf(rows, cols, [p \in Places(rows, cols) |->
                IF Covers(move.out, p)
                THEN f[<<(p[1] - move.out.y) + move.gate.y, (p[2] - move.out.x) + move.gate.x>>]
                ELSE g[p]])
  BY DEF CopyTo, MatOf, Mat

(* The values of an image that is shifted around its edges.                *)
Turned(rows, cols, f, x, y) ==
    [p \in Places(rows, cols) |-> f[<<(p[1] - y) % rows, (p[2] - x) % cols>>]]

Move(gate, out) == [gate |-> gate, out |-> out]

(* circularShift into a Mat of its own.                                    *)
Shifted(img, dest, x, y) == circularShift(img, dest, x, y, FALSE)

(* circularShift moves every pixel by x and y around the edges, whatever   *)
(* the values are and whatever was in the result before.                   *)
LEMMA ShiftTurns ==
    ASSUME NEW rows \in Nat \ {0}, NEW cols \in Nat \ {0}, NEW x \in Int, NEW y \in Int,
           NEW f, NEW g
    PROVE  Shifted(MatOf(rows, cols, f), MatOf(rows, cols, g), x, y)
            = MatOf(rows, cols, Turned(rows, cols, f, x, y))
  <1>1. PICK R, D : R = ShiftOf(x, cols) /\ D = ShiftOf(y, rows)
    OBVIOUS
  <1>2. R = x % cols /\ D = y % rows
    BY <1>1, ShiftOfIsRemainder
  <1>3. R \in 0..(cols - 1) /\ D \in 0..(rows - 1)
    BY <1>2, DivFacts
  <1> DEFINE
        move1 == Move(Rect(0, 0, cols - R, rows - D), Rect(R, D, cols - R, rows - D))
        move2 == Move(Rect(cols - R, 0, R, rows - D), Rect(0, D, R, rows - D))
        move3 == Move(Rect(0, rows - D, cols - R, D), Rect(R, 0, cols - R, D))
        move4 == Move(Rect(cols - R, rows - D, R, D), Rect(0, 0, R, D))
        img == MatOf(rows, cols, f)
        dest == MatOf(rows, cols, g)
        all == CopyTo(img, move4, CopyTo(img, move3, CopyTo(img, move2, CopyTo(img, move1, dest))))
  <1>4. \A move \in {move1, move2, move3, move4} : Within(move.gate, img) /\ Within(move.out, dest)
    BY <1>3 DEF Within, MatOf, Move, Rect
  <1>5. img.rows = rows /\ img.cols = cols
    BY DEF MatOf
  <1>6. Shifted(img, dest, x, y) = all
    BY <1>1, <1>4, <1>5 DEF Shifted, circularShift, Move
  <1> DEFINE
        P == Places(rows, cols)
        Copy(move, h) == [p \in P |->
            IF Covers(move.out, p)
            THEN f[<<(p[1] - move.out.y) + move.gate.y, (p[2] - move.out.x) + move.gate.x>>]
            ELSE h[p]]
        last == Copy(move4, Copy(move3, Copy(move2, Copy(move1, g))))
  <1>7. \A move, h : CopyTo(img, move, MatOf(rows, cols, h)) = MatOf(rows, cols, Copy(move, h))
    BY Copied
  <1>8. all = MatOf(rows, cols, last)
    <2> HIDE DEF Copy, img, move1, move2, move3, move4
    <2> QED BY <1>7
  <1>9. ASSUME NEW p \in P PROVE last[p] = f[<<(p[1] - y) % rows, (p[2] - x) % cols>>]
    <2>1. PICK i \in 0..(rows - 1), j \in 0..(cols - 1) : p = <<i, j>>
      BY DEF Places
    <2>2. /\ i >= D => (i - y) % rows = i - D
          /\ i < D => (i - y) % rows = (i - D) + rows
          /\ j >= R => (j - x) % cols = j - R
          /\ j < R => (j - x) % cols = (j - R) + cols
      BY <1>2, Rotated
    <2>3. /\ Covers(move1.out, p) <=> j >= R /\ i >= D
          /\ Covers(move2.out, p) <=> j < R /\ i >= D
          /\ Covers(move3.out, p) <=> j >= R /\ i < D
          /\ Covers(move4.out, p) <=> j < R /\ i < D
      BY <1>3, <2>1 DEF Covers, Move, Rect
    <2>4. CASE j >= R /\ i >= D
      <3>1. last[p] = f[<<(p[1] - move1.out.y) + move1.gate.y, (p[2] - move1.out.x) + move1.gate.x>>]
        BY <2>3, <2>4, <1>3, <2>1
      <3> QED BY <3>1, <2>1, <2>2, <2>4, <1>3 DEF Move, Rect
    <2>5. CASE j < R /\ i >= D
      <3>1. last[p] = f[<<(p[1] - move2.out.y) + move2.gate.y, (p[2] - move2.out.x) + move2.gate.x>>]
        BY <2>3, <2>5, <1>3, <2>1
      <3> QED BY <3>1, <2>1, <2>2, <2>5, <1>3 DEF Move, Rect
    <2>6. CASE j >= R /\ i < D
      <3>1. last[p] = f[<<(p[1] - move3.out.y) + move3.gate.y, (p[2] - move3.out.x) + move3.gate.x>>]
        BY <2>3, <2>6, <1>3, <2>1
      <3> QED BY <3>1, <2>1, <2>2, <2>6, <1>3 DEF Move, Rect
    <2>7. CASE j < R /\ i < D
      <3>1. last[p] = f[<<(p[1] - move4.out.y) + move4.gate.y, (p[2] - move4.out.x) + move4.gate.x>>]
        BY <2>3, <2>7, <1>3, <2>1
      <3> QED BY <3>1, <2>1, <2>2, <2>7, <1>3 DEF Move, Rect
    <2>8. (j >= R \/ j < R) /\ (i >= D \/ i < D)
      BY <1>3
    <2> HIDE DEF last
    <2> QED BY <2>4, <2>5, <2>6, <2>7, <2>8, Zenon
  <1>10. last = Turned(rows, cols, f, x, y)
    <2>1. last = [p \in P |-> last[p]]
      OBVIOUS
    <2> HIDE DEF last
    <2> QED BY <1>9, <2>1 DEF Turned
  <1> QED BY <1>6, <1>8, <1>10

(* A new Mat made with rows and columns exchanged does not hold the first  *)
(* of the four rectangles.                                                 *)
LEMMA TransposedFails ==
    ASSUME NEW rows \in Nat \ {0}, NEW cols \in Nat \ {0}, rows # cols,
           NEW x \in Int, NEW y \in Int, NEW f, NEW g
    PROVE  Shifted(MatOf(rows, cols, f), MatOf(cols, rows, g), x, y) = Failed
  <1>1. PICK R, D : R = ShiftOf(x, cols) /\ D = ShiftOf(y, rows)
    OBVIOUS
  <1>2. R \in 0..(cols - 1) /\ D \in 0..(rows - 1)
    BY <1>1, ShiftOfIsRemainder, DivFacts
  <1> DEFINE
        move1 == Move(Rect(0, 0, cols - R, rows - D), Rect(R, D, cols - R, rows - D))
        img == MatOf(rows, cols, f)
        dest == MatOf(cols, rows, g)
  <1>3. ~Within(move1.out, dest)
    BY <1>2 DEF Within, MatOf, Move, Rect
  <1>4. img.rows = rows /\ img.cols = cols
    BY DEF MatOf
  <1> QED BY <1>1, <1>3, <1>4 DEF Shifted, circularShift, Move

Itself(rows, cols) == [p \in Places(rows, cols) |-> p]
Empty(rows, cols) == [p \in Places(rows, cols) |-> 0]

LEMMA AsMatOf ==
    ASSUME NEW rows, NEW cols
    PROVE  /\ Distinct(rows, cols) = MatOf(rows, cols, Itself(rows, cols))
           /\ zeros(rows, cols) = MatOf(rows, cols, Empty(rows, cols))
  BY DEF Distinct, zeros, Mat, MatOf, Itself, Empty

LEMMA MatOfFields ==
    ASSUME NEW rows, NEW cols, NEW f
    PROVE  /\ MatOf(rows, cols, f).rows = rows /\ MatOf(rows, cols, f).cols = cols
           /\ MatOf(rows, cols, f).at = f
  BY DEF MatOf

(* fftShift and ifftShift turn the image, unless it is its own output and  *)
(* not square.                                                             *)
LEMMA ShiftByTurns ==
    ASSUME NEW rows \in Nat \ {0}, NEW cols \in Nat \ {0}, NEW x \in Int, NEW y \in Int,
           NEW f, NEW inPlace \in BOOLEAN
    PROVE  ShiftBy(MatOf(rows, cols, f), inPlace, x, y) =
            IF inPlace /\ rows # cols THEN Failed
            ELSE MatOf(rows, cols, Turned(rows, cols, f, x, y))
  <1>1. PICK img : img = MatOf(rows, cols, f)
    OBVIOUS
  <1>2. img.rows = rows /\ img.cols = cols
    BY <1>1 DEF MatOf
  <1>3. /\ zeros(rows, cols) = MatOf(rows, cols, Empty(rows, cols))
        /\ zeros(cols, rows) = MatOf(cols, rows, Empty(cols, rows))
    BY AsMatOf
  <1>4. /\ Shifted(img, zeros(rows, cols), x, y)
             = MatOf(rows, cols, Turned(rows, cols, f, x, y))
        /\ rows # cols => Shifted(img, zeros(cols, rows), x, y) = Failed
    <2>1. Shifted(MatOf(rows, cols, f), MatOf(rows, cols, Empty(rows, cols)), x, y)
             = MatOf(rows, cols, Turned(rows, cols, f, x, y))
      BY ShiftTurns
    <2>2. ASSUME rows # cols
          PROVE  Shifted(MatOf(rows, cols, f), MatOf(cols, rows, Empty(cols, rows)), x, y) = Failed
      BY <2>2, TransposedFails
    <2> QED BY <1>1, <1>3, <2>1, <2>2
  <1>5. CASE inPlace
    <2>1. ShiftBy(img, inPlace, x, y) = Shifted(img, zeros(cols, rows), x, y)
      BY <1>2, <1>5 DEF ShiftBy, Shifted
    <2> QED BY <1>1, <1>4, <1>5, <2>1
  <1>6. CASE ~inPlace
    <2>1. ShiftBy(img, inPlace, x, y) = Shifted(img, zeros(rows, cols), x, y)
      BY <1>2, <1>6 DEF ShiftBy, Shifted
    <2> QED BY <1>1, <1>4, <1>6, <2>1
  <1> QED BY <1>5, <1>6

(* The larger half and the smaller half of a side.                         *)
LEMMA Halves ==
    ASSUME NEW n \in Nat, n >= 2
    PROVE  /\ Ceil2(n) \in 1..(n - 1) /\ Floor2(n) \in 1..(n - 1)
           /\ Ceil2(n) + Floor2(n) = n
  BY DEF Ceil2, Floor2

LEMMA ShortlyRotated ==
    ASSUME NEW n \in Nat \ {0}, NEW s \in 0..(n - 1), NEW i \in 0..(n - 1)
    PROVE  /\ i >= s => (i - s) % n = i - s
           /\ i < s => (i - s) % n = (i - s) + n
           /\ (i - s) % n \in 0..(n - 1)
  <1>1. s = (0 * n) + s
    OBVIOUS
  <1>2. s % n = s
    BY <1>1, DivUnique
  <1> QED BY <1>2, Rotated

(* A rotation by the one undoes a rotation by the other.                   *)
LEMMA LongTurnedBack ==
    ASSUME NEW n \in Nat, n >= 2, NEW i \in 0..(n - 1)
    PROVE  /\ (i - Floor2(n)) % n \in 0..(n - 1)
           /\ (((i - Floor2(n)) % n) - Ceil2(n)) % n = i
  <1>1. PICK c, d : c = Ceil2(n) /\ d = Floor2(n)
    OBVIOUS
  <1>2. c \in 1..(n - 1) /\ d \in 1..(n - 1) /\ c + d = n
    BY <1>1, Halves
  <1>3. PICK j : j = (i - d) % n
    OBVIOUS
  <1>4. /\ j \in 0..(n - 1)
        /\ i >= d => j = i - d
        /\ i < d => j = (i - d) + n
    BY <1>2, <1>3, ShortlyRotated
  <1>5. /\ j >= c => (j - c) % n = j - c
        /\ j < c => (j - c) % n = (j - c) + n
    BY <1>2, <1>4, ShortlyRotated
  <1>6. (j - c) % n = i
    BY <1>2, <1>4, <1>5
  <1> QED BY <1>1, <1>3, <1>4, <1>6

(* Only a side of one pixel is turned by its whole length.                 *)
LEMMA EmptyHalf ==
    ASSUME NEW n \in Nat \ {0}, Ceil2(n) % n = 0
    PROVE  n = 1
  <1> SUFFICES ASSUME n >= 2 PROVE FALSE
    OBVIOUS
  <1>1. PICK c : c = Ceil2(n)
    OBVIOUS
  <1>2. c \in 1..(n - 1) /\ c = (0 * n) + c /\ 0 \in Int
    BY <1>1, Halves
  <1>3. c % n = c
    BY <1>2, DivUnique
  <1> QED BY <1>1, <1>2, <1>3

LEMMA TurnedBack ==
    ASSUME NEW n \in Nat \ {0}, NEW i \in 0..(n - 1)
    PROVE  /\ (i - Floor2(n)) % n \in 0..(n - 1)
           /\ (((i - Floor2(n)) % n) - Ceil2(n)) % n = i
  <1>1. CASE n = 1
    BY <1>1 DEF Floor2, Ceil2
  <1>2. CASE n >= 2
    BY <1>2, LongTurnedBack
  <1> QED BY <1>1, <1>2

(* In an image in which every pixel is its place, a turn shows where each  *)
(* pixel came from.                                                        *)
Origins(rows, cols, x, y) ==
    [p \in Places(rows, cols) |-> <<(p[1] - y) % rows, (p[2] - x) % cols>>]

LEMMA TurnedItself ==
    ASSUME NEW rows \in Nat \ {0}, NEW cols \in Nat \ {0}, NEW x \in Int, NEW y \in Int
    PROVE  /\ Turned(rows, cols, Itself(rows, cols), x, y) = Origins(rows, cols, x, y)
           /\ Turned(rows, cols, Itself(rows, cols), x, y) \in [Places(rows, cols) -> Nat \X Nat]
  <1>1. ASSUME NEW p \in Places(rows, cols)
        PROVE  <<(p[1] - y) % rows, (p[2] - x) % cols>> \in Places(rows, cols)
    <2>1. p[1] \in 0..(rows - 1) /\ p[2] \in 0..(cols - 1)
      BY DEF Places
    <2>2. (p[1] - y) % rows \in 0..(rows - 1) /\ (p[2] - x) % cols \in 0..(cols - 1)
      BY <2>1, Rotated
    <2> QED BY <2>2 DEF Places
  <1>2. \A q \in Places(rows, cols) : Itself(rows, cols)[q] = q /\ q \in Nat \X Nat
    BY DEF Itself, Places
  <1> QED BY <1>1, <1>2 DEF Turned, Origins

(* What CallShift returns.                                                 *)
LEMMA CallShiftTurns ==
    ASSUME NEW rows \in 1..MaxSide, NEW cols \in 1..MaxSide, NEW x \in Int, NEW y \in Int
    PROVE  Shifted(Distinct(rows, cols), zeros(rows, cols), x, y)
            = LET From(p) == <<(p[1] - y) % rows, (p[2] - x) % cols>> IN Mat(rows, cols, From)
  <1>1. rows \in Nat \ {0} /\ cols \in Nat \ {0}
    BY ImageAssumption
  <1>2. Shifted(MatOf(rows, cols, Itself(rows, cols)), MatOf(rows, cols, Empty(rows, cols)), x, y)
            = MatOf(rows, cols, Turned(rows, cols, Itself(rows, cols), x, y))
    BY <1>1, ShiftTurns
  <1>3. Turned(rows, cols, Itself(rows, cols), x, y) = Origins(rows, cols, x, y)
    BY <1>1, TurnedItself
  <1>4. Shifted(Distinct(rows, cols), zeros(rows, cols), x, y)
            = MatOf(rows, cols, Turned(rows, cols, Itself(rows, cols), x, y))
    BY <1>2, AsMatOf
  <1> QED BY <1>3, <1>4 DEF Mat, MatOf, Origins

(* An image of pairs is an image, and so no exception.                     *)
LEMMA NoException ==
    ASSUME NEW rows \in Side, NEW cols \in Side, NEW f \in [Places(rows, cols) -> Nat \X Nat]
    PROVE  MatOf(rows, cols, f) # Failed
  <1> DEFINE all == {[Places(r, c) -> Nat \X Nat] : r, c \in Side}
  <1>1. [Places(rows, cols) -> Nat \X Nat] \in all
    OBVIOUS
  <1>2. Images = [rows : Side, cols : Side, at : UNION all]
    BY DEF Images
  <1> HIDE DEF all
  <1>3. f \in UNION all
    BY <1>1
  <1>4. MatOf(rows, cols, f) \in Images
    BY <1>2, <1>3 DEF MatOf
  <1> QED BY <1>4, OutcomeAssumption

(* fftShift and ifftShift.                                                 *)
Outcome(rows, cols, inPlace, f) ==
    IF inPlace /\ rows # cols THEN Failed ELSE MatOf(rows, cols, f)

LEMMA FftShiftTurns ==
    ASSUME NEW rows \in Nat \ {0}, NEW cols \in Nat \ {0}, NEW f, NEW inPlace \in BOOLEAN
    PROVE  /\ fftShift(MatOf(rows, cols, f), inPlace)
                = Outcome(rows, cols, inPlace, Turned(rows, cols, f, Ceil2(cols), Ceil2(rows)))
           /\ ifftShift(MatOf(rows, cols, f), inPlace)
                = Outcome(rows, cols, inPlace, Turned(rows, cols, f, Floor2(cols), Floor2(rows)))
  <1>1. PICK img : img = MatOf(rows, cols, f)
    OBVIOUS
  <1>2. img.rows = rows /\ img.cols = cols
    BY <1>1 DEF MatOf
  <1>3. /\ Ceil2(cols) \in Int /\ Ceil2(rows) \in Int
        /\ Floor2(cols) \in Int /\ Floor2(rows) \in Int
    BY DEF Ceil2, Floor2
  <1>4. /\ fftShift(img, inPlace) = ShiftBy(img, inPlace, Ceil2(cols), Ceil2(rows))
        /\ ifftShift(img, inPlace) = ShiftBy(img, inPlace, Floor2(cols), Floor2(rows))
    BY <1>2 DEF fftShift, ifftShift
  <1>5. ASSUME NEW x \in Int, NEW y \in Int
        PROVE  ShiftBy(img, inPlace, x, y)
                = Outcome(rows, cols, inPlace, Turned(rows, cols, f, x, y))
    BY <1>1, ShiftByTurns DEF Outcome
  <1> QED BY <1>1, <1>3, <1>4, <1>5

(* ifftShift brings every pixel back to where fftShift took it from.       *)
LEMMA ThereAndBack ==
    ASSUME NEW rows \in Nat \ {0}, NEW cols \in Nat \ {0}
    PROVE  LET there == Turned(rows, cols, Itself(rows, cols), Ceil2(cols), Ceil2(rows))
           IN Turned(rows, cols, there, Floor2(cols), Floor2(rows)) = Itself(rows, cols)
  <1> DEFINE there == Turned(rows, cols, Itself(rows, cols), Ceil2(cols), Ceil2(rows))
  <1>1. /\ Ceil2(cols) \in Int /\ Ceil2(rows) \in Int
    BY DEF Ceil2
  <1>2. there = Origins(rows, cols, Ceil2(cols), Ceil2(rows))
    BY <1>1, TurnedItself
  <1> HIDE DEF there
  <1>3. ASSUME NEW p \in Places(rows, cols)
        PROVE  there[<<(p[1] - Floor2(rows)) % rows, (p[2] - Floor2(cols)) % cols>>] = p
    <2>1. PICK i \in 0..(rows - 1), j \in 0..(cols - 1) : p = <<i, j>>
      BY DEF Places
    <2>2. PICK k, l : k = (i - Floor2(rows)) % rows /\ l = (j - Floor2(cols)) % cols
      OBVIOUS
    <2>3. /\ k \in 0..(rows - 1) /\ l \in 0..(cols - 1)
          /\ (k - Ceil2(rows)) % rows = i /\ (l - Ceil2(cols)) % cols = j
      BY <2>2, TurnedBack
    <2>4. there[<<k, l>>] = <<(k - Ceil2(rows)) % rows, (l - Ceil2(cols)) % cols>>
      BY <1>2, <2>3 DEF Origins, Places
    <2> QED BY <2>1, <2>2, <2>3, <2>4
  <1>4. Turned(rows, cols, there, Floor2(cols), Floor2(rows)) = Itself(rows, cols)
    BY <1>3 DEF Turned, Itself
  <1> QED BY <1>4 DEF there

(* What CallThereAndBack returns.                                          *)
LEMMA CallThereAndBackReturns ==
    ASSUME NEW rows \in 1..MaxSide, NEW cols \in 1..MaxSide, NEW inPlace \in BOOLEAN
    PROVE  LET there == fftShift(Distinct(rows, cols), inPlace)
           IN (IF there = Failed THEN Failed ELSE ifftShift(there, inPlace))
                = IF inPlace /\ rows # cols THEN Failed ELSE Distinct(rows, cols)
  <1> DEFINE there == fftShift(Distinct(rows, cols), inPlace)
             turned == Turned(rows, cols, Itself(rows, cols), Ceil2(cols), Ceil2(rows))
  <1>1. /\ rows \in Nat \ {0} /\ cols \in Nat \ {0}
        /\ rows \in Side /\ cols \in Side
        /\ Ceil2(cols) \in Int /\ Ceil2(rows) \in Int
    BY ImageAssumption DEF Side, Ceil2
  <1>2. there = Outcome(rows, cols, inPlace, turned)
    <2>1. Distinct(rows, cols) = MatOf(rows, cols, Itself(rows, cols))
      BY AsMatOf
    <2> QED BY <1>1, <2>1, FftShiftTurns
  <1>3. turned \in [Places(rows, cols) -> Nat \X Nat]
    BY <1>1, TurnedItself
  <1>4. MatOf(rows, cols, turned) # Failed
    BY <1>1, <1>3, NoException
  <1>5. Turned(rows, cols, turned, Floor2(cols), Floor2(rows)) = Itself(rows, cols)
    BY <1>1, ThereAndBack
  <1>6. ifftShift(MatOf(rows, cols, turned), inPlace)
          = Outcome(rows, cols, inPlace, Turned(rows, cols, turned, Floor2(cols), Floor2(rows)))
    BY <1>1, FftShiftTurns
  <1>7. Distinct(rows, cols) = MatOf(rows, cols, Itself(rows, cols))
    BY AsMatOf
  <1> HIDE DEF there, turned
  <1>8. (IF there = Failed THEN Failed ELSE ifftShift(there, inPlace))
          = IF inPlace /\ rows # cols THEN Failed ELSE Distinct(rows, cols)
    <2>1. CASE inPlace /\ rows # cols
      BY <1>2, <2>1 DEF Outcome
    <2>2. CASE ~(inPlace /\ rows # cols)
      <3>1. there = MatOf(rows, cols, turned)
        BY <1>2, <2>2 DEF Outcome
      <3>2. ifftShift(there, inPlace) = MatOf(rows, cols, Itself(rows, cols))
        BY <1>5, <1>6, <2>2, <3>1 DEF Outcome
      <3> QED BY <1>4, <1>7, <2>2, <3>1, <3>2
    <2> QED BY <2>1, <2>2
  <1> QED BY <1>8 DEF there

------------------------------------------------------------------------------
(* Which function a step calls.                                            *)

LEMMA NameOfCall ==
    /\ Init => call.name = "none"
    /\ CallShift => call'.name = "circularShift"
    /\ CallThereAndBack => call'.name = "ifftShift"
    /\ CallSpectrum => call'.name \in {"getFFTVector", "fresnelProp"}
    /\ CallDPC => call'.name = "calcDPC"
    /\ CallProcess => call'.name = "runProcess"
  <1>1. ASSUME CallShift PROVE call'.name = "circularShift"
    <2>1. PICK rows, cols, x, y :
            call' = [name |-> "circularShift", rows |-> rows, cols |-> cols, x |-> x, y |-> y]
      BY <1>1, Zenon DEF CallShift
    <2> QED BY <2>1
  <1>2. Init => call.name = "none"
    BY DEF Init
  <1>3. CallThereAndBack => call'.name = "ifftShift"
    BY DEF CallThereAndBack
  <1>4. CallSpectrum => call'.name \in {"getFFTVector", "fresnelProp"}
    BY DEF CallSpectrum
  <1>5. CallDPC => call'.name = "calcDPC"
    BY DEF CallDPC
  <1>6. CallProcess => call'.name = "runProcess"
    BY DEF CallProcess
  <1> QED BY <1>1, <1>2, <1>3, <1>4, <1>5, <1>6

(* Other calls say nothing about shifts.                                   *)
LEMMA NoShift ==
    ASSUME call.name # "circularShift", call.name # "ifftShift"
    PROVE  ShiftIsCyclic
  BY Zenon DEF ShiftIsCyclic

LEMMA NoShiftNext ==
    ASSUME call'.name # "circularShift", call'.name # "ifftShift"
    PROVE  ShiftIsCyclic'
  BY Zenon DEF ShiftIsCyclic

(* circularShift turns the image by the given distance, and ifftShift      *)
(* undoes fftShift, for images of every size: the four copies fit, do not  *)
(* overlap and leave nothing out; only a Mat that is not square and is its *)
(* own output throws.                                                      *)
THEOREM ShiftsAreCyclic == Spec => []ShiftIsCyclic
  <1>1. ASSUME Init PROVE ShiftIsCyclic
    <2>1. call.name # "circularShift" /\ call.name # "ifftShift"
      BY <1>1, NameOfCall
    <2> QED BY <2>1, NoShift
  <1>2. ShiftIsCyclic /\ [Next]_<<call, result>> => ShiftIsCyclic'
    <2> SUFFICES ASSUME ShiftIsCyclic, [Next]_<<call, result>> PROVE ShiftIsCyclic'
      OBVIOUS
    <2>1. CASE CallShift
      <3>1. PICK rows \in 1..MaxSide, cols \in 1..MaxSide,
                 x \in -(MaxSide + 1)..(MaxSide + 1), y \in -(MaxSide + 1)..(MaxSide + 1) :
              /\ call' = [name |-> "circularShift", rows |-> rows, cols |-> cols, x |-> x, y |-> y]
              /\ \/ result' = Shifted(Distinct(rows, cols), zeros(rows, cols), x, y)
                 \/ EmptyCopy(rows, cols, x, y) /\ result' = Failed
        BY <2>1, Zenon DEF CallShift, Shifted
      <3>2. x \in Int /\ y \in Int
        BY ImageAssumption
      <3>3. Shifted(Distinct(rows, cols), zeros(rows, cols), x, y)
              = LET From(p) == <<(p[1] - y) % rows, (p[2] - x) % cols>> IN Mat(rows, cols, From)
        BY <3>2, CallShiftTurns
      <3>4. /\ call'.name = "circularShift" /\ call'.rows = rows /\ call'.cols = cols
            /\ call'.x = x /\ call'.y = y
        BY <3>1
      <3> QED BY <3>1, <3>3, <3>4, Zenon DEF ShiftIsCyclic, Mat
    <2>2. CASE CallThereAndBack
      <3>1. PICK rows \in 1..MaxSide, cols \in 1..MaxSide, inPlace \in BOOLEAN :
              /\ call' = [name |-> "ifftShift", rows |-> rows, cols |-> cols, inPlace |-> inPlace]
              /\ \/ result' = LET there == fftShift(Distinct(rows, cols), inPlace)
                              IN IF there = Failed THEN Failed ELSE ifftShift(there, inPlace)
                 \/ EmptyCopy(rows, cols, Ceil2(cols), Ceil2(rows)) /\ result' = Failed
        BY <2>2, Zenon DEF CallThereAndBack
      <3>2. \/ result' = IF inPlace /\ rows # cols THEN Failed ELSE Distinct(rows, cols)
            \/ 1 \in {rows, cols} /\ result' = Failed
        <4>1. CASE EmptyCopy(rows, cols, Ceil2(cols), Ceil2(rows)) /\ result' = Failed
          <5>1. rows \in Nat \ {0} /\ cols \in Nat \ {0}
            BY ImageAssumption
          <5>2. Ceil2(cols) % cols = 0 \/ Ceil2(rows) % rows = 0
            BY <4>1 DEF EmptyCopy
          <5> QED BY <4>1, <5>1, <5>2, EmptyHalf
        <4> QED BY <3>1, <4>1, CallThereAndBackReturns
      <3>3. /\ call'.name = "ifftShift" /\ call'.rows = rows /\ call'.cols = cols
            /\ call'.inPlace = inPlace
        BY <3>1
      <3> QED BY <3>2, <3>3 DEF ShiftIsCyclic
    <2>3. CASE CallSpectrum \/ CallDPC \/ CallProcess
      <3>1. call'.name # "circularShift" /\ call'.name # "ifftShift"
        BY <2>3, NameOfCall
      <3> QED BY <3>1, NoShiftNext
    <2>4. CASE UNCHANGED <<call, result>>
      <3>1. call' = call /\ result' = result
        BY <2>4
      <3> QED BY <3>1, Zenon DEF ShiftIsCyclic, Mat
    <2> QED BY <2>1, <2>2, <2>3, <2>4 DEF Next
  <1> QED BY <1>1, <1>2, PTL DEF Spec

------------------------------------------------------------------------------
(* calcDPC.                                                                *)

ValueOf(image1, image2) == [p \in Lit |-> Contrast(image1[p], image2[p])]

All(value) == {value[p] : p \in Lit} \cup {0}

Low(S) == CHOOSE v \in S : \A u \in S : v <= u
High(S) == CHOOSE v \in S : \A u \in S : u <= v

(* The values between low and high, stretched to 0..255.                   *)
Stretched(value, low, high) ==
    IF low = high THEN Undefined
    ELSE [p \in Lit |-> Divided(255 * (value[p] - low), high - low)]

LEMMA CalcDPC ==
    ASSUME NEW image1, NEW image2
    PROVE  calcDPC(image1, image2)
            = LET value == ValueOf(image1, image2)
              IN Stretched(value, Low(All(value)), High(All(value)))
  BY DEF calcDPC, ValueOf, Low, High, All, Stretched

(* Scale is a multiple of the sum of two gray values, and of its double.   *)
LEMMA ScaleDivided ==
    ASSUME NEW s \in 1..(2 * MaxGray)
    PROVE  \E k \in Nat : /\ Scale = k * (2 * s)
                          /\ Scale \div (2 * s) = k /\ Scale \div s = 2 * k
  <1>1. Scale \in Nat /\ s \in Nat \ {0} /\ 2 * s \in Nat \ {0} /\ 2 * s \in 1..(4 * MaxGray)
    BY ImageAssumption
  <1>2. Scale % (2 * s) = 0
    BY <1>1, ImageAssumption
  <1>3. PICK k, w : w = 2 * s /\ k = Scale \div w
    OBVIOUS
  <1>4. w \in Nat \ {0} /\ k \in Int /\ Scale = (k * w) + (Scale % w)
    <2>1. w \in Nat \ {0} /\ Scale \in Int
      BY <1>1, <1>3
    <2> QED BY <1>3, <2>1, DivFacts
  <1>5. Scale = k * (2 * s)
    <2>1. Scale % w = 0
      BY <1>2, <1>3
    <2>2. Scale = k * w
      BY <1>1, <1>3, <1>4, <2>1
    <2> QED BY <1>3, <2>2
  <1>6. k \in Nat
    BY <1>1, <1>4, <1>5
  <1>7. Scale = ((2 * k) * s) + 0
    BY <1>1, <1>5, <1>6
  <1>8. Scale \div s = 2 * k
    BY <1>1, <1>6, <1>7, DivUnique
  <1> QED BY <1>3, <1>5, <1>6, <1>8

(* The contrast of two pixels that are twice as bright is the same, and    *)
(* exchanging them changes its sign.                                       *)
LEMMA ContrastFacts ==
    ASSUME NEW a \in Gray, NEW b \in Gray
    PROVE  /\ Contrast(2 * a, 2 * b) = Contrast(a, b)
           /\ Contrast(b, a) = -Contrast(a, b)
           /\ Contrast(a, b) \in (-Scale)..Scale
  <1>1. a \in Nat /\ b \in Nat /\ a <= MaxGray /\ b <= MaxGray /\ MaxGray \in Nat /\ Scale \in Nat
    BY ImageAssumption DEF Gray
  <1>2. CASE a + b = 0
    <2>1. b + a = 0 /\ (2 * a) + (2 * b) = 0
      BY <1>1, <1>2
    <2>2. Contrast(a, b) = 0 /\ Contrast(b, a) = 0 /\ Contrast(2 * a, 2 * b) = 0
      BY <1>2, <2>1 DEF Contrast
    <2>3. 0 \in (-Scale)..Scale
      BY <1>1
    <2> QED BY <2>2, <2>3, MinusZero, Zenon
  <1>3. CASE a + b # 0
    <2>1. PICK s : s = a + b
      OBVIOUS
    <2>2. s \in 1..(2 * MaxGray) /\ s \in Nat /\ b + a = s /\ (2 * a) + (2 * b) = 2 * s /\ 2 * s # 0
      BY <1>1, <1>3, <2>1
    <2>3. PICK k \in Nat : /\ Scale = k * (2 * s)
                           /\ Scale \div (2 * s) = k /\ Scale \div s = 2 * k
      BY <2>2, ScaleDivided
    <2>4. /\ Contrast(a, b) = (2 * k) * (a - b)
          /\ Contrast(b, a) = (2 * k) * (b - a)
          /\ Contrast(2 * a, 2 * b) = k * ((2 * a) - (2 * b))
      BY <1>3, <2>1, <2>2, <2>3 DEF Contrast
    <2>5. k * ((2 * a) - (2 * b)) = (2 * k) * (a - b) /\ (2 * k) * (b - a) = -((2 * k) * (a - b))
      BY <1>1, <2>3
    <2>6. (2 * k) * (a - b) <= (2 * k) * s /\ (2 * k) * (b - a) <= (2 * k) * s
      BY <1>1, <2>1, <2>3
    <2>7. (2 * k) * s = Scale
      BY <2>2, <2>3
    <2>8. (2 * k) * (a - b) \in Int
      BY <1>1, <2>3
    <2> QED BY <1>1, <2>4, <2>5, <2>6, <2>7, <2>8
  <1> QED BY <1>2, <1>3

(* An image with some pixels twice as bright.                              *)
Shaded(i, bright) == [p \in Lit |-> IF p \in bright THEN 2 * i[p] ELSE i[p]]

(* The values of two images, and of the same images shaded or exchanged.   *)
LEMMA ValueFacts ==
    ASSUME NEW i1 \in [Lit -> Gray], NEW i2 \in [Lit -> Gray]
    PROVE  /\ ValueOf(i1, i2) \in [Lit -> (-Scale)..Scale]
           /\ ValueOf(i2, i1) = [p \in Lit |-> -ValueOf(i1, i2)[p]]
           /\ \A bright \in SUBSET Lit :
                ValueOf(Shaded(i1, bright), Shaded(i2, bright)) = ValueOf(i1, i2)
  <1>1. ASSUME NEW p \in Lit
        PROVE  /\ Contrast(2 * i1[p], 2 * i2[p]) = Contrast(i1[p], i2[p])
               /\ Contrast(i2[p], i1[p]) = -Contrast(i1[p], i2[p])
               /\ Contrast(i1[p], i2[p]) \in (-Scale)..Scale
    BY ContrastFacts
  <1>2. ValueOf(i1, i2) \in [Lit -> (-Scale)..Scale]
    BY <1>1 DEF ValueOf
  <1>3. ValueOf(i2, i1) = [p \in Lit |-> -ValueOf(i1, i2)[p]]
    BY <1>1 DEF ValueOf
  <1>4. ASSUME NEW bright \in SUBSET Lit
        PROVE  ValueOf(Shaded(i1, bright), Shaded(i2, bright)) = ValueOf(i1, i2)
    BY <1>1 DEF ValueOf, Shaded
  <1> QED BY <1>2, <1>3, <1>4

LEMMA LeastNumber ==
    ASSUME NEW T, T \subseteq Nat, T # {}
    PROVE  \E m \in T : \A k \in T : m <= k
  <1> DEFINE R == OpToRel(<, Nat)
  <1>1. IsWellFoundedOn(R, Nat)
    BY NatLessThanWellFounded
  <1>2. \A x, y \in Nat : <<y, x>> \in R <=> y < x
    BY DEF OpToRel
  <1> HIDE DEF R
  <1>3. PICK m \in T : \A k \in T : ~(<<k, m>> \in R)
    BY <1>1, WFMin
  <1>4. \A k \in T : ~(k < m)
    BY <1>2, <1>3
  <1> QED BY <1>4

(* A bounded set of integers has a least and a greatest member.            *)
LEMMA Extremes ==
    ASSUME NEW B \in Nat, NEW S, S \subseteq (-B)..B, S # {}
    PROVE  /\ Low(S) \in S /\ \A u \in S : Low(S) <= u
           /\ High(S) \in S /\ \A u \in S : u <= High(S)
  <1>1. \E v \in S : \A u \in S : v <= u
    <2> DEFINE T == {v + B : v \in S}
    <2>1. T \subseteq Nat /\ T # {}
      BY \A v \in S : v + B \in Nat
    <2>2. \A v \in S : v + B \in T
      OBVIOUS
    <2>3. \A t \in T : \E v \in S : t = v + B
      OBVIOUS
    <2> HIDE DEF T
    <2>4. PICK m \in T : \A k \in T : m <= k
      BY <2>1, LeastNumber
    <2>5. PICK v \in S : m = v + B
      BY <2>3
    <2>6. ASSUME NEW u \in S PROVE v <= u
      <3>1. m <= u + B
        BY <2>2, <2>4
      <3> QED BY <2>5, <3>1
    <2> QED BY <2>6
  <1>2. \E v \in S : \A u \in S : u <= v
    <2> DEFINE T == {B - v : v \in S}
    <2>1. T \subseteq Nat /\ T # {}
      BY \A v \in S : B - v \in Nat
    <2>2. \A v \in S : B - v \in T
      OBVIOUS
    <2>3. \A t \in T : \E v \in S : t = B - v
      OBVIOUS
    <2> HIDE DEF T
    <2>4. PICK m \in T : \A k \in T : m <= k
      BY <2>1, LeastNumber
    <2>5. PICK v \in S : m = B - v
      BY <2>3
    <2>6. ASSUME NEW u \in S PROVE u <= v
      <3>1. m <= B - u
        BY <2>2, <2>4
      <3> QED BY <2>5, <3>1
    <2> QED BY <2>6
  <1>3. Low(S) \in S /\ \A u \in S : Low(S) <= u
    BY <1>1 DEF Low
  <1>4. High(S) \in S /\ \A u \in S : u <= High(S)
    BY <1>2 DEF High
  <1> QED BY <1>3, <1>4

(* The extremes of the values with their signs exchanged.                  *)
LEMMA OppositeExtremes ==
    ASSUME NEW B \in Nat, NEW value \in [Lit -> (-B)..B],
           NEW other, other = [p \in Lit |-> -value[p]]
    PROVE  /\ Low(All(value)) \in Int /\ High(All(value)) \in Int
           /\ \A p \in Lit : Low(All(value)) <= value[p] /\ value[p] <= High(All(value))
           /\ Low(All(other)) = -High(All(value)) /\ High(All(other)) = -Low(All(value))
  <1>1. PICK S, T : S = All(value) /\ T = All(other)
    OBVIOUS
  <1>2. /\ S \subseteq (-B)..B /\ S # {} /\ T \subseteq (-B)..B /\ T # {}
        /\ \A p \in Lit : value[p] \in S
    BY <1>1 DEF All
  <1>3. ASSUME NEW v \in S PROVE -v \in T
    <2>1. CASE v = 0
      <3>1. 0 \in S /\ 0 \in T
        BY <1>1 DEF All
      <3> QED BY <2>1, <3>1, MinusZero, Zenon
    <2>2. CASE v # 0
      BY <1>1, <2>2 DEF All
    <2> QED BY <2>1, <2>2
  <1>4. ASSUME NEW v \in T PROVE -v \in S
    <2>1. CASE v = 0
      <3>1. 0 \in S /\ 0 \in T
        BY <1>1 DEF All
      <3> QED BY <2>1, <3>1, MinusZero, Zenon
    <2>2. CASE v # 0
      <3>1. PICK p \in Lit : v = -value[p]
        BY <1>1, <2>2 DEF All
      <3>2. -v = value[p]
        BY <3>1
      <3> QED BY <1>2, <3>2
    <2> QED BY <2>1, <2>2
  <1>5. /\ Low(S) \in S /\ \A u \in S : Low(S) <= u
        /\ High(S) \in S /\ \A u \in S : u <= High(S)
        /\ Low(T) \in T /\ \A u \in T : Low(T) <= u
        /\ High(T) \in T /\ \A u \in T : u <= High(T)
    BY <1>2, Extremes
  <1>6. PICK a, b, c, d : a = Low(S) /\ b = High(S) /\ c = Low(T) /\ d = High(T)
    OBVIOUS
  <1>7. a \in Int /\ b \in Int /\ c \in Int /\ d \in Int
    <2>1. \A v \in S \cup T : v \in Int
      BY <1>2
    <2> QED BY <1>5, <1>6, <2>1
  <1>8. c <= -b /\ b >= -c /\ -a <= d /\ a <= -d
    <2>1. -b \in T /\ -c \in S /\ -a \in T /\ -d \in S
      BY <1>3, <1>4, <1>5, <1>6
    <2> QED BY <1>5, <1>6, <1>7, <2>1
  <1>9. c = -b /\ d = -a
    BY <1>7, <1>8
  <1> QED BY <1>1, <1>2, <1>5, <1>6, <1>7, <1>9

(* Two shares of 255 parts, each rounded, are 255 up to one.               *)
LEMMA RoundedShares ==
    ASSUME NEW D \in Nat \ {0}, NEW x \in Nat, NEW y \in Nat, x + y = 255 * D
    PROVE  /\ Divided(x, D) \in Nat
           /\ Divided(x, D) + Divided(y, D) \in 254..256
  <1>1. PICK q, r, k, l : q = x \div D /\ r = x % D /\ k = y \div D /\ l = y % D
    OBVIOUS
  <1>2. /\ q \in Int /\ r \in 0..(D - 1) /\ x = (q * D) + r
        /\ k \in Int /\ l \in 0..(D - 1) /\ y = (k * D) + l
    BY <1>1, DivFacts
  <1>3. /\ Divided(x, D) \in {q, q + 1} /\ (r = 0 => Divided(x, D) = q)
        /\ Divided(y, D) \in {k, k + 1} /\ (l = 0 => Divided(y, D) = k)
    BY <1>1, <1>2 DEF Divided
  <1>4. PICK e : e = (255 - q) - k
    OBVIOUS
  <1>5. e \in Int /\ r + l = e * D
    BY <1>2, <1>4
  <1>6. e = 0 \/ e = 1
    <2>1. ASSUME e < 0 PROVE FALSE
      <3>1. e * D < 0
        BY <1>5, <2>1
      <3> QED BY <1>2, <1>5, <3>1
    <2>2. ASSUME e >= 2 PROVE FALSE
      <3>1. e * D >= 2 * D
        BY <1>5, <2>2
      <3> QED BY <1>2, <1>5, <3>1
    <2> QED BY <1>5, <2>1, <2>2
  <1>7. q >= 0
    <2>1. ASSUME q < 0 PROVE FALSE
      <3>1. q * D <= -D
        BY <1>2, <2>1
      <3> QED BY <1>2, <3>1
    <2> QED BY <1>2, <2>1
  <1>8. Divided(x, D) \in Nat
    BY <1>2, <1>3, <1>7
  <1>9. Divided(x, D) + Divided(y, D) \in 254..256
    <2>1. CASE e = 0
      <3>1. r = 0 /\ l = 0
        BY <1>2, <1>5, <2>1
      <3> QED BY <1>2, <1>3, <1>4, <2>1, <3>1
    <2>2. CASE e = 1
      BY <1>2, <1>3, <1>4, <2>2
    <2> QED BY <1>6, <2>1, <2>2
  <1> QED BY <1>8, <1>9

LEMMA ShadedDPC ==
    ASSUME NEW i1 \in [Lit -> Gray], NEW i2 \in [Lit -> Gray], NEW bright \in SUBSET Lit
    PROVE  calcDPC(Shaded(i1, bright), Shaded(i2, bright)) = calcDPC(i1, i2)
  <1>1. ValueOf(Shaded(i1, bright), Shaded(i2, bright)) = ValueOf(i1, i2)
    BY ValueFacts
  <1> QED BY <1>1, CalcDPC

LEMMA SwappedDPC ==
    ASSUME NEW i1 \in [Lit -> Gray], NEW i2 \in [Lit -> Gray]
    PROVE  IF calcDPC(i1, i2) = Undefined THEN calcDPC(i2, i1) = Undefined
           ELSE \A p \in Lit : calcDPC(i1, i2)[p] + calcDPC(i2, i1)[p] \in 254..256
  <1>1. PICK v, w : v = ValueOf(i1, i2) /\ w = ValueOf(i2, i1)
    OBVIOUS
  <1>2. v \in [Lit -> (-Scale)..Scale] /\ w = [p \in Lit |-> -v[p]] /\ Scale \in Nat
    BY <1>1, ValueFacts, ImageAssumption
  <1>3. PICK low, high : low = Low(All(v)) /\ high = High(All(v))
    OBVIOUS
  <1>4. /\ low \in Int /\ high \in Int
        /\ \A p \in Lit : low <= v[p] /\ v[p] <= high
        /\ Low(All(w)) = -high /\ High(All(w)) = -low
    BY <1>2, <1>3, OppositeExtremes
  <1>5. /\ calcDPC(i1, i2) = Stretched(v, low, high)
        /\ calcDPC(i2, i1) = Stretched(w, -high, -low)
    BY <1>1, <1>3, <1>4, CalcDPC
  <1>6. CASE low = high
    BY <1>5, <1>6 DEF Stretched
  <1>7. CASE low # high
    <2>1. -high # -low
      BY <1>4, <1>7
    <2>2. /\ calcDPC(i1, i2) = [p \in Lit |-> Divided(255 * (v[p] - low), high - low)]
          /\ calcDPC(i2, i1) = [p \in Lit |-> Divided(255 * (w[p] - (-high)), (-low) - (-high))]
      BY <1>5, <1>7, <2>1 DEF Stretched
    <2>3. ASSUME NEW p \in Lit
          PROVE  /\ Divided(255 * (v[p] - low), high - low) \in Nat
                 /\ Divided(255 * (v[p] - low), high - low)
                      + Divided(255 * (w[p] - (-high)), (-low) - (-high)) \in 254..256
      <3>1. v[p] \in Int /\ w[p] = -v[p] /\ low <= v[p] /\ v[p] <= high
        BY <1>2, <1>4
      <3>2. PICK x, y, D : x = 255 * (v[p] - low) /\ y = 255 * (high - v[p]) /\ D = high - low
        OBVIOUS
      <3>3. /\ x \in Nat /\ y \in Nat /\ D \in Nat \ {0} /\ x + y = 255 * D
        BY <1>4, <1>7, <3>1, <3>2
      <3>4. 255 * (w[p] - (-high)) = y /\ (-low) - (-high) = D
        BY <1>4, <3>1, <3>2
      <3>5. Divided(x, D) \in Nat /\ Divided(x, D) + Divided(y, D) \in 254..256
        BY <3>3, RoundedShares
      <3> QED BY <3>2, <3>4, <3>5
    <2>4. calcDPC(i1, i2) \in [Lit -> Nat]
      BY <2>2, <2>3
    <2>5. calcDPC(i1, i2) # Undefined
      BY <2>4, OutcomeAssumption
    <2>6. \A p \in Lit : calcDPC(i1, i2)[p] + calcDPC(i2, i1)[p] \in 254..256
      BY <2>2, <2>3
    <2> QED BY <2>5, <2>6
  <1> QED BY <1>6, <1>7

LEMMA NoDPC ==
    ASSUME call.name # "calcDPC"
    PROVE  DpcIgnoresShading
  BY Zenon DEF DpcIgnoresShading

LEMMA NoDPCNext ==
    ASSUME call'.name # "calcDPC"
    PROVE  DpcIgnoresShading'
  BY Zenon DEF DpcIgnoresShading

LEMMA DPCReturns ==
    ASSUME CallDPC
    PROVE  DpcIgnoresShading'
  <1>1. PICK i1 \in [Lit -> Gray], i2 \in [Lit -> Gray] :
          /\ call' = [name |-> "calcDPC", image1 |-> i1, image2 |-> i2]
          /\ result' = calcDPC(i1, i2)
    BY DEF CallDPC
  <1>2. call'.image1 = i1 /\ call'.image2 = i2
    BY <1>1
  <1>3. ASSUME NEW bright \in SUBSET Lit
        PROVE  calcDPC(Shaded(call'.image1, bright), Shaded(call'.image2, bright)) = result'
    BY <1>1, <1>2, ShadedDPC
  <1>4. IF result' = Undefined THEN calcDPC(call'.image2, call'.image1) = Undefined
        ELSE \A p \in Lit : result'[p] + calcDPC(call'.image2, call'.image1)[p] \in 254..256
    BY <1>1, <1>2, SwappedDPC
  <1> QED BY <1>3, <1>4, Zenon DEF DpcIgnoresShading, Shaded

(* A difference image does not change when pixels are twice as bright in   *)
(* both images, and is inverted, up to one level of rounding, when the two *)
(* images are exchanged: for images of any size and gray values.           *)
THEOREM ShadingIgnored == Spec => []DpcIgnoresShading
  <1>1. ASSUME Init PROVE DpcIgnoresShading
    <2>1. call.name # "calcDPC"
      BY <1>1, NameOfCall
    <2> QED BY <2>1, NoDPC
  <1>2. DpcIgnoresShading /\ [Next]_<<call, result>> => DpcIgnoresShading'
    <2> SUFFICES ASSUME DpcIgnoresShading, [Next]_<<call, result>>
                 PROVE  DpcIgnoresShading'
      OBVIOUS
    <2>1. CASE CallDPC
      BY <2>1, DPCReturns
    <2>2. CASE CallShift \/ CallThereAndBack \/ CallSpectrum \/ CallProcess
      <3>1. call'.name # "calcDPC"
        BY <2>2, NameOfCall
      <3> QED BY <3>1, NoDPCNext
    <2>3. CASE UNCHANGED <<call, result>>
      <3>1. call' = call /\ result' = result
        BY <2>3
      <3> QED BY <3>1, Zenon DEF DpcIgnoresShading
    <2> QED BY <2>1, <2>2, <2>3 DEF Next
  <1> QED BY <1>1, <1>2, PTL DEF Spec

(* Without backgrounds no pair of images gives a difference image at all:  *)
(* the green channel of "ones" is 0, OpenCV makes every quotient 0, and    *)
(* the flat result is stretched by a division by 0.                        *)
THEOREM FlatWithoutBackgrounds ==
    ASSUME NEW i1 \in [Lit -> Gray], NEW i2 \in [Lit -> Gray]
    PROVE  runProcess(i1, i2, Missing, Missing) = Undefined
  <1>1. PICK dark : dark = [p \in Lit |-> 0]
    OBVIOUS
  <1>2. ASSUME NEW i PROVE [p \in Lit |-> Divided(i[p], Background(Missing)[p])] = dark
    <2>1. \A p \in Lit : Background(Missing)[p] = 0
      BY DEF Background, ones
    <2>2. \A x : Divided(x, 0) = 0
      BY DEF Divided
    <2> QED BY <1>1, <2>1, <2>2
  <1>3. runProcess(i1, i2, Missing, Missing) = calcDPC(dark, dark)
    <2>1. runProcess(i1, i2, Missing, Missing)
            = calcDPC([p \in Lit |-> Divided(i1[p], Background(Missing)[p])],
                      [p \in Lit |-> Divided(i2[p], Background(Missing)[p])])
      BY Zenon DEF runProcess
    <2> QED BY <1>2, <2>1, Zenon
  <1>4. PICK value : value = ValueOf(dark, dark)
    OBVIOUS
  <1>5. \A p \in Lit : value[p] = 0
    BY <1>1, <1>4 DEF ValueOf, Contrast
  <1>6. All(value) = {0}
    BY <1>5 DEF All
  <1>7. Low({0}) = 0 /\ High({0}) = 0
    BY DEF Low, High
  <1>8. calcDPC(dark, dark) = Stretched(value, 0, 0)
    BY <1>4, <1>6, <1>7, CalcDPC
  <1> QED BY <1>3, <1>8 DEF Stretched

------------------------------------------------------------------------------
(* Rounding.                                                               *)

LEMMA TimesKeepsOrder ==
    ASSUME NEW a \in Int, NEW b \in Int, NEW c \in Nat, a <= b
    PROVE  a * c <= b * c
  OBVIOUS

LEMMA TimesCancels ==
    ASSUME NEW a \in Int, NEW b \in Int, NEW c \in Nat \ {0}, a * c = b * c
    PROVE  a = b
  OBVIOUS

Even(n) == \E h \in Int : n = 2 * h

(* r is x / y to the nearest integer, a half to the even one.              *)
Rounds(r, x, y) ==
    /\ r \in Int /\ r * y \in Int
    /\ (2 * x) - y <= 2 * (r * y) /\ 2 * (r * y) <= (2 * x) + y
    /\ (2 * x) - y = 2 * (r * y) \/ 2 * (r * y) = (2 * x) + y => Even(r)

LEMMA DividedRounds ==
    ASSUME NEW x \in Nat, NEW y \in Nat \ {0}
    PROVE  Rounds(Divided(x, y), x, y)
  <1>1. PICK q, m : q = x \div y /\ m = x % y
    OBVIOUS
  <1>2. q \in Int /\ m \in 0..(y - 1) /\ x = (q * y) + m
    BY <1>1, DivFacts
  <1>3. PICK t : t = q * y
    OBVIOUS
  <1>4. t \in Int /\ (q + 1) * y = t + y /\ x = t + m /\ m >= 0 /\ m < y /\ m \in Int
    BY <1>2, <1>3
  <1>5. Divided(x, y) = IF 2 * m > y \/ (2 * m = y /\ q % 2 = 1) THEN q + 1 ELSE q
    BY <1>1 DEF Divided
  <1>6. CASE 2 * m > y
    <2>1. Divided(x, y) = q + 1
      BY <1>5, <1>6
    <2>2. /\ (2 * x) - y < 2 * (t + y) /\ 2 * (t + y) < (2 * x) + y
          /\ t + y \in Int /\ q + 1 \in Int
      BY <1>2, <1>4, <1>6
    <2>3. Rounds(q + 1, x, y)
      BY <1>4, <2>2 DEF Rounds
    <2> QED BY <2>1, <2>3
  <1>7. CASE 2 * m = y /\ q % 2 = 1
    <2>1. Divided(x, y) = q + 1
      BY <1>5, <1>7
    <2>2. /\ (2 * x) - y <= 2 * (t + y) /\ 2 * (t + y) <= (2 * x) + y
          /\ t + y \in Int /\ q + 1 \in Int
      BY <1>2, <1>4, <1>7
    <2>3. Even(q + 1)
      <3>1. PICK h : h = (q + 1) \div 2
        OBVIOUS
      <3>2. h \in Int /\ q + 1 = 2 * h
        BY <1>2, <1>7, <3>1
      <3> QED BY <3>2 DEF Even
    <2>4. Rounds(q + 1, x, y)
      BY <1>4, <2>2, <2>3 DEF Rounds
    <2> QED BY <2>1, <2>4
  <1>8. CASE 2 * m = y /\ q % 2 # 1
    <2>1. Divided(x, y) = q
      BY <1>4, <1>5, <1>8
    <2>2. (2 * x) - y <= 2 * t /\ 2 * t <= (2 * x) + y
      BY <1>2, <1>4, <1>8
    <2>3. Even(q)
      <3>1. PICK h : h = q \div 2
        OBVIOUS
      <3>2. h \in Int /\ q = 2 * h
        BY <1>2, <1>8, <3>1
      <3> QED BY <3>2 DEF Even
    <2>4. Rounds(q, x, y)
      BY <1>2, <1>3, <1>4, <2>2, <2>3 DEF Rounds
    <2> QED BY <2>1, <2>4
  <1>9. CASE 2 * m < y
    <2>1. Divided(x, y) = q
      BY <1>4, <1>5, <1>9
    <2>2. (2 * x) - y < 2 * t /\ 2 * t < (2 * x) + y
      BY <1>2, <1>4, <1>9
    <2>3. Rounds(q, x, y)
      BY <1>2, <1>3, <1>4, <2>2 DEF Rounds
    <2> QED BY <2>1, <2>3
  <1> QED BY <1>4, <1>6, <1>7, <1>8, <1>9

(* A larger quotient is not rounded to a smaller integer.                  *)
LEMMA RoundsInOrder ==
    ASSUME NEW x1 \in Nat, NEW y1 \in Nat \ {0}, NEW r1 \in Int, Rounds(r1, x1, y1),
           NEW x2 \in Nat, NEW y2 \in Nat \ {0}, NEW r2 \in Int, Rounds(r2, x2, y2),
           x1 * y2 >= x2 * y1
    PROVE  r1 >= r2
  <1> SUFFICES ASSUME r1 + 1 <= r2 PROVE FALSE
    OBVIOUS
  <1>1. PICK Y, a1, a2, s1, s2 :
          /\ Y = y1 * y2 /\ a1 = x1 * y2 /\ a2 = x2 * y1 /\ s1 = r1 * y1 /\ s2 = r2 * y2
    OBVIOUS
  <1>2. /\ Y \in Nat \ {0} /\ a1 \in Int /\ a2 \in Int /\ s1 \in Int /\ s2 \in Int
        /\ a2 <= a1
    BY <1>1
  <1>3. /\ (2 * x1) - y1 <= 2 * s1 /\ 2 * s2 <= (2 * x2) + y2
        /\ (2 * x1) - y1 = 2 * s1 => Even(r1)
        /\ 2 * s2 = (2 * x2) + y2 => Even(r2)
    BY <1>1 DEF Rounds
  <1>4. PICK b1, b2 : b1 = r1 * Y /\ b2 = r2 * Y
    OBVIOUS
  <1>5. /\ ((2 * x1) - y1) * y2 = (2 * a1) - Y /\ (2 * s1) * y2 = 2 * b1
        /\ (2 * s2) * y1 = 2 * b2 /\ ((2 * x2) + y2) * y1 = (2 * a2) + Y
        /\ b1 \in Int /\ b2 \in Int
    BY <1>1, <1>2, <1>4
  <1>6. (2 * a1) - Y <= 2 * b1 /\ 2 * b2 <= (2 * a2) + Y
    <2>1. ((2 * x1) - y1) * y2 <= (2 * s1) * y2
      BY <1>2, <1>3, TimesKeepsOrder
    <2>2. (2 * s2) * y1 <= ((2 * x2) + y2) * y1
      BY <1>2, <1>3, TimesKeepsOrder
    <2> QED BY <1>5, <2>1, <2>2
  <1>7. b1 + Y <= b2
    <2>1. (r1 + 1) * Y <= r2 * Y
      BY <1>2, TimesKeepsOrder
    <2>2. (r1 + 1) * Y = b1 + Y
      BY <1>2, <1>4
    <2> QED BY <1>4, <2>1, <2>2
  <1>8. 2 * b1 = (2 * a1) - Y /\ 2 * b2 = (2 * a2) + Y /\ b2 = b1 + Y
    BY <1>2, <1>5, <1>6, <1>7
  <1>9. Even(r1)
    <2>1. ((2 * x1) - y1) * y2 = (2 * s1) * y2
      BY <1>5, <1>8
    <2>2. (2 * x1) - y1 = 2 * s1
      BY <1>2, <2>1, TimesCancels
    <2> QED BY <1>3, <2>2
  <1>10. Even(r2)
    <2>1. (2 * s2) * y1 = ((2 * x2) + y2) * y1
      BY <1>5, <1>8
    <2>2. 2 * s2 = (2 * x2) + y2
      BY <1>2, <2>1, TimesCancels
    <2> QED BY <1>3, <2>2
  <1>11. r2 = r1 + 1
    <2>1. r2 * Y = (r1 + 1) * Y
      BY <1>2, <1>4, <1>8
    <2> QED BY <1>2, <2>1, TimesCancels
  <1>12. PICK h \in Int, k \in Int : r1 = 2 * h /\ r2 = 2 * k
    BY <1>9, <1>10 DEF Even
  <1> QED BY <1>11, <1>12

LEMMA DividedInOrder ==
    ASSUME NEW x1 \in Nat, NEW y1 \in Nat \ {0}, NEW x2 \in Nat, NEW y2 \in Nat \ {0},
           x1 * y2 >= x2 * y1
    PROVE  /\ Divided(x1, y1) \in Int /\ Divided(x2, y2) \in Int
           /\ Divided(x1, y1) >= Divided(x2, y2)
  <1>1. PICK r1, r2 : r1 = Divided(x1, y1) /\ r2 = Divided(x2, y2)
    OBVIOUS
  <1>2. Rounds(r1, x1, y1) /\ Rounds(r2, x2, y2)
    BY <1>1, DividedRounds
  <1>3. r1 \in Int /\ r2 \in Int
    BY <1>2 DEF Rounds
  <1>4. r1 >= r2
    BY <1>2, <1>3, RoundsInOrder
  <1> QED BY <1>1, <1>3, <1>4

(* Within half a background of k times the background.                     *)
Near(x, k, y) == -y < 2 * (x - k * y) /\ 2 * (x - k * y) < y

LEMMA NearRounds ==
    ASSUME NEW x \in Nat, NEW y \in Nat \ {0}, NEW k \in Nat, Near(x, k, y)
    PROVE  Divided(x, y) = k
  <1>1. PICK r : r = Divided(x, y)
    OBVIOUS
  <1>2. Rounds(r, x, y)
    BY <1>1, DividedRounds
  <1>3. PICK s, t : s = r * y /\ t = k * y
    OBVIOUS
  <1>4. /\ r \in Int /\ s \in Int /\ t \in Int
        /\ (2 * x) - y <= 2 * s /\ 2 * s <= (2 * x) + y
        /\ -y < 2 * (x - t) /\ 2 * (x - t) < y
    BY <1>2, <1>3 DEF Rounds, Near
  <1>5. s < t + y /\ t < s + y
    BY <1>4
  <1>6. ~(r + 1 <= k)
    <2>1. ASSUME r + 1 <= k PROVE FALSE
      <3>1. (r + 1) * y <= k * y
        BY <1>4, <2>1, TimesKeepsOrder
      <3>2. (r + 1) * y = s + y
        BY <1>3, <1>4
      <3> QED BY <1>3, <1>4, <1>5, <3>1, <3>2
    <2> QED BY <2>1
  <1>7. ~(k + 1 <= r)
    <2>1. ASSUME k + 1 <= r PROVE FALSE
      <3>1. (k + 1) * y <= r * y
        BY <1>4, <2>1, TimesKeepsOrder
      <3>2. (k + 1) * y = t + y
        BY <1>3, <1>4
      <3> QED BY <1>3, <1>4, <1>5, <3>1, <3>2
    <2> QED BY <2>1
  <1> QED BY <1>1, <1>4, <1>6, <1>7

(* A gray value over a background is a gray value.                         *)
LEMMA DividedIsGray ==
    ASSUME NEW x \in Gray, NEW y \in 1..MaxGray
    PROVE  Divided(x, y) \in Gray
  <1>1. x \in Nat /\ y \in Nat \ {0} /\ 1 \in Nat \ {0} /\ 0 \in Nat /\ x <= MaxGray
    BY ImageAssumption DEF Gray
  <1>2. Divided(x, 1) = x /\ Divided(0, 1) = 0
    BY <1>1 DEF Divided
  <1>3. x * y >= x * 1 /\ x * 1 >= 0 * y
    BY <1>1
  <1>4. Divided(x, y) \in Int /\ Divided(x, 1) >= Divided(x, y)
    BY <1>1, <1>3, DividedInOrder
  <1>5. Divided(x, y) >= Divided(0, 1)
    BY <1>1, <1>3, DividedInOrder
  <1> QED BY <1>1, <1>2, <1>4, <1>5, ImageAssumption DEF Gray

(* The sign of a contrast.                                                 *)
LEMMA ContrastSign ==
    ASSUME NEW a \in Gray, NEW b \in Gray
    PROVE  /\ a >= b => Contrast(a, b) >= 0
           /\ a <= b => Contrast(a, b) <= 0
           /\ a = b => Contrast(a, b) = 0
  <1>1. a \in Nat /\ b \in Nat /\ a <= MaxGray /\ b <= MaxGray /\ MaxGray \in Nat /\ Scale \in Nat
    BY ImageAssumption DEF Gray
  <1>2. CASE a + b = 0
    BY <1>2 DEF Contrast
  <1>3. CASE a + b # 0
    <2>1. PICK s : s = a + b
      OBVIOUS
    <2>2. s \in 1..(2 * MaxGray)
      BY <1>1, <1>3, <2>1
    <2>3. PICK k \in Nat : Scale \div s = 2 * k
      BY <2>2, ScaleDivided
    <2>4. Contrast(a, b) = (2 * k) * (a - b)
      BY <1>3, <2>1, <2>3 DEF Contrast
    <2> QED BY <1>1, <2>3, <2>4
  <1> QED BY <1>2, <1>3

(* A difference image shows a pixel that is not darker in image 1 not      *)
(* darker than a pixel that is not darker in image 2; two equal images     *)
(* give none.                                                              *)
LEMMA DpcInOrder ==
    ASSUME NEW i1 \in [Lit -> Gray], NEW i2 \in [Lit -> Gray]
    PROVE  /\ calcDPC(i1, i2) = Undefined
              \/ \A p, q \in Lit : i1[p] >= i2[p] /\ i1[q] <= i2[q]
                                    => calcDPC(i1, i2)[p] >= calcDPC(i1, i2)[q]
           /\ (\A p \in Lit : i1[p] = i2[p]) => calcDPC(i1, i2) = Undefined
  <1>1. PICK value : value = ValueOf(i1, i2)
    OBVIOUS
  <1>2. value \in [Lit -> (-Scale)..Scale] /\ Scale \in Nat
    BY <1>1, ValueFacts, ImageAssumption
  <1>3. PICK low, high : low = Low(All(value)) /\ high = High(All(value))
    OBVIOUS
  <1>4. /\ low \in Int /\ high \in Int
        /\ \A p \in Lit : low <= value[p] /\ value[p] <= high
        /\ low <= high
    <2>1. /\ All(value) \subseteq (-Scale)..Scale /\ All(value) # {}
          /\ \A p \in Lit : value[p] \in All(value)
      BY <1>2 DEF All
    <2>2. /\ low \in All(value) /\ \A u \in All(value) : low <= u
          /\ high \in All(value) /\ \A u \in All(value) : u <= high
      BY <1>2, <1>3, <2>1, Extremes
    <2> QED BY <1>2, <2>1, <2>2
  <1>5. calcDPC(i1, i2) = Stretched(value, low, high)
    BY <1>1, <1>3, CalcDPC
  <1>6. ASSUME low # high, NEW p \in Lit, NEW q \in Lit, i1[p] >= i2[p], i1[q] <= i2[q]
        PROVE  calcDPC(i1, i2)[p] >= calcDPC(i1, i2)[q]
    <2>1. value[p] >= 0 /\ value[q] <= 0 /\ value[p] \in Int /\ value[q] \in Int
      BY <1>1, <1>2, <1>6, ContrastSign DEF ValueOf
    <2>2. PICK d, x1, x2 : d = high - low /\ x1 = 255 * (value[p] - low) /\ x2 = 255 * (value[q] - low)
      OBVIOUS
    <2>3. d \in Nat \ {0} /\ x1 \in Nat /\ x2 \in Nat /\ x2 <= x1
      BY <1>4, <1>6, <2>1, <2>2
    <2>4. x1 * d >= x2 * d
      BY <2>3, TimesKeepsOrder
    <2>5. Divided(x1, d) >= Divided(x2, d)
      BY <2>3, <2>4, DividedInOrder
    <2> QED BY <1>5, <1>6, <2>2, <2>5 DEF Stretched
  <1>7. ASSUME \A p \in Lit : i1[p] = i2[p]
        PROVE  calcDPC(i1, i2) = Undefined
    <2>1. \A p \in Lit : value[p] = 0
      BY <1>1, <1>7, ContrastSign DEF ValueOf
    <2>2. All(value) = {0}
      BY <2>1 DEF All
    <2>3. low = 0 /\ high = 0
      BY <1>3, <2>2 DEF Low, High
    <2> QED BY <1>5, <2>3 DEF Stretched
  <1> QED BY <1>5, <1>6, <1>7 DEF Stretched

(* The two images of runProcess over their backgrounds.                    *)
OverBackground(image, bg) == [p \in Lit |-> Divided(image[p], bg[p])]

LEMMA ProcessOverBackgrounds ==
    ASSUME NEW i1 \in [Lit -> Gray], NEW i2 \in [Lit -> Gray],
           NEW b1 \in [Lit -> 1..MaxGray], NEW b2 \in [Lit -> 1..MaxGray]
    PROVE  /\ runProcess(i1, i2, b1, b2) = calcDPC(OverBackground(i1, b1), OverBackground(i2, b2))
           /\ OverBackground(i1, b1) \in [Lit -> Gray]
           /\ OverBackground(i2, b2) \in [Lit -> Gray]
  <1>1. b1 # Missing /\ b2 # Missing
    BY ImageAssumption, OutcomeAssumption, 1..MaxGray \subseteq Nat
  <1>2. Background(b1) = b1 /\ Background(b2) = b2
    BY <1>1 DEF Background
  <1>3. runProcess(i1, i2, b1, b2)
          = calcDPC([p \in Lit |-> Divided(i1[p], Background(b1)[p])],
                    [p \in Lit |-> Divided(i2[p], Background(b2)[p])])
    BY Zenon DEF runProcess
  <1> QED BY <1>2, <1>3, DividedIsGray DEF OverBackground

AlikeAt(i1, i2, b1, b2, p) == \E k \in Gray : Near(i1[p], k, b1[p]) /\ Near(i2[p], k, b2[p])

NotInverted(image, i1, i2, b1, b2) ==
    \A p, q \in Lit : i1[p] * b2[p] >= i2[p] * b1[p] /\ i1[q] * b2[q] <= i2[q] * b1[q]
                        => image[p] >= image[q]

(* What runProcess makes of a pair with its backgrounds.                   *)
LEMMA ProcessInOrder ==
    ASSUME NEW i1 \in [Lit -> Gray], NEW i2 \in [Lit -> Gray],
           NEW b1 \in [Lit -> 1..MaxGray], NEW b2 \in [Lit -> 1..MaxGray],
           NEW image, image = runProcess(i1, i2, b1, b2)
    PROVE  /\ image = Undefined \/ NotInverted(image, i1, i2, b1, b2)
           /\ (\A p \in Lit : AlikeAt(i1, i2, b1, b2, p)) => image = Undefined
  <1>1. PICK o1, o2 : o1 = OverBackground(i1, b1) /\ o2 = OverBackground(i2, b2)
    OBVIOUS
  <1>2. image = calcDPC(o1, o2) /\ o1 \in [Lit -> Gray] /\ o2 \in [Lit -> Gray]
    BY <1>1, ProcessOverBackgrounds
  <1>3. \A p \in Lit : o1[p] = Divided(i1[p], b1[p]) /\ o2[p] = Divided(i2[p], b2[p])
    BY <1>1 DEF OverBackground
  <1>4. \A p \in Lit : /\ i1[p] \in Nat /\ i2[p] \in Nat
                       /\ b1[p] \in Nat \ {0} /\ b2[p] \in Nat \ {0}
    BY ImageAssumption DEF Gray
  <1>5. ASSUME NEW p \in Lit
        PROVE  /\ i1[p] * b2[p] >= i2[p] * b1[p] => o1[p] >= o2[p]
               /\ i1[p] * b2[p] <= i2[p] * b1[p] => o1[p] <= o2[p]
               /\ AlikeAt(i1, i2, b1, b2, p) => o1[p] = o2[p]
    <2>1. ASSUME i1[p] * b2[p] >= i2[p] * b1[p] PROVE o1[p] >= o2[p]
      BY <1>3, <1>4, <2>1, DividedInOrder
    <2>2. ASSUME i1[p] * b2[p] <= i2[p] * b1[p] PROVE o1[p] <= o2[p]
      <3>1. i2[p] * b1[p] >= i1[p] * b2[p]
        BY <1>4, <2>2
      <3>2. /\ Divided(i2[p], b2[p]) \in Int /\ Divided(i1[p], b1[p]) \in Int
            /\ Divided(i2[p], b2[p]) >= Divided(i1[p], b1[p])
        BY <1>4, <3>1, DividedInOrder
      <3> QED BY <1>3, <3>2
    <2>3. ASSUME AlikeAt(i1, i2, b1, b2, p) PROVE o1[p] = o2[p]
      <3>1. PICK k \in Gray : Near(i1[p], k, b1[p]) /\ Near(i2[p], k, b2[p])
        BY <2>3 DEF AlikeAt
      <3>2. k \in Nat
        BY ImageAssumption DEF Gray
      <3>3. Divided(i1[p], b1[p]) = k /\ Divided(i2[p], b2[p]) = k
        BY <1>4, <3>1, <3>2, NearRounds
      <3> QED BY <1>3, <3>3
    <2> QED BY <2>1, <2>2, <2>3
  <1>6. /\ calcDPC(o1, o2) = Undefined
           \/ \A p, q \in Lit : o1[p] >= o2[p] /\ o1[q] <= o2[q]
                                 => calcDPC(o1, o2)[p] >= calcDPC(o1, o2)[q]
        /\ (\A p \in Lit : o1[p] = o2[p]) => calcDPC(o1, o2) = Undefined
    BY <1>2, DpcInOrder
  <1>7. image = Undefined \/ NotInverted(image, i1, i2, b1, b2)
    BY <1>2, <1>5, <1>6 DEF NotInverted
  <1>8. (\A p \in Lit : AlikeAt(i1, i2, b1, b2, p)) => image = Undefined
    BY <1>2, <1>5, <1>6
  <1> QED BY <1>7, <1>8

LEMMA NoProcess ==
    ASSUME call.name # "runProcess"
    PROVE  RoundingErasesNeverInverts
  BY Zenon DEF RoundingErasesNeverInverts

LEMMA NoProcessNext ==
    ASSUME call'.name # "runProcess"
    PROVE  RoundingErasesNeverInverts'
  BY Zenon DEF RoundingErasesNeverInverts

(* For every image, every pair of backgrounds and every range of gray      *)
(* values: the rounded division by the backgrounds inverts no contrast,    *)
(* and what differs by less than half a background is erased.              *)
THEOREM RoundingNeverInverts == Spec => []RoundingErasesNeverInverts
  <1>1. ASSUME Init PROVE RoundingErasesNeverInverts
    <2>1. call.name # "runProcess"
      BY <1>1, NameOfCall
    <2> QED BY <2>1, NoProcess
  <1>2. RoundingErasesNeverInverts /\ [Next]_<<call, result>> => RoundingErasesNeverInverts'
    <2> SUFFICES ASSUME RoundingErasesNeverInverts, [Next]_<<call, result>>
                 PROVE  RoundingErasesNeverInverts'
      OBVIOUS
    <2>1. CASE CallProcess
      <3>1. PICK i1 \in [Lit -> Gray], i2 \in [Lit -> Gray],
                 b1 \in [Lit -> 1..MaxGray] \cup {Missing},
                 b2 \in [Lit -> 1..MaxGray] \cup {Missing} :
              /\ call' = [name |-> "runProcess", image1 |-> i1, image2 |-> i2,
                          bg1 |-> b1, bg2 |-> b2]
              /\ result' = runProcess(i1, i2, b1, b2)
        BY <2>1, Zenon DEF CallProcess
      <3>2. /\ call'.image1 = i1 /\ call'.image2 = i2
            /\ call'.bg1 = b1 /\ call'.bg2 = b2
        BY <3>1
      <3>3. ASSUME Missing \notin {b1, b2}
            PROVE  /\ result' = Undefined \/ NotInverted(result', i1, i2, b1, b2)
                   /\ (\A p \in Lit : AlikeAt(i1, i2, b1, b2, p)) => result' = Undefined
        <4>1. b1 \in [Lit -> 1..MaxGray] /\ b2 \in [Lit -> 1..MaxGray]
          BY <3>3
        <4> QED BY <3>1, <4>1, ProcessInOrder
      <3> QED BY <3>2, <3>3, Zenon DEF RoundingErasesNeverInverts, NotInverted, AlikeAt, Near
    <2>2. CASE CallShift \/ CallThereAndBack \/ CallSpectrum \/ CallDPC
      <3>1. call'.name # "runProcess"
        BY <2>2, NameOfCall
      <3> QED BY <3>1, NoProcessNext
    <2>3. CASE UNCHANGED <<call, result>>
      <3>1. call' = call /\ result' = result
        BY <2>3
      <3> QED BY <3>1, Zenon DEF RoundingErasesNeverInverts
    <2> QED BY <2>1, <2>2, <2>3 DEF Next
  <1> QED BY <1>1, <1>2, PTL DEF Spec

------------------------------------------------------------------------------
(* Spectra.                                                                *)

(* fftShift of a Mat that is its own output.                               *)
InPlaceShift(img) == fftShift(img, TRUE)

LEMMA SquareShiftTurns ==
    ASSUME NEW n \in Nat \ {0}, NEW f
    PROVE  InPlaceShift(MatOf(n, n, f)) = MatOf(n, n, Turned(n, n, f, Ceil2(n), Ceil2(n)))
  <1>1. PICK img : img = MatOf(n, n, f)
    OBVIOUS
  <1>2. img.rows = n /\ img.cols = n
    BY <1>1 DEF MatOf
  <1>3. InPlaceShift(img) = Shifted(img, zeros(n, n), Ceil2(n), Ceil2(n))
    BY <1>2 DEF InPlaceShift, fftShift, ShiftBy, Shifted
  <1>4. zeros(n, n) = MatOf(n, n, Empty(n, n))
    BY AsMatOf
  <1>5. Ceil2(n) \in Int
    BY DEF Ceil2
  <1>6. Shifted(MatOf(n, n, f), MatOf(n, n, Empty(n, n)), Ceil2(n), Ceil2(n))
          = MatOf(n, n, Turned(n, n, f, Ceil2(n), Ceil2(n)))
    BY <1>5, ShiftTurns
  <1> QED BY <1>1, <1>3, <1>4, <1>6

(* Both halves of an even side.                                            *)
LEMMA EvenHalves ==
    ASSUME NEW n \in Nat, n >= 2, n % 2 = 0
    PROVE  /\ n \div 2 \in 1..(n - 1) /\ n = (n \div 2) + (n \div 2)
           /\ Ceil2(n) = n \div 2 /\ Floor2(n) = n \div 2
  BY DEF Ceil2, Floor2

(* Half a side to the left is half a side to the right, and twice half a   *)
(* side leads back.                                                        *)
HalfTurned(n, h) ==
    \A i \in 0..(n - 1) :
        /\ (i - h) % n = (i + h) % n
        /\ (i - h) % n \in 0..(n - 1)
        /\ (((i - h) % n) - h) % n = i
        /\ ((i - h) % n) - h = IF i < h THEN i ELSE i - n

LEMMA HalfTurn ==
    ASSUME NEW n \in Nat, NEW h \in Nat \ {0}, n = h + h
    PROVE  HalfTurned(n, h)
  <1> USE DEF HalfTurned
  <1> TAKE i \in 0..(n - 1)
  <1>1. PICK j : j = (i - h) % n
    OBVIOUS
  <1>2. n \in Nat \ {0} /\ h \in 0..(n - 1)
    OBVIOUS
  <1>3. /\ j \in 0..(n - 1)
        /\ i >= h => j = i - h
        /\ i < h => j = (i - h) + n
    BY <1>1, <1>2, ShortlyRotated, Zenon
  <1>4. /\ j >= h => (j - h) % n = j - h
        /\ j < h => (j - h) % n = (j - h) + n
    BY <1>2, <1>3, ShortlyRotated, Zenon
  <1>5. (j - h) % n = i /\ j - h = IF i < h THEN i ELSE i - n
    BY <1>2, <1>3, <1>4
  <1>6. (i + h) % n = j
    <2>1. CASE i >= h
      <3>1. i + h = (1 * n) + j
        BY <1>3, <2>1
      <3> QED BY <1>2, <1>3, <3>1, DivUnique
    <2>2. CASE i < h
      <3>1. i + h = (0 * n) + j
        BY <1>3, <2>2
      <3> QED BY <1>2, <1>3, <3>1, DivUnique
    <2> QED BY <2>1, <2>2
  <1> QED BY <1>1, <1>3, <1>5, <1>6

(* The row and the column of the k-th of n * n values.                     *)
LEMMA RowByRow ==
    ASSUME NEW n \in Nat \ {0}, NEW k \in Nat
    PROVE  /\ (k % (n * n)) \div n \in 0..(n - 1)
           /\ (k % (n * n)) % n = k % n
           /\ k % n \in 0..(n - 1)
  <1>1. PICK N : N = n * n
    OBVIOUS
  <1>2. N \in Nat \ {0} /\ k \in Int
    BY <1>1
  <1>3. PICK Q, R : Q = k \div N /\ R = k % N
    OBVIOUS
  <1>4. Q \in Int /\ R \in 0..(N - 1) /\ k = (Q * N) + R
    BY <1>2, <1>3, DivFacts
  <1>5. R \in Int /\ R >= 0 /\ R < N
    BY <1>2, <1>4
  <1>6. PICK q, r : q = R \div n /\ r = R % n
    OBVIOUS
  <1>7. q \in Int /\ r \in 0..(n - 1) /\ R = (q * n) + r
    BY <1>5, <1>6, DivFacts
  <1>8. PICK m : m = (Q * n) + q
    OBVIOUS
  <1>9. k % n = r
    <2>1. k = (m * n) + r /\ m \in Int
      BY <1>1, <1>4, <1>7, <1>8
    <2> QED BY <1>2, <1>7, <2>1, DivUnique
  <1>10. q >= 0
    <2>1. ASSUME q < 0 PROVE FALSE
      <3>1. q * n <= -n
        BY <1>7, <2>1
      <3> QED BY <1>5, <1>7, <3>1
    <2> QED BY <1>7, <2>1
  <1>11. q < n
    <2>1. ASSUME q >= n PROVE FALSE
      <3>1. q * n >= n * n
        BY <1>7, <2>1
      <3> QED BY <1>1, <1>5, <1>7, <3>1
    <2> QED BY <1>7, <2>1
  <1> QED BY <1>1, <1>3, <1>6, <1>7, <1>9, <1>10, <1>11

(* The spectrum of a square image that needs no padding, after fftShift:   *)
(* at each place the frequency half a side away.                           *)
Middle(n, h) == [p \in Places(n, n) |-> <<(p[1] - h) % n, (p[2] - h) % n>>]

LEMMA SpectrumShifted ==
    ASSUME NEW n \in 2..(2 * MaxSide), n % 2 = 0, getOptimalDFTSize(n) = n
    PROVE  /\ InPlaceShift(fft2(n, n)) = MatOf(n, n, Middle(n, n \div 2))
           /\ MatOf(n, n, Middle(n, n \div 2)) # Failed
  <1>1. n \in Nat \ {0} /\ n >= 2 /\ n \in Side
    BY ImageAssumption DEF Side
  <1>2. PICK h : h = n \div 2
    OBVIOUS
  <1>3. h \in Int /\ Ceil2(n) = h
    BY <1>1, <1>2, EvenHalves
  <1>4. fft2(n, n) = MatOf(n, n, Itself(n, n))
    BY AsMatOf DEF fft2
  <1>5. InPlaceShift(fft2(n, n)) = MatOf(n, n, Turned(n, n, Itself(n, n), h, h))
    BY <1>1, <1>3, <1>4, SquareShiftTurns
  <1>6. /\ Turned(n, n, Itself(n, n), h, h) = Origins(n, n, h, h)
        /\ Turned(n, n, Itself(n, n), h, h) \in [Places(n, n) -> Nat \X Nat]
    BY <1>1, <1>3, TurnedItself
  <1>7. Origins(n, n, h, h) = Middle(n, h)
    BY DEF Origins, Middle
  <1>8. MatOf(n, n, Middle(n, h)) # Failed
    BY <1>1, <1>6, <1>7, NoException
  <1> QED BY <1>2, <1>5, <1>6, <1>7, <1>8

(* The k-th value of the vector.                                           *)
InOrder(n, h, k) ==
    [part |-> IF k < n * n THEN "real" ELSE "imag",
     freq |-> <<(((k % (n * n)) \div n) + h) % n, ((k % n) + h) % n>>]

LEMMA VectorInOrder ==
    ASSUME NEW n \in 2..(2 * MaxSide), n % 2 = 0, getOptimalDFTSize(n) = n
    PROVE  getFFTVector(n, n) = [k \in 0..((2 * n * n) - 1) |-> InOrder(n, n \div 2, k)]
  <1>1. n \in Nat \ {0} /\ n >= 2
    BY ImageAssumption
  <1>2. PICK h : h = n \div 2
    OBVIOUS
  <1>3. h \in Nat \ {0} /\ n = h + h
    BY <1>1, <1>2, EvenHalves
  <1>4. PICK spectrum : spectrum = MatOf(n, n, Middle(n, h))
    OBVIOUS
  <1>5. InPlaceShift(fft2(n, n)) = spectrum /\ spectrum # Failed
    BY <1>2, <1>4, SpectrumShifted
  <1>6. spectrum.rows = n /\ spectrum.cols = n /\ spectrum.at = Middle(n, h)
    BY <1>4, MatOfFields
  <1>7. getFFTVector(n, n) = [k \in 0..((2 * (n * n)) - 1) |->
            [part |-> IF k < n * n THEN "real" ELSE "imag",
             freq |-> Middle(n, h)[<<(k % (n * n)) \div n, (k % (n * n)) % n>>]]]
    BY <1>5, <1>6 DEF getFFTVector, InPlaceShift
  <1>8. ASSUME NEW k \in Nat
        PROVE  Middle(n, h)[<<(k % (n * n)) \div n, (k % (n * n)) % n>>]
                = <<(((k % (n * n)) \div n) + h) % n, ((k % n) + h) % n>>
    <2>1. PICK i, j : i = (k % (n * n)) \div n /\ j = k % n
      OBVIOUS
    <2>2. i \in 0..(n - 1) /\ j \in 0..(n - 1) /\ (k % (n * n)) % n = j
      BY <1>1, <2>1, RowByRow
    <2>3. Middle(n, h)[<<i, j>>] = <<(i - h) % n, (j - h) % n>>
      BY <2>2 DEF Middle, Places
    <2>4. HalfTurned(n, h)
      BY <1>1, <1>3, HalfTurn
    <2>5. (i - h) % n = (i + h) % n /\ (j - h) % n = (j + h) % n
      BY <2>2, <2>4, Zenon DEF HalfTurned
    <2> QED BY <2>1, <2>2, <2>3, <2>5
  <1>9. (2 * n) * n = 2 * (n * n) /\ 0..((2 * (n * n)) - 1) \subseteq Nat
    BY <1>1
  <1>10. getFFTVector(n, n) = [k \in 0..((2 * (n * n)) - 1) |-> InOrder(n, h, k)]
    BY <1>7, <1>8, <1>9 DEF InOrder
  <1> QED BY <1>2, <1>9, <1>10

(* What each frequency of the middle meets in the kernel.                  *)
Products(n, h) == [p \in Places(n, n) |->
    [freq |-> Middle(n, h)[p], kernel |-> <<p[1] - h, p[2] - h>>]]

LEMMA FresnelShifted ==
    ASSUME NEW n \in 2..(2 * MaxSide), n % 2 = 0, getOptimalDFTSize(n) = n
    PROVE  LET h == n \div 2
           IN fresnelProp(n, n) = MatOf(n, n, Turned(n, n, Products(n, h), h, h))
  <1>1. n \in Nat \ {0} /\ n >= 2
    BY ImageAssumption
  <1>2. PICK h : h = n \div 2
    OBVIOUS
  <1>3. Ceil2(n) = h /\ Floor2(n) = h
    BY <1>1, <1>2, EvenHalves
  <1>4. PICK spectrum, kernel : /\ spectrum = MatOf(n, n, Middle(n, h))
                                /\ kernel = genFresnelKernel(n, n)
    OBVIOUS
  <1>5. InPlaceShift(fft2(n, n)) = spectrum /\ spectrum # Failed
    BY <1>2, <1>4, SpectrumShifted
  <1>6. spectrum.at = Middle(n, h)
    BY <1>4, MatOfFields
  <1>7. kernel.at = [p \in Places(n, n) |-> <<p[1] - h, p[2] - h>>]
    BY <1>3, <1>4 DEF genFresnelKernel, Mat
  <1>8. DOMAIN spectrum.at = DOMAIN kernel.at
    BY <1>6, <1>7 DEF Middle
  <1> DEFINE product == [rows |-> n, cols |-> n,
                         at |-> [p \in Places(n, n) |->
                                    [freq |-> spectrum.at[p], kernel |-> kernel.at[p]]]]
  <1>9. fresnelProp(n, n) = InPlaceShift(product)
    BY <1>4, <1>5, <1>8 DEF fresnelProp, InPlaceShift, Mat
  <1>10. product = MatOf(n, n, Products(n, h))
    BY <1>6, <1>7 DEF MatOf, Products
  <1>11. InPlaceShift(MatOf(n, n, Products(n, h)))
            = MatOf(n, n, Turned(n, n, Products(n, h), h, h))
    BY <1>1, <1>3, SquareShiftTurns
  <1> HIDE DEF product
  <1> QED BY <1>2, <1>9, <1>10, <1>11

(* Every frequency is back in its place, next to the value of the kernel   *)
(* that was computed for it.                                               *)
LEMMA FresnelInOrder ==
    ASSUME NEW n \in 2..(2 * MaxSide), n % 2 = 0, getOptimalDFTSize(n) = n
    PROVE  \A p \in DOMAIN fresnelProp(n, n).at :
                /\ fresnelProp(n, n).at[p].freq = p
                /\ fresnelProp(n, n).at[p].kernel = <<Signed(p[1], n), Signed(p[2], n)>>
  <1>1. n \in Nat /\ n >= 2
    BY ImageAssumption
  <1>2. PICK h : h = n \div 2
    OBVIOUS
  <1>3. h \in Nat \ {0} /\ n = h + h
    BY <1>1, <1>2, EvenHalves
  <1>4. PICK at : at = Turned(n, n, Products(n, h), h, h)
    OBVIOUS
  <1>5. fresnelProp(n, n).at = at
    <2>1. fresnelProp(n, n) = MatOf(n, n, at)
      BY <1>2, <1>4, FresnelShifted
    <2> QED BY <2>1, MatOfFields
  <1>6. DOMAIN at = Places(n, n)
    BY <1>4 DEF Turned
  <1>7. ASSUME NEW p \in Places(n, n)
        PROVE  at[p].freq = p /\ at[p].kernel = <<Signed(p[1], n), Signed(p[2], n)>>
    <2>1. PICK i \in 0..(n - 1), j \in 0..(n - 1) : p = <<i, j>>
      BY DEF Places
    <2>2. PICK k, l : k = (i - h) % n /\ l = (j - h) % n
      OBVIOUS
    <2>3. /\ k \in 0..(n - 1) /\ (k - h) % n = i
          /\ k - h = IF i < h THEN i ELSE i - n
          /\ l \in 0..(n - 1) /\ (l - h) % n = j
          /\ l - h = IF j < h THEN j ELSE j - n
      <3>1. HalfTurned(n, h)
        BY <1>1, <1>3, HalfTurn
      <3> QED BY <2>2, <3>1, Zenon DEF HalfTurned
    <2>4. at[p] = Products(n, h)[<<k, l>>]
      BY <1>4, <2>1, <2>2 DEF Turned
    <2>5. <<k, l>> \in Places(n, n)
      BY <2>3 DEF Places
    <2>6. /\ Products(n, h)[<<k, l>>].freq = Middle(n, h)[<<k, l>>]
          /\ Products(n, h)[<<k, l>>].kernel = <<k - h, l - h>>
      BY <2>5 DEF Products
    <2>7. Middle(n, h)[<<k, l>>] = <<(k - h) % n, (l - h) % n>>
      BY <2>5 DEF Middle
    <2>8. k - h = Signed(i, n) /\ l - h = Signed(j, n)
      BY <1>2, <2>3, Zenon DEF Signed
    <2> QED BY <2>1, <2>3, <2>4, <2>6, <2>7, <2>8
  <1> QED BY <1>5, <1>6, <1>7

LEMMA NoSpectrum ==
    ASSUME call.name # "getFFTVector", call.name # "fresnelProp"
    PROVE  SpectrumInOrder
  BY Zenon DEF SpectrumInOrder

LEMMA NoSpectrumNext ==
    ASSUME call'.name # "getFFTVector", call'.name # "fresnelProp"
    PROVE  SpectrumInOrder'
  BY Zenon DEF SpectrumInOrder

(* For square images of every even side that is not padded, getFFTVector   *)
(* lists the frequencies from the most negative one upwards, real parts    *)
(* before imaginary ones, and fresnelProp multiplies each frequency by its *)
(* own value of the kernel and puts it back in its place.                  *)
THEOREM SpectraInOrder == Spec => []SpectrumInOrder
  <1>1. ASSUME Init PROVE SpectrumInOrder
    <2>1. call.name # "getFFTVector" /\ call.name # "fresnelProp"
      BY <1>1, NameOfCall
    <2> QED BY <2>1, NoSpectrum
  <1>2. SpectrumInOrder /\ [Next]_<<call, result>> => SpectrumInOrder'
    <2> SUFFICES ASSUME SpectrumInOrder, [Next]_<<call, result>>
                 PROVE  SpectrumInOrder'
      OBVIOUS
    <2>1. CASE CallSpectrum
      <3>1. PICK rows \in 2..(2 * MaxSide), cols \in 2..(2 * MaxSide),
                 f \in {"getFFTVector", "fresnelProp"} :
              /\ call' = [name |-> f, rows |-> rows, cols |-> cols]
              /\ result' = IF f = "getFFTVector" THEN getFFTVector(rows, cols)
                                                 ELSE fresnelProp(rows, cols)
        BY <2>1 DEF CallSpectrum
      <3>2. call'.name = f /\ call'.rows = rows /\ call'.cols = cols
        BY <3>1
      <3>3. ASSUME f = "getFFTVector", Regular'
            PROVE  result' = [k \in 0..((2 * rows * rows) - 1) |-> InOrder(rows, rows \div 2, k)]
        <4>1. rows = cols /\ rows % 2 = 0 /\ getOptimalDFTSize(rows) = rows
          BY <3>2, <3>3 DEF Regular
        <4>2. result' = getFFTVector(rows, rows)
          BY <3>1, <3>3, <4>1
        <4> QED BY <4>1, <4>2, VectorInOrder
      <3>4. ASSUME f = "fresnelProp", Regular'
            PROVE  \A p \in DOMAIN result'.at :
                     /\ result'.at[p].freq = p
                     /\ result'.at[p].kernel = <<Signed(p[1], rows), Signed(p[2], rows)>>
        <4>1. rows = cols /\ rows % 2 = 0 /\ getOptimalDFTSize(rows) = rows
          BY <3>2, <3>4 DEF Regular
        <4>2. result' = fresnelProp(rows, rows)
          BY <3>1, <3>4, <4>1
        <4> QED BY <4>1, <4>2, FresnelInOrder
      <3> QED BY <3>2, <3>3, <3>4, Zenon DEF SpectrumInOrder, InOrder
    <2>2. CASE CallShift \/ CallThereAndBack \/ CallDPC \/ CallProcess
      <3>1. call'.name # "getFFTVector" /\ call'.name # "fresnelProp"
        BY <2>2, NameOfCall
      <3> QED BY <3>1, NoSpectrumNext
    <2>3. CASE UNCHANGED <<call, result>>
      <3>1. call' = call /\ result' = result
        BY <2>3
      <3> QED BY <3>1, Zenon DEF SpectrumInOrder, Regular
    <2> QED BY <2>1, <2>2, <2>3 DEF Next
  <1> QED BY <1>1, <1>2, PTL DEF Spec

==============================================================================
