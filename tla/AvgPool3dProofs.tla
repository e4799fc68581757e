--------------------------- MODULE AvgPool3dProofs ---------------------------
(***************************************************************************)
(* What the output size of avg_pool3d guarantees, for every extent of the  *)
(* input and every lists of kernels, strides and paddings.                 *)
(***************************************************************************)
EXTENDS AvgPool3d, TLAPS

-----------------------------------------------------------------------------
(* Division.                                                               *)

\* The quotient times the divisor is at most one divisor from the dividend,
\* on the side of zero.
LEMMA QuotFact ==
    ASSUME NEW a \in Int, NEW b \in Nat \ {0}
    PROVE  LET q == Quot(a, b)
           IN  /\ q \in Int
               /\ a >= 0 => q >= 0 /\ b * q <= a /\ a < b * q + b
               /\ a < 0 => q <= 0 /\ a <= b * q /\ b * q - b < a
<1> DEFINE m == -a
           n == m \div b
<1> b >= 0 /\ Abs(b) = b
    BY DEF Abs
<1>1. CASE a >= 0
    BY <1>1 DEF Quot, Abs
<1>2. CASE a < 0
  <2>1. m \in Nat
      BY <1>2
  <2> HIDE DEF m
  <2>2. n \in Nat /\ b * n <= m /\ m < b * n + b
      BY <2>1
  <2>3. b * (-n) = -(b * n)
      BY <2>2
  <2> USE DEF m
  <2>4. Quot(a, b) = -n
      BY <1>2 DEF Quot, Abs
  <2> DEFINE p == b * n
             z == b * (-n)
  <2>5. p \in Int /\ z = -p /\ p <= -a /\ -a < p + b
      BY <2>2, <2>3
  <2>6. -n <= 0 /\ -n \in Int
      BY <2>2
  <2> HIDE DEF n, p, z, m
  <2>7. a <= z /\ z - b < a
      BY <2>5
  <2> QED
      BY <1>2, <2>4, <2>6, <2>7 DEF z
<1> QED
    BY <1>1, <1>2

\* A larger factor gives a product larger by at least the other factor.
LEMMA Grows ==
    ASSUME NEW b \in Nat, NEW k \in Int, NEW l \in Int, k < l
    PROVE  b * k + b <= b * l
<1>1. b * (k + 1) <= b * l
    OBVIOUS
<1>2. b * (k + 1) = b * k + b
    OBVIOUS
<1> QED
    BY <1>1, <1>2

\* CeilDiv covers the dividend; it rounds up where it is not negative, and
\* where it is negative the result is at most one.
LEMMA CeilDivFact ==
    ASSUME NEW a \in Int, NEW b \in Nat \ {0}
    PROVE  LET c == CeilDiv(a, b)
           IN  /\ c \in Int
               /\ a <= b * c
               /\ a >= 0 => c >= 0 /\ b * c - b < a
               /\ a < 0 => c <= 1
<1> DEFINE q == Quot(a, b)
<1>1. /\ q \in Int
      /\ a >= 0 => q >= 0 /\ b * q <= a /\ a < b * q + b
      /\ a < 0 => q <= 0 /\ a <= b * q /\ b * q - b < a
    BY QuotFact
<1>2. b * (q + 1) = b * q + b
    BY <1>1
<1>3. CASE a = b * q
  <2>1. CeilDiv(a, b) = q
      BY <1>3 DEF CeilDiv
  <2> QED
      BY <1>1, <1>3, <2>1
<1>4. CASE a # b * q
  <2>1. CeilDiv(a, b) = q + 1
      BY <1>4 DEF CeilDiv
  <2> QED
      BY <1>1, <1>2, <1>4, <2>1
<1> QED
    BY <1>3, <1>4

\* A quotient is an integer, whatever the signs.
LEMMA QuotType ==
    ASSUME NEW a \in Int, NEW b \in Int \ {0}
    PROVE  Quot(a, b) \in Int
<1>1. Abs(a) \in Nat /\ Abs(b) \in Nat \ {0}
    BY DEF Abs
<1>2. Abs(a) \div Abs(b) \in Nat
    BY <1>1
<1> QED
    BY <1>2 DEF Quot

\* Rounding down gives the one multiple of the divisor that is not above the
\* dividend and less than one divisor below it.
LEMMA DivIs ==
    ASSUME NEW m \in Int, NEW s \in Nat \ {0}, NEW q \in Int, s * q <= m, m < s * q + s
    PROVE  m \div s = q
<1> DEFINE l == m \div s
           x == s * l
           y == s * q
<1>1. l \in Int /\ x <= m /\ m < x + s
    OBVIOUS
<1>2. x \in Int /\ y \in Int
    BY <1>1
<1> HIDE DEF l
<1>3. (l < q => x + s <= y) /\ (q < l => y + s <= x)
    BY <1>1, Grows
<1> HIDE DEF x
<1>4. y <= m /\ m < y + s
    OBVIOUS
<1> HIDE DEF y
<1>5. ~ l < q /\ ~ q < l
    BY <1>1, <1>2, <1>3, <1>4
<1>6. l = q
    BY <1>1, <1>5
<1> QED
    BY <1>6 DEF l


-----------------------------------------------------------------------------
(* One dimension.                                                          *)

\* What the checks say of the kernel, stride and padding of a dimension.
Basic(p) ==
    /\ p.kernel \in Int
    /\ p.stride \in Int \ {0}
    /\ p.padding \in Nat
    /\ p.padding <= Quot(p.kernel, 2)

\* A proper dimension whose kernel, stride and padding passed the checks.
Checked(self, p) ==
    /\ self \in Nat \ {0}
    /\ p.kernel \in Nat \ {0}
    /\ p.stride \in Nat \ {0}
    /\ p.padding \in Nat
    /\ 2 * p.padding <= p.kernel

\* The checks are worth that much along a proper dimension.
LEMMA ProperIsChecked ==
    ASSUME NEW self \in Nat, NEW p, Basic(p), Proper(self, p)
    PROVE  Checked(self, p)
<1>1. p.kernel \in Nat \ {0} /\ p.stride \in Nat \ {0} /\ self \in Nat \ {0}
    BY DEF Basic, Proper
<1>2. Quot(p.kernel, 2) = p.kernel \div 2
    BY <1>1 DEF Quot, Abs
<1>3. 2 * p.padding <= p.kernel
    BY <1>1, <1>2 DEF Basic
<1> QED
    BY <1>1, <1>3 DEF Basic, Checked

\* The size that is returned.
FinalSize(self, p, ceil_mode) ==
    LET size == RawSize(self, p, ceil_mode)
    IN  IF ceil_mode THEN Trimmed(size, self, p) ELSE size

\* Windows up to one that starts before the end of the input cover some of it.
LEMMA WindowsUpTo ==
    ASSUME NEW self, NEW p, Checked(self, p), NEW n \in Nat,
           p.stride * n < self + p.padding
    PROVE  \A o \in 0 .. n : Start(p, o) < self /\ End(p, o) > 0
<1> TAKE o \in 0 .. n
<1> DEFINE s == p.stride
           w == o * s
           z == s * n
<1>1. /\ s \in Nat \ {0} /\ self \in Nat \ {0} /\ p.padding \in Nat
      /\ p.kernel \in Nat \ {0} /\ 2 * p.padding <= p.kernel
    BY DEF Checked
<1>2. w \in Nat /\ z \in Nat
    BY <1>1
<1>3. w <= z /\ z < self + p.padding
    BY <1>1
<1> HIDE DEF w, z, s
<1>4. w - p.padding < self /\ w - p.padding + p.kernel > 0
    BY <1>1, <1>2, <1>3
<1> QED
    BY <1>4 DEF Start, End, w, s

\* Rounding down: all windows cover some input, and one more does not fit.
LEMMA FloorWindows ==
    ASSUME NEW self, NEW p, Checked(self, p), RawSize(self, p, FALSE) > 0
    PROVE  LET n == FinalSize(self, p, FALSE)
           IN  /\ n \in Nat \ {0}
               /\ \A o \in 0 .. n - 1 : Start(p, o) < self /\ End(p, o) > 0
               /\ End(p, n) > self + p.padding
<1> DEFINE s == p.stride
           a == Room(self, p)
           q == Quot(a, s)
           z == s * q
<1>1. /\ s \in Nat \ {0} /\ self \in Nat \ {0} /\ p.padding \in Nat
      /\ p.kernel \in Nat \ {0} /\ 2 * p.padding <= p.kernel
      /\ a = self + 2 * p.padding - p.kernel /\ a \in Int
    BY DEF Checked, Room
<1>2. FinalSize(self, p, FALSE) = q + 1 /\ RawSize(self, p, FALSE) = q + 1
    BY DEF FinalSize, RawSize
<1> HIDE DEF a
<1>3. /\ q \in Int
      /\ a >= 0 => q >= 0 /\ z <= a /\ a < z + s
      /\ a < 0 => q <= 0 /\ a <= z /\ z - s < a
    BY <1>1, QuotFact
<1> HIDE DEF q
<1>4. q \in Nat
  <2> HIDE DEF z
  <2>1. q \in Int /\ q + 1 > 0
      BY <1>2, <1>3
  <2> QED
      BY <2>1
<1>5. z \in Nat /\ (q = 0 => z = 0)
    BY <1>1, <1>4
<1>6. (q + 1) * s = z + s
    BY <1>1, <1>4
<1> HIDE DEF z
<1>7. z < self + p.padding
    BY <1>1, <1>3, <1>4, <1>5 DEF s
<1>8. \A o \in 0 .. q : Start(p, o) < self /\ End(p, o) > 0
    BY <1>4, <1>7, WindowsUpTo DEF z
<1>9. z + s - p.padding + p.kernel > self + p.padding
    BY <1>1, <1>3, <1>4, <1>5
<1>10. End(p, q + 1) = z + s - p.padding + p.kernel
    BY <1>1, <1>4, <1>5, <1>6 DEF End, Start
<1>11. (q + 1) - 1 = q /\ q + 1 \in Nat \ {0}
    BY <1>4
<1> QED
    BY <1>2, <1>8, <1>9, <1>10, <1>11

\* Rounding up: all windows cover some input, and one more would start beyond
\* it or the last one reaches the end of the padding.
LEMMA CeilWindows ==
    ASSUME NEW self, NEW p, Checked(self, p), RawSize(self, p, TRUE) > 0
    PROVE  LET n == FinalSize(self, p, TRUE)
           IN  /\ n \in Nat \ {0}
               /\ \A o \in 0 .. n - 1 : Start(p, o) < self /\ End(p, o) > 0
               /\ Start(p, n) >= self \/ End(p, n - 1) >= self + p.padding
<1> DEFINE s == p.stride
           a == Room(self, p)
           c == CeilDiv(a, s)
           z == s * c
<1>1. /\ s \in Nat \ {0} /\ self \in Nat \ {0} /\ p.padding \in Nat
      /\ p.kernel \in Nat \ {0} /\ 2 * p.padding <= p.kernel
      /\ a = self + 2 * p.padding - p.kernel /\ a \in Int
    BY DEF Checked, Room
<1>2. RawSize(self, p, TRUE) = c + 1
    BY DEF RawSize
<1> HIDE DEF a
<1>3. /\ c \in Int /\ a <= z
      /\ a >= 0 => c >= 0 /\ z - s < a
      /\ a < 0 => c <= 1
    BY <1>1, CeilDivFact
<1> HIDE DEF c
<1>4. c \in Nat /\ z \in Nat /\ c * s = z /\ (c = 0 => z = 0) /\ (c = 1 => z = s)
  <2>1. c \in Nat
    <3> HIDE DEF z
    <3>1. c \in Int /\ c + 1 > 0
        BY <1>2, <1>3
    <3> QED
        BY <3>1
  <2> QED
      BY <1>1, <2>1
<1>5. FinalSize(self, p, TRUE) = IF z >= self + p.padding THEN c ELSE c + 1
  <2>1. (c + 1) - 1 = c
      BY <1>4
  <2> HIDE DEF z
  <2> QED
      BY <1>2, <1>4, <2>1 DEF FinalSize, Trimmed
<1>6. CASE z >= self + p.padding
  <2> DEFINE y == s * (c - 1)
  <2>1. c - 1 \in Nat
      BY <1>1, <1>4, <1>6
  <2>2. y = z - s /\ y \in Int
      BY <1>1, <1>4
  <2> HIDE DEF y, z
  <2>3. y < self + p.padding
      BY <1>1, <1>3, <1>4, <2>1, <2>2
  <2>4. \A o \in 0 .. c - 1 : Start(p, o) < self /\ End(p, o) > 0
      BY <2>1, <2>3, WindowsUpTo DEF y
  <2>5. Start(p, c) >= self
    <3>1. Start(p, c) = z - p.padding
        BY <1>4 DEF Start
    <3> QED
        BY <1>1, <1>4, <1>6, <3>1
  <2> QED
    <3>1. FinalSize(self, p, TRUE) = c
        BY <1>5, <1>6
    <3>2. c \in Nat \ {0}
        BY <1>4, <2>1
    <3> QED
        BY <2>4, <2>5, <3>1, <3>2
<1>7. CASE ~ z >= self + p.padding
  <2> HIDE DEF z
  <2>1. z < self + p.padding
      BY <1>1, <1>4, <1>7
  <2>2. \A o \in 0 .. c : Start(p, o) < self /\ End(p, o) > 0
      BY <1>4, <2>1, WindowsUpTo DEF z
  <2>3. End(p, c) >= self + p.padding
    <3>1. End(p, c) = z - p.padding + p.kernel
        BY <1>4 DEF End, Start
    <3> QED
        BY <1>1, <1>3, <1>4, <3>1
  <2> QED
    <3>1. FinalSize(self, p, TRUE) = c + 1
        BY <1>5, <1>7
    <3>2. c + 1 \in Nat \ {0} /\ (c + 1) - 1 = c
        BY <1>4
    <3> QED
        BY <2>2, <2>3, <3>1, <3>2
<1> QED
    BY <1>6, <1>7

\* Where the roundings agree the size is the one PyTorch computes, and a size
\* that fails the check is not positive for PyTorch either.
LEMMA FittingSize ==
    ASSUME NEW self, NEW p, Checked(self, p), SameRounding(self, p), NEW ceil_mode \in BOOLEAN
    PROVE  /\ FinalSize(self, p, ceil_mode) = TorchSize(self, p, ceil_mode)
           /\ RawSize(self, p, ceil_mode) <= 0 => TorchSize(self, p, ceil_mode) <= 0
<1> DEFINE s == p.stride
           a == Room(self, p)
           q == Quot(a, s)
           c == CeilDiv(a, s)
<1>1. s \in Nat \ {0} /\ a \in Int /\ self \in Nat /\ p.padding \in Nat
    BY DEF Checked, Room
<1>2. a >= 0 \/ a = s * q
    BY DEF SameRounding
<1> HIDE DEF a, s
<1>3. /\ q \in Int
      /\ a >= 0 => q >= 0 /\ s * q <= a /\ a < s * q + s
    BY <1>1, QuotFact
<1>4. CASE ceil_mode = FALSE
  <2> HIDE DEF q
  <2>1. s * q <= a /\ a < s * q + s
    <3>1. CASE a >= 0
        BY <1>3, <3>1
    <3>2. CASE a = s * q
        BY <1>1, <1>3, <3>2
    <3> QED
        BY <1>2, <3>1, <3>2
  <2>2. a \div s = q
      BY <1>1, <1>3, <2>1, DivIs
  <2>3. RawSize(self, p, FALSE) = q + 1 /\ TorchSize(self, p, FALSE) = q + 1
      BY <2>2 DEF RawSize, TorchSize, q, a, s
  <2>4. FinalSize(self, p, FALSE) = q + 1
      BY <2>3 DEF FinalSize
  <2> QED
      BY <1>3, <1>4, <2>3, <2>4
<1>5. CASE ceil_mode = TRUE
  <2>1. c \in Int /\ a <= s * c /\ s * c - s < a
    <3>1. CASE a >= 0
        BY <1>1, <3>1, CeilDivFact
    <3>2. CASE a = s * q
      <4>1. c = q
          BY <1>1, <3>2 DEF CeilDiv
      <4> QED
          BY <1>1, <1>3, <3>2, <4>1
    <3> QED
        BY <1>2, <3>1, <3>2
  <2> HIDE DEF c
  <2>2. (a + s - 1) \div s = c
    <3> DEFINE m == a + s - 1
               z == s * c
    <3>1. m \in Int /\ z \in Int
        BY <1>1, <2>1
    <3>2. z <= m /\ m < z + s
      <4> HIDE DEF z
      <4> QED
          BY <1>1, <2>1, <3>1 DEF z
    <3> HIDE DEF m
    <3>3. m \div s = c
        BY <1>1, <2>1, <3>1, <3>2, DivIs
    <3> QED
        BY <3>3 DEF m
  <2>3. RawSize(self, p, TRUE) = c + 1
      BY DEF RawSize, c, a, s
  <2> DEFINE w == c * s
  <2>4. FinalSize(self, p, TRUE) = IF w >= self + p.padding THEN c ELSE c + 1
    <3>1. (c + 1) - 1 = c
        BY <2>1
    <3> QED
        BY <2>3, <3>1 DEF FinalSize, Trimmed, s
  <2>5. TorchSize(self, p, TRUE) = IF w - p.padding >= self THEN c ELSE c + 1
      BY <2>2 DEF TorchSize, Start, a, s
  <2>6. w \in Int
      BY <1>1, <2>1
  <2> HIDE DEF w
  <2>7. w >= self + p.padding <=> w - p.padding >= self
      BY <1>1, <2>6
  <2>8. FinalSize(self, p, TRUE) = TorchSize(self, p, TRUE)
    <3>1. CASE w >= self + p.padding
        BY <2>4, <2>5, <2>7, <3>1
    <3>2. CASE ~ w >= self + p.padding
        BY <2>4, <2>5, <2>7, <3>2
    <3> QED
        BY <3>1, <3>2
  <2>9. TorchSize(self, p, TRUE) = c \/ TorchSize(self, p, TRUE) = c + 1
      BY <2>5
  <2>10. RawSize(self, p, TRUE) <= 0 => TorchSize(self, p, TRUE) <= 0
    <3>1. c + 1 <= 0 => c <= 0
        BY <2>1
    <3> QED
        BY <2>3, <2>9, <3>1
  <2> QED
      BY <1>5, <2>8, <2>10
<1> QED
    BY <1>4, <1>5


-----------------------------------------------------------------------------
(* The invariant.                                                          *)

\* Past the checks every dimension is what they leave of it, and the sizes are
\* the ones its formulas give; a call rejected for its arguments has none.
Sized ==
    /\ pc \in {"called", "faulted"} => sizes = <<>>
    /\ pc \in {"generalized", "sized", "done"} \/ (pc = "thrown" /\ sizes # <<>>) =>
          \A d \in Dim : Basic(sizes[d])
    /\ pc = "sized" => \A d \in Dim :
          out[d] = RawSize(args.self[d], sizes[d], args.ceil_mode) /\ out[d] > 0
    /\ pc = "done" => \A d \in Dim :
          /\ RawSize(args.self[d], sizes[d], args.ceil_mode) > 0
          /\ out[d] = FinalSize(args.self[d], sizes[d], args.ceil_mode)
    /\ pc = "thrown" /\ sizes # <<>> => \E d \in Dim :
          RawSize(args.self[d], sizes[d], args.ceil_mode) <= 0

Inv == TypeOK /\ Sized

\* What is read of a list is an integer, even past its end.
LEMMA ReadsType ==
    ASSUME NEW list \in Seq(Int), NEW r \in Reads(list), NEW d \in Dim
    PROVE  r[d] \in Int
<1>1. r[d] \in ReadAt(list, d)
    BY DEF Reads
<1>2. ReadAt(list, d) \subseteq Int
  <2>1. Len(list) \in Nat /\ \A i \in 1 .. Len(list) : list[i] \in Int
      OBVIOUS
  <2>2. Len(list) = 1 => list[1] \in Int
      BY <2>1
  <2>3. d <= Len(list) => list[d] \in Int
      BY <2>1 DEF Dim
  <2> QED
      BY <2>2, <2>3, ArgsAssumption DEF ReadAt
<1> QED
    BY <1>1, <1>2

\* The dimensions that pass the checks have their types.
LEMMA DimensionsChecked ==
    ASSUME args \in Args,
           NEW k \in Reads(args.kernel_size),
           NEW s \in StrideReads(k),
           NEW p \in Reads(args.padding),
           \A d \in Dim : Acceptable(Dimensions(k, s, p)[d])
    PROVE  /\ Dimensions(k, s, p) \in [Dim -> [kernel : Int, stride : Int \ {0}, padding : Nat]]
           /\ \A d \in Dim : Basic(Dimensions(k, s, p)[d])
<1> DEFINE dims == Dimensions(k, s, p)
<1>1. /\ args.kernel_size \in Seq(Int)
      /\ args.stride \in Seq(Int)
      /\ args.padding \in Seq(Int)
    BY ArgsAssumption DEF Args
<1>2. dims = [d \in Dim |-> [kernel |-> k[d], stride |-> s[d], padding |-> p[d]]]
    BY DEF Dimensions
<1>3. ASSUME NEW d \in Dim
      PROVE  k[d] \in Int /\ s[d] \in Int /\ p[d] \in Int
  <2>1. k[d] \in Int /\ p[d] \in Int
      BY <1>1, ReadsType
  <2>2. s[d] \in Int
    <3>1. CASE args.stride = <<>>
        BY <2>1, <3>1 DEF StrideReads
    <3>2. CASE args.stride # <<>>
      <4>1. s \in Reads(args.stride)
          BY <3>2 DEF StrideReads
      <4> QED
          BY <1>1, <4>1, ReadsType
    <3> QED
        BY <3>1, <3>2
  <2> QED
      BY <2>1, <2>2
<1>4. ASSUME NEW d \in Dim
      PROVE  /\ dims[d] \in [kernel : Int, stride : Int \ {0}, padding : Nat]
             /\ Basic(dims[d])
  <2>1. dims[d] = [kernel |-> k[d], stride |-> s[d], padding |-> p[d]]
      BY <1>2
  <2>2. s[d] # 0 /\ p[d] >= 0 /\ p[d] <= Quot(k[d], 2)
      BY <2>1 DEF Acceptable
  <2>3. k[d] \in Int /\ s[d] \in Int \ {0} /\ p[d] \in Nat
      BY <1>3, <2>2
  <2> QED
      BY <2>1, <2>2, <2>3 DEF Basic
<1> QED
    BY <1>2, <1>4

\* The size of a dimension that passed the checks is a number.
LEMMA RawSizeType ==
    ASSUME NEW self \in Nat, NEW p, Basic(p), NEW ceil_mode \in BOOLEAN
    PROVE  RawSize(self, p, ceil_mode) \in Int
<1> DEFINE a == Room(self, p)
<1>1. a \in Int /\ p.stride \in Int \ {0}
    BY DEF Room, Basic
<1> HIDE DEF a
<1>2. Quot(a, p.stride) \in Int
    BY <1>1, QuotType
<1>3. CeilDiv(a, p.stride) \in Int
    BY <1>2 DEF CeilDiv
<1> QED
    BY <1>2, <1>3 DEF RawSize, a

\* No step breaks the invariant.
LEMMA InvHolds == Spec => []Inv
<1>1. Init => Inv
  <2>1. Init => TypeOK
      BY DEF Init, TypeOK
  <2>2. Init => Sized
      BY DEF Init, Sized
  <2> QED
      BY <2>1, <2>2 DEF Inv
<1>2. Inv /\ [Next]_vars => Inv'
  <2> SUFFICES ASSUME Inv, [Next]_vars
               PROVE  Inv'
      OBVIOUS
  <2> USE DEF Inv
  <2>1. CASE Generalize
    <3>1. pc = "called" /\ sizes = <<>> /\ args \in Args
        BY <2>1 DEF Generalize, Sized, TypeOK
    <3>2. CASE Throw
        BY <3>1, <3>2 DEF Throw, TypeOK, Sized
    <3>3. ASSUME NEW k \in Reads(args.kernel_size),
                 NEW s \in StrideReads(k),
                 NEW p \in Reads(args.padding),
                 \A d \in Dim : Acceptable(Dimensions(k, s, p)[d]),
                 pc' = "generalized", sizes' = Dimensions(k, s, p), UNCHANGED <<args, out>>
          PROVE  Inv'
      <4>1. /\ Dimensions(k, s, p) \in [Dim -> [kernel : Int, stride : Int \ {0}, padding : Nat]]
            /\ \A d \in Dim : Basic(Dimensions(k, s, p)[d])
          BY <3>1, <3>3, DimensionsChecked
      <4>2. TypeOK'
          BY <3>1, <3>3, <4>1 DEF TypeOK
      <4>3. Sized'
          BY <3>3, <4>1 DEF Sized
      <4> QED
          BY <4>2, <4>3
    <3> QED
        BY <2>1, <3>2, <3>3 DEF Generalize
  <2>2. CASE Fault
      BY <2>2 DEF Fault, TypeOK, Sized
  <2>3. CASE OutputSize
    <3>1. pc = "generalized" /\ \A d \in Dim : Basic(sizes[d])
        BY <2>3 DEF OutputSize, Sized
    <3>2. \A d \in Dim : RawSizes[d] = RawSize(args.self[d], sizes[d], args.ceil_mode)
        BY DEF RawSizes
    <3>3. \A d \in Dim : args.self[d] \in Nat
        BY ArgsAssumption DEF TypeOK, Args
    <3>4. \A d \in Dim : RawSizes[d] \in Int
      <4>1. args.ceil_mode \in BOOLEAN
          BY DEF TypeOK, Args
      <4> QED
          BY <3>1, <3>2, <3>3, <4>1, RawSizeType
    <3>5. CASE \A d \in Dim : RawSizes[d] > 0
      <4>1. pc' = "sized" /\ out' = RawSizes /\ UNCHANGED <<args, sizes>>
          BY <2>3, <3>5 DEF OutputSize
      <4>2. RawSizes \in [Dim -> Nat \ {0}]
          BY <3>4, <3>5 DEF RawSizes
      <4> QED
          BY <3>1, <3>2, <3>5, <4>1, <4>2 DEF TypeOK, Sized
    <3>6. CASE ~ \A d \in Dim : RawSizes[d] > 0
      <4>1. pc' = "thrown" /\ UNCHANGED <<args, sizes, out>>
          BY <2>3, <3>6 DEF OutputSize, Throw
      <4>2. \E d \in Dim : RawSizes[d] <= 0
          BY <3>4, <3>6
      <4> QED
          BY <3>1, <3>2, <4>1, <4>2 DEF TypeOK, Sized
    <3> QED
        BY <3>5, <3>6
  <2>4. CASE TrimOutput
    <3>1. /\ pc = "sized" /\ pc' = "done" /\ UNCHANGED <<args, sizes>>
          /\ out' = IF args.ceil_mode
                    THEN [d \in Dim |-> Trimmed(out[d], args.self[d], sizes[d])] ELSE out
        BY <2>4 DEF TrimOutput
    <3>2. args.ceil_mode \in BOOLEAN /\ out \in [Dim -> Nat \ {0}]
        BY <3>1 DEF TypeOK, Args
    <3>3. \A d \in Dim :
             out[d] = RawSize(args.self[d], sizes[d], args.ceil_mode) /\ out[d] > 0
        BY <3>1 DEF Sized
    <3>4. \A d \in Dim : out'[d] = FinalSize(args.self[d], sizes[d], args.ceil_mode)
        BY <3>1, <3>3 DEF FinalSize
    <3>5. out' \in [Dim -> Nat]
      <4>1. \A d \in Dim : out[d] - 1 \in Nat /\ out[d] \in Nat
          BY <3>2
      <4>2. \A d \in Dim : Trimmed(out[d], args.self[d], sizes[d]) \in Nat
          BY <4>1 DEF Trimmed
      <4> QED
          BY <3>1, <3>2, <4>2
    <3>6. TypeOK'
        BY <3>1, <3>5 DEF TypeOK
    <3>7. Sized'
        BY <3>1, <3>3, <3>4 DEF Sized
    <3> QED
        BY <3>6, <3>7
  <2>5. CASE Finished \/ UNCHANGED vars
      BY <2>5 DEF Finished, vars, TypeOK, Sized
  <2> QED
      BY <2>1, <2>2, <2>3, <2>4, <2>5 DEF Next
<1> QED
    BY <1>1, <1>2, PTL DEF Spec

\* Past its checks a call has strides that are not zero, paddings that are not
\* negative and, once it is about to allocate, sizes that are not negative.
THEOREM OutputSizeTypeCorrect == Spec => []TypeOK
<1>1. Inv => TypeOK
    BY DEF Inv
<1> QED
    BY <1>1, InvHolds, PTL

\* A finished call along a proper dimension.
LEMMA DoneDimension ==
    ASSUME Inv, pc = "done", NEW d \in Dim, Proper(args.self[d], sizes[d])
    PROVE  /\ Checked(args.self[d], sizes[d])
           /\ RawSize(args.self[d], sizes[d], args.ceil_mode) > 0
           /\ out[d] = FinalSize(args.self[d], sizes[d], args.ceil_mode)
           /\ args.ceil_mode \in BOOLEAN
<1>1. args.self[d] \in Nat /\ args.ceil_mode \in BOOLEAN
    BY ArgsAssumption DEF Inv, TypeOK, Args
<1>2. Basic(sizes[d])
    BY DEF Inv, Sized
<1>3. Checked(args.self[d], sizes[d])
    BY <1>1, <1>2, ProperIsChecked
<1> QED
    BY <1>1, <1>3 DEF Inv, Sized

\* For every extent and every kernel and stride of at least one that pass the
\* checks, whatever the other dimensions hold, no window of the result lies in
\* the padding alone: no average is taken over no elements.
THEOREM WindowsAlwaysTouchInput == Spec => []EveryWindowTouchesInput
<1>1. Inv => EveryWindowTouchesInput
  <2> SUFFICES ASSUME Inv, pc = "done", NEW d \in Dim, Proper(args.self[d], sizes[d])
               PROVE  \A o \in 0 .. out[d] - 1 :
                         Start(sizes[d], o) < args.self[d] /\ End(sizes[d], o) > 0
      BY DEF EveryWindowTouchesInput
  <2> DEFINE e == args.self[d]
             p == sizes[d]
  <2>1. /\ Checked(e, p) /\ RawSize(e, p, args.ceil_mode) > 0
        /\ out[d] = FinalSize(e, p, args.ceil_mode)
        /\ args.ceil_mode \in BOOLEAN
      BY DoneDimension
  <2> HIDE DEF e, p
  <2>2. \A o \in 0 .. FinalSize(e, p, args.ceil_mode) - 1 : Start(p, o) < e /\ End(p, o) > 0
    <3>1. CASE args.ceil_mode = TRUE
        BY <2>1, <3>1, CeilWindows
    <3>2. CASE args.ceil_mode = FALSE
        BY <2>1, <3>2, FloorWindows
    <3> QED
        BY <2>1, <3>1, <3>2
  <2> QED
      BY <2>1, <2>2 DEF e, p
<1> QED
    BY <1>1, InvHolds, PTL

\* Nor is a window left out that would have fitted, or in ceil_mode one that
\* would have covered input which no other window reaches.
THEOREM NoWindowEverLeftOut == Spec => []NoWindowLeftOut
<1>1. Inv => NoWindowLeftOut
  <2> SUFFICES ASSUME Inv, pc = "done", NEW d \in Dim, Proper(args.self[d], sizes[d])
               PROVE  IF args.ceil_mode
                      THEN \/ Start(sizes[d], out[d]) >= args.self[d]
                           \/ End(sizes[d], out[d] - 1) >= args.self[d] + sizes[d].padding
                      ELSE End(sizes[d], out[d]) > args.self[d] + sizes[d].padding
      BY DEF NoWindowLeftOut
  <2> DEFINE e == args.self[d]
             p == sizes[d]
  <2>1. /\ Checked(e, p) /\ RawSize(e, p, args.ceil_mode) > 0
        /\ out[d] = FinalSize(e, p, args.ceil_mode)
        /\ args.ceil_mode \in BOOLEAN
      BY DoneDimension
  <2> HIDE DEF e, p
  <2>2. CASE args.ceil_mode = TRUE
    <3>1. Start(p, out[d]) >= e \/ End(p, out[d] - 1) >= e + p.padding
        BY <2>1, <2>2, CeilWindows
    <3> QED
        BY <2>2, <3>1 DEF e, p
  <2>3. CASE args.ceil_mode = FALSE
    <3>1. End(p, out[d]) > e + p.padding
        BY <2>1, <2>3, FloorWindows
    <3> QED
        BY <2>3, <3>1 DEF e, p
  <2> QED
      BY <2>1, <2>2, <2>3
<1> QED
    BY <1>1, InvHolds, PTL

\* The size is the one of PyTorch, and a call is rejected for its size only if
\* PyTorch rejects it, unless a window larger than the padded input leaves a
\* remainder in the division.
THEOREM FittingSizeAgrees == Spec => []FittingCallsAgree
<1>1. Inv => FittingCallsAgree
  <2> SUFFICES ASSUME Inv, sizes # <<>>,
                      \A d \in Dim : SameRounding(args.self[d], sizes[d]),
                      \A d \in Dim : Proper(args.self[d], sizes[d])
               PROVE  /\ pc = "done" => \A d \in Dim :
                            out[d] = TorchSize(args.self[d], sizes[d], args.ceil_mode)
                      /\ pc = "thrown" => \E d \in Dim :
                            TorchSize(args.self[d], sizes[d], args.ceil_mode) <= 0
      BY DEF FittingCallsAgree, AgreesWithTorch
  <2>1. args.ceil_mode \in BOOLEAN /\ \A d \in Dim : args.self[d] \in Nat
      BY ArgsAssumption DEF Inv, TypeOK, Args
  <2>2. ASSUME pc = "done" \/ pc = "thrown", NEW d \in Dim
        PROVE  /\ FinalSize(args.self[d], sizes[d], args.ceil_mode)
                    = TorchSize(args.self[d], sizes[d], args.ceil_mode)
               /\ RawSize(args.self[d], sizes[d], args.ceil_mode) <= 0 =>
                    TorchSize(args.self[d], sizes[d], args.ceil_mode) <= 0
    <3> DEFINE e == args.self[d]
               p == sizes[d]
    <3>1. e \in Nat /\ Basic(p) /\ Proper(e, p) /\ SameRounding(e, p)
        BY <2>1, <2>2 DEF Inv, Sized
    <3> HIDE DEF e, p
    <3>2. Checked(e, p)
        BY <3>1, ProperIsChecked
    <3>3. /\ FinalSize(e, p, args.ceil_mode) = TorchSize(e, p, args.ceil_mode)
          /\ RawSize(e, p, args.ceil_mode) <= 0 => TorchSize(e, p, args.ceil_mode) <= 0
        BY <2>1, <3>1, <3>2, FittingSize
    <3> QED
        BY <3>3 DEF e, p
  <2>3. ASSUME pc = "done", NEW d \in Dim
        PROVE  out[d] = TorchSize(args.self[d], sizes[d], args.ceil_mode)
    <3>1. out[d] = FinalSize(args.self[d], sizes[d], args.ceil_mode)
        BY <2>3 DEF Inv, Sized
    <3> QED
        BY <2>2, <2>3, <3>1
  <2>4. ASSUME pc = "thrown"
        PROVE  \E d \in Dim : TorchSize(args.self[d], sizes[d], args.ceil_mode) <= 0
    <3>1. PICK d \in Dim : RawSize(args.self[d], sizes[d], args.ceil_mode) <= 0
        BY <2>4 DEF Inv, Sized
    <3> QED
        BY <2>2, <2>4, <3>1
  <2> QED
      BY <2>3, <2>4
<1> QED
    BY <1>1, InvHolds, PTL
==============================================================================
