---------------------------- MODULE QuotesProofs ----------------------------
(***************************************************************************)
(* Theorems about RouteQuotes and the arithmetic of Amounts, for amounts   *)
(* of any length, any decimals, fees, limits and shares: scaling the       *)
(* digits is exact, what display() shows is parsed back, a quote is what   *)
(* the transfer delivers and what the sender pays, a transfer resumed from *)
(* its VAA is for what was paid, and none is refused that was found valid. *)
(*                                                                         *)
(* The first part derives from the definitions by recursion of Amounts     *)
(* what they are: 10 ^ k, the value of a string of digits, the digits of a *)
(* number. The second is about the operations on digits, the third about   *)
(* the routes, with the invariant QInv.                                    *)
(***************************************************************************)
EXTENDS RouteQuotes, SequenceTheorems, WellFoundedInduction, TLAPS

(* Every set of natural numbers has a least one. *)
LEMMA LeastNatural ==
    ASSUME NEW T \in SUBSET Nat, T # {}
    PROVE  \E n \in T : \A m \in T : n <= m
<1> DEFINE R == OpToRel(<, Nat)
<1>1. IsWellFoundedOn(R, Nat)
  BY NatLessThanWellFounded
<1>2. \A x, y \in Nat : x < y => <<x, y>> \in R
  BY DEF OpToRel
<1> HIDE DEF R
<1>3. \E x \in T : \A y \in T : ~ (<<y, x>> \in R)
  BY <1>1, WFMin
<1>4. PICK x \in T : \A y \in T : ~ (<<y, x>> \in R)
  BY <1>3
<1>5. \A y \in T : ~ (y < x)
  BY <1>2, <1>4
<1> QED
  BY <1>5

(* One that has 0 and the successor of each of its members is Nat. *)
LEMMA SetInduction ==
    ASSUME NEW T \in SUBSET Nat, 0 \in T, \A n \in T : n + 1 \in T
    PROVE  T = Nat
<1> SUFFICES ASSUME Nat \ T # {} PROVE FALSE
  OBVIOUS
<1>1. PICK n \in Nat \ T : \A m \in Nat \ T : n <= m
  BY LeastNatural
<1>2. n # 0 /\ n - 1 \in Nat /\ n - 1 \notin Nat \ T
  BY <1>1
<1>3. n - 1 + 1 \in T
  BY <1>2
<1> QED
  BY <1>1, <1>3

(* A definition by recursion: f[x] depends on f[D[x]], and D leads down to the base. *)
Recursion(X, Y, M, Base, D, B, H) ==
    /\ M \in [X -> Nat] /\ Base \in SUBSET X /\ D \in [X -> X]
    /\ B \in [X -> Y] /\ H \in [X \X Y -> Y]
    /\ \A x \in X \ Base : M[D[x]] < M[x]

(* The function it defines. *)
Solution(f, X, Y, Base, D, B, H) ==
    f \in [X -> Y] /\ \A x \in X : f[x] = IF x \in Base THEN B[x] ELSE H[<<x, f[D[x]]>>]

(* It exists. *)
LEMMA RecursiveFunction ==
    ASSUME NEW X, NEW Y, NEW M, NEW Base, NEW D, NEW B, NEW H,
           Recursion(X, Y, M, Base, D, B, H)
    PROVE  \E f : Solution(f, X, Y, Base, D, B, H)
<1> USE DEF Recursion
<1> DEFINE Below(n) == {x \in X : M[x] < n}
           Upto(n, g) ==
               /\ g \in [Below(n) -> Y]
               /\ \A x \in Below(n) :
                     g[x] = IF x \in Base THEN B[x] ELSE H[<<x, g[D[x]]>>]
           T == {n \in Nat : \E g : Upto(n, g)}
<1>1. T = Nat
  <2>1. 0 \in T
    <3>1. Below(0) = {}
      OBVIOUS
    <3>2. Upto(0, [x \in {} |-> x])
      BY <3>1
    <3> QED
      BY <3>2
  <2>2. ASSUME NEW n \in T PROVE n + 1 \in T
    <3>1. PICK g : Upto(n, g)
      OBVIOUS
    <3> DEFINE h == [x \in Below(n + 1) |->
                        IF x \in Base THEN B[x] ELSE H[<<x, g[D[x]]>>]]
    <3>2. \A x \in Below(n + 1) \ Base : D[x] \in Below(n)
      OBVIOUS
    <3>3. h \in [Below(n + 1) -> Y]
      BY <3>1, <3>2
    <3>4. \A x \in Below(n) : h[x] = g[x]
      BY <3>1
    <3>5. Upto(n + 1, h)
      BY <3>2, <3>3, <3>4
    <3> HIDE DEF Upto, h
    <3> QED
      BY <3>5
  <2> HIDE DEF T
  <2>3. T \in SUBSET Nat
    BY DEF T
  <2> QED
    BY <2>1, <2>2, <2>3, SetInduction
<1>2. ASSUME NEW n \in Nat, NEW m \in Nat, NEW g, NEW h, Upto(n, g), Upto(m, h)
      PROVE  \A x \in Below(n) \cap Below(m) : g[x] = h[x]
  <2> DEFINE U == {k \in Nat : \A x \in Below(n) \cap Below(m) : M[x] < k => g[x] = h[x]}
  <2>1. 0 \in U
    OBVIOUS
  <2>2. ASSUME NEW k \in U PROVE k + 1 \in U
    <3> SUFFICES ASSUME NEW x \in Below(n) \cap Below(m), M[x] < k + 1
                 PROVE  g[x] = h[x]
      OBVIOUS
    <3>1. CASE x \in Base
      BY <1>2, <3>1
    <3>2. CASE x \notin Base
      <4>1. D[x] \in Below(n) \cap Below(m) /\ M[D[x]] < k
        BY <3>2
      <4>2. g[D[x]] = h[D[x]]
        BY <4>1
      <4> QED
        BY <1>2, <3>2, <4>2
    <3> QED
      BY <3>1, <3>2
  <2>3. U = Nat
    <3>1. U \in SUBSET Nat
      OBVIOUS
    <3> HIDE DEF U
    <3> QED
      BY <2>1, <2>2, <3>1, SetInduction
  <2>4. ASSUME NEW x \in Below(n) \cap Below(m) PROVE g[x] = h[x]
    <3>1. n \in U
      BY <2>3
    <3> QED
      BY <3>1
  <2> QED
    BY <2>4
<1> DEFINE part(x) == CHOOSE g : Upto(M[x] + 1, g)
           f == [x \in X |-> part(x)[x]]
<1>3. \A x \in X : Upto(M[x] + 1, part(x)) /\ x \in Below(M[x] + 1)
  <2> TAKE x \in X
  <2>1. M[x] \in Nat /\ x \in Below(M[x] + 1)
    OBVIOUS
  <2>2. M[x] + 1 \in T
    <3> HIDE DEF T
    <3> QED
      BY <1>1, <2>1
  <2>3. \E g : Upto(M[x] + 1, g)
    BY <2>2
  <2> HIDE DEF Upto
  <2> QED
    BY <2>1, <2>3
<1> HIDE DEF part
<1>4. f \in [X -> Y]
  BY <1>3
<1>5. ASSUME NEW x \in X, x \notin Base PROVE part(x)[D[x]] = f[D[x]]
  <2>1. D[x] \in X /\ M[D[x]] < M[x] /\ M[x] \in Nat /\ M[D[x]] \in Nat
    BY <1>5
  <2>2. D[x] \in Below(M[x] + 1) /\ D[x] \in Below(M[D[x]] + 1)
    BY <2>1
  <2>3. Upto(M[x] + 1, part(x)) /\ Upto(M[D[x]] + 1, part(D[x]))
    BY <1>3, <2>1
  <2> HIDE DEF Upto, Below
  <2>4. part(x)[D[x]] = part(D[x])[D[x]]
    BY <1>2, <2>1, <2>2, <2>3
  <2> QED
    BY <2>1, <2>4
<1>6. ASSUME NEW x \in X PROVE f[x] = IF x \in Base THEN B[x] ELSE H[<<x, f[D[x]]>>]
  <2>1. part(x)[x] = IF x \in Base THEN B[x] ELSE H[<<x, part(x)[D[x]]>>]
    BY <1>3
  <2>2. f[x] = part(x)[x]
    OBVIOUS
  <2> HIDE DEF f
  <2> QED
    BY <1>5, <2>1, <2>2
<1> HIDE DEF f
<1> QED
  BY <1>4, <1>6 DEF Solution
-----------------------------------------------------------------------------
(* The powers of ten: the function that Amounts chooses is the one it describes. *)
LEMMA TenToDef ==
    /\ TenTo \in [Nat -> Nat] /\ TenTo[0] = 1
    /\ \A k \in Nat : TenTo[k + 1] = 10 * TenTo[k]
<1> DEFINE Before == [n \in Nat |-> IF n = 0 THEN 0 ELSE n - 1]
           Times  == [p \in Nat \X Nat |-> 10 * p[2]]
           Size   == [n \in Nat |-> n]
           One    == [n \in Nat |-> 1]
           Zero   == {0}
           Rule(f) == [k \in Nat |-> IF k = 0 THEN 1 ELSE 10 * f[k - 1]]
<1>1. PICK f : Solution(f, Nat, Nat, Zero, Before, One, Times)
  <2>1. Recursion(Nat, Nat, Size, Zero, Before, One, Times)
    BY DEF Recursion
  <2> HIDE DEF Before, Times, Size, One, Zero
  <2> QED
    BY <2>1, RecursiveFunction
<1>2. f = Rule(f)
  <2>1. f = [n \in Nat |-> f[n]]
    BY <1>1 DEF Solution
  <2>2. ASSUME NEW n \in Nat PROVE f[n] = IF n = 0 THEN 1 ELSE 10 * f[n - 1]
    <3>1. f[n] = IF n \in Zero THEN One[n] ELSE Times[<<n, f[Before[n]]>>]
      BY <1>1 DEF Solution
    <3>2. f[Before[n]] \in Nat
      BY <1>1 DEF Solution
    <3>3. Times[<<n, f[Before[n]]>>] = 10 * f[Before[n]]
      BY <3>2
    <3> QED
      BY <3>1, <3>3
  <2> QED
    BY <2>1, <2>2
<1>3. TenTo = Rule(TenTo)
  <2>1. TenTo = CHOOSE g : g = Rule(g)
    BY DEF TenTo
  <2> HIDE DEF Rule
  <2> QED
    BY <1>2, <2>1
<1>4. ASSUME NEW n \in Nat PROVE TenTo[n] = IF n = 0 THEN 1 ELSE 10 * TenTo[n - 1]
  BY <1>3
<1>5. \A n \in Nat : TenTo[n + 1] = 10 * TenTo[n]
  <2> TAKE n \in Nat
  <2>1. n + 1 \in Nat /\ n + 1 # 0 /\ (n + 1) - 1 = n
    OBVIOUS
  <2> QED
    BY <1>4, <2>1
<1>6. \A n \in Nat : TenTo[n] \in Nat
  <2> DEFINE T == {n \in Nat : TenTo[n] \in Nat}
  <2>1. 0 \in T
    BY <1>4
  <2>2. \A n \in T : n + 1 \in T
    BY <1>5
  <2>3. T \in SUBSET Nat
    OBVIOUS
  <2> HIDE DEF T
  <2>4. T = Nat
    BY <2>1, <2>2, <2>3, SetInduction
  <2> QED
    BY <2>4 DEF T
<1>7. TenTo \in [Nat -> Nat]
  <2>1. TenTo = [n \in Nat |-> TenTo[n]]
    BY <1>3
  <2> QED
    BY <1>6, <2>1
<1> QED
  BY <1>4, <1>5, <1>7

(* None of them is zero. *)
LEMMA TenToPositive == \A n \in Nat : TenTo[n] \in Nat \ {0}
<1> DEFINE T == {n \in Nat : TenTo[n] \in Nat \ {0}}
<1>1. 0 \in T /\ \A n \in T : n + 1 \in T
  BY TenToDef
<1>2. T \in SUBSET Nat
  OBVIOUS
<1> HIDE DEF T
<1>3. T = Nat
  BY <1>1, <1>2, SetInduction
<1> QED
  BY <1>3 DEF T

(* 10 ^ (m + n) is the product of 10 ^ m and 10 ^ n. *)
LEMMA TenToPlus == \A m, n \in Nat : TenTo[m + n] = TenTo[m] * TenTo[n]
<1> TAKE m \in Nat
<1> DEFINE T == {n \in Nat : TenTo[m + n] = TenTo[m] * TenTo[n]}
<1>1. 0 \in T
  BY TenToDef
<1>2. ASSUME NEW n \in T PROVE n + 1 \in T
  <2>1. /\ TenTo[n + 1] = 10 * TenTo[n] /\ TenTo[(m + n) + 1] = 10 * TenTo[m + n]
        /\ TenTo[m + n] = TenTo[m] * TenTo[n]
        /\ TenTo[m] \in Nat /\ TenTo[n] \in Nat /\ (m + n) + 1 = m + (n + 1)
    BY TenToDef
  <2> QED
    BY <2>1
<1>3. T \in SUBSET Nat
  OBVIOUS
<1> HIDE DEF T
<1>4. T = Nat
  BY <1>1, <1>2, <1>3, SetInduction
<1> QED
  BY <1>4 DEF T
-----------------------------------------------------------------------------
(* Strings of decimal digits. *)
Numerals == Seq(0 .. 9)

(* The last digit of a number and the number before it. *)
LEMMA DivTen ==
    \A n \in Nat : /\ n \div 10 \in Nat /\ n % 10 \in 0 .. 9 /\ n = 10 * (n \div 10) + (n % 10)
                   /\ n > 9 => n \div 10 < n /\ n \div 10 > 0
OBVIOUS

(* n.toString(), digit by digit. *)
LEMMA DigitsDef ==
    \A n \in Nat : /\ Digits[n] \in Numerals
                   /\ n < 10 => Digits[n] = <<n>>
                   /\ n >= 10 => Digits[n] = Append(Digits[n \div 10], n % 10)
<1> DEFINE Shift == [n \in Nat |-> n \div 10]
           Add   == [p \in Nat \X Numerals |-> Append(p[2], p[1] % 10)]
           Size  == [n \in Nat |-> n]
           One   == [n \in Nat |-> <<n % 10>>]
           Small == 0 .. 9
           Rule(f) == [n \in Nat |-> IF n < 10 THEN <<n>> ELSE Append(f[n \div 10], n % 10)]
<1>1. PICK f : Solution(f, Nat, Numerals, Small, Shift, One, Add)
  <2>1. /\ Shift \in [Nat -> Nat] /\ Size \in [Nat -> Nat]
        /\ Small \in SUBSET Nat /\ \A n \in Nat \ Small : Size[Shift[n]] < Size[n]
    BY DivTen
  <2>2. One \in [Nat -> Numerals]
    BY DivTen DEF Numerals
  <2>3. Add \in [Nat \X Numerals -> Numerals]
    BY DivTen DEF Numerals
  <2>4. Recursion(Nat, Numerals, Size, Small, Shift, One, Add)
    BY <2>1, <2>2, <2>3 DEF Recursion
  <2> HIDE DEF Shift, Add, Size, One, Small
  <2> QED
    BY <2>4, RecursiveFunction
<1>2. f = Rule(f)
  <2>1. f = [n \in Nat |-> f[n]]
    BY <1>1 DEF Solution
  <2>2. ASSUME NEW n \in Nat
        PROVE  f[n] = IF n < 10 THEN <<n>> ELSE Append(f[n \div 10], n % 10)
    <3>1. f[n] = IF n \in Small THEN One[n] ELSE Add[<<n, f[Shift[n]]>>]
      BY <1>1 DEF Solution
    <3>2. f[Shift[n]] \in Numerals
      BY <1>1, DivTen DEF Solution
    <3>3. Add[<<n, f[Shift[n]]>>] = Append(f[Shift[n]], n % 10)
      BY <3>2
    <3>4. CASE n < 10
      <4>1. n \in Small /\ n % 10 = n
        BY <3>4
      <4>2. f[n] = One[n] /\ One[n] = <<n % 10>>
        BY <3>1, <4>1
      <4> QED
        BY <3>4, <4>1, <4>2
    <3>5. CASE ~ (n < 10)
      <4>1. n \notin Small
        BY <3>5
      <4>2. f[n] = Add[<<n, f[Shift[n]]>>]
        BY <3>1, <4>1
      <4>3. Shift[n] = n \div 10
        OBVIOUS
      <4> QED
        BY <3>3, <3>5, <4>2, <4>3
    <3> QED
      BY <3>4, <3>5
  <2> QED
    BY <2>1, <2>2
<1>3. Digits = Rule(Digits)
  <2>1. Digits = CHOOSE g : g = Rule(g)
    BY DEF Digits
  <2> HIDE DEF Rule
  <2> QED
    BY <1>2, <2>1
<1>4. ASSUME NEW n \in Nat
      PROVE  /\ n < 10 => Digits[n] = <<n>>
             /\ n >= 10 => Digits[n] = Append(Digits[n \div 10], n % 10)
  <2>1. Digits[n] = IF n < 10 THEN <<n>> ELSE Append(Digits[n \div 10], n % 10)
    BY <1>3
  <2>2. CASE n < 10
    BY <2>1, <2>2
  <2>3. CASE n >= 10
    BY <2>1, <2>3
  <2> QED
    BY <2>2, <2>3
<1> DEFINE T == {n \in Nat : \A m \in 0 .. n : Digits[m] \in Numerals}
<1>5. \A x \in 0 .. 9 : <<x>> \in Numerals
  BY DEF Numerals
<1>6. 0 \in T
  <2>1. Digits[0] \in Numerals
    BY <1>4, <1>5
  <2> QED
    BY <2>1
<1>7. ASSUME NEW n \in T PROVE n + 1 \in T
  <2>1. n + 1 < 10 => Digits[n + 1] \in Numerals
    <3> SUFFICES ASSUME n + 1 < 10 PROVE Digits[n + 1] \in Numerals
      OBVIOUS
    <3>1. n + 1 \in Nat /\ n + 1 \in 0 .. 9
      OBVIOUS
    <3>2. Digits[n + 1] = <<n + 1>>
      BY <1>4, <3>1
    <3> QED
      BY <1>5, <3>1, <3>2
  <2>2. n + 1 >= 10 => Digits[n + 1] \in Numerals
    <3> SUFFICES ASSUME n + 1 >= 10 PROVE Digits[n + 1] \in Numerals
      OBVIOUS
    <3>1. (n + 1) \div 10 \in 0 .. n /\ (n + 1) % 10 \in 0 .. 9
      BY DivTen
    <3>2. Digits[(n + 1) \div 10] \in Numerals
      BY <3>1
    <3>3. Digits[n + 1] = Append(Digits[(n + 1) \div 10], (n + 1) % 10)
      BY <1>4
    <3> QED
      BY <3>1, <3>2, <3>3 DEF Numerals
  <2> QED
    BY <2>1, <2>2
<1>8. T \in SUBSET Nat
  OBVIOUS
<1>9. T = Nat
  <2> HIDE DEF T
  <2> QED
    BY <1>6, <1>7, <1>8, SetInduction
<1>10. \A n \in Nat : Digits[n] \in Numerals
  <2> TAKE n \in Nat
  <2>1. n \in T
    BY <1>9
  <2> QED
    BY <2>1
<1> QED
  BY <1>4, <1>10

(* A string without its last digit. *)
LEMMA FrontOf ==
    ASSUME NEW s \in Numerals, s # << >>
    PROVE  /\ Front(s) \in Numerals /\ Len(Front(s)) = Len(s) - 1 /\ Last(s) \in 0 .. 9
           /\ Len(s) \in Nat \ {0}
           /\ \A i \in 1 .. Len(s) - 1 : Front(s)[i] = s[i]
           /\ s = Append(Front(s), Last(s))
<1>1. Len(s) \in Nat \ {0} /\ \A i \in 1 .. Len(s) : s[i] \in 0 .. 9
  BY DEF Numerals
<1>2. /\ Front(s) \in Numerals /\ Len(Front(s)) = Len(s) - 1
      /\ \A i \in 1 .. Len(s) - 1 : Front(s)[i] = s[i]
  <2>1. 1 \in Int /\ Len(s) - 1 \in Int /\ \A i \in 1 .. Len(s) - 1 : s[i] \in 0 .. 9
    BY <1>1
  <2>2. /\ SubSeq(s, 1, Len(s) - 1) \in Seq(0 .. 9)
        /\ Len(SubSeq(s, 1, Len(s) - 1)) =
              IF 1 <= Len(s) - 1 THEN Len(s) - 1 - 1 + 1 ELSE 0
        /\ \A i \in 1 .. Len(s) - 1 - 1 + 1 : SubSeq(s, 1, Len(s) - 1)[i] = s[1 + i - 1]
    BY <2>1, SubSeqProperties
  <2> DEFINE f == SubSeq(s, 1, Len(s) - 1)
  <2>3. f \in Numerals
    BY <2>2 DEF Numerals
  <2>4. Len(f) = Len(s) - 1
    <3>1. Len(f) = IF 1 <= Len(s) - 1 THEN Len(s) - 1 - 1 + 1 ELSE 0
      BY <2>2
    <3> DEFINE n == Len(s)
               m == Len(f)
    <3>2. n \in Nat \ {0} /\ m = IF 1 <= n - 1 THEN n - 1 - 1 + 1 ELSE 0
      BY <1>1, <3>1
    <3> HIDE DEF n, m
    <3>3. m = n - 1
      BY <3>2
    <3> QED
      BY <3>3 DEF n, m
  <2>5. ASSUME NEW i \in 1 .. Len(s) - 1 PROVE f[i] = s[i]
    <3>1. i \in 1 .. Len(s) - 1 - 1 + 1 /\ 1 + i - 1 = i
      BY <1>1
    <3> QED
      BY <2>2, <3>1
  <2> HIDE DEF f
  <2>6. Front(s) = f
    BY DEF Front, f
  <2> QED
    BY <2>3, <2>4, <2>5, <2>6
<1>3. Last(s) \in 0 .. 9
  BY <1>1 DEF Last
<1>4. /\ Append(Front(s), Last(s)) \in Numerals
      /\ Len(Append(Front(s), Last(s))) = Len(s)
      /\ \A i \in 1 .. Len(s) : Append(Front(s), Last(s))[i] = s[i]
  BY <1>1, <1>2, <1>3, AppendProperties DEF Numerals, Last
<1>5. s = Append(Front(s), Last(s))
  BY <1>4, SeqEqual DEF Numerals
<1> QED
  BY <1>1, <1>2, <1>3, <1>5

(* A string with one more digit. *)
LEMMA FrontAppend ==
    ASSUME NEW s \in Numerals, NEW x \in 0 .. 9
    PROVE  /\ Append(s, x) \in Numerals /\ Append(s, x) # << >>
           /\ Front(Append(s, x)) = s /\ Last(Append(s, x)) = x
<1>1. Append(s, x) \in Numerals /\ Append(s, x) # << >>
  BY AppendProperties DEF Numerals
<1>2. Append(s, x) = Append(Front(Append(s, x)), Last(Append(s, x)))
  BY <1>1, FrontOf
<1>3. Front(Append(s, x)) \in Numerals /\ Last(Append(s, x)) \in 0 .. 9
  BY <1>1, FrontOf
<1> QED
  BY <1>1, <1>2, <1>3, AppendInjective DEF Numerals

(* BigInt(s): Horner's rule. *)
LEMMA ValueDef ==
    /\ Value \in [Numerals -> Nat] /\ Value[<< >>] = 0
    /\ \A s \in Numerals : s # << >> => Value[s] = 10 * Value[Front(s)] + Last(s)
    /\ \A s \in Numerals : \A x \in 0 .. 9 : Value[Append(s, x)] = 10 * Value[s] + x
<1> DEFINE Before == [s \in Numerals |-> IF s = << >> THEN s ELSE Front(s)]
           Add    == [p \in Numerals \X Nat |->
                         IF p[1] = << >> THEN 0 ELSE 10 * p[2] + Last(p[1])]
           Size   == [s \in Numerals |-> Len(s)]
           Zero   == [s \in Numerals |-> 0]
           Empty  == {<< >>}
           Rule(f) == [s \in Numerals |-> IF s = << >> THEN 0 ELSE 10 * f[Front(s)] + Last(s)]
<1>1. PICK f : Solution(f, Numerals, Nat, Empty, Before, Zero, Add)
  <2>1. Before \in [Numerals -> Numerals]
    BY FrontOf
  <2>2. Add \in [Numerals \X Nat -> Nat]
    <3>1. ASSUME NEW p \in Numerals \X Nat PROVE Add[p] \in Nat
      <4>1. p[1] \in Numerals /\ p[2] \in Nat
        OBVIOUS
      <4>2. CASE p[1] = << >>
        BY <4>2
      <4>3. CASE p[1] # << >>
        <5>1. Last(p[1]) \in Nat
          BY SMTT(30), <4>1, <4>3, FrontOf
        <5>2. Add[p] = 10 * p[2] + Last(p[1])
          BY <4>3
        <5> HIDE DEF Add
        <5> QED
          BY <4>1, <5>1, <5>2
      <4> QED
        BY <4>2, <4>3
    <3> QED
      BY <3>1
  <2>3. Size \in [Numerals -> Nat] /\ Zero \in [Numerals -> Nat] /\ Empty \in SUBSET Numerals
    BY DEF Numerals
  <2>4. \A s \in Numerals \ Empty : Size[Before[s]] < Size[s]
    BY FrontOf
  <2>5. Recursion(Numerals, Nat, Size, Empty, Before, Zero, Add)
    BY <2>1, <2>3, <2>4, <2>2 DEF Recursion
  <2> HIDE DEF Before, Add, Size, Zero, Empty
  <2> QED
    BY <2>5, RecursiveFunction
<1>2. f = Rule(f)
  <2>1. f = [s \in Numerals |-> f[s]]
    BY <1>1 DEF Solution
  <2>2. ASSUME NEW s \in Numerals
        PROVE  f[s] = IF s = << >> THEN 0 ELSE 10 * f[Front(s)] + Last(s)
    <3>1. f[s] = IF s \in Empty THEN Zero[s] ELSE Add[<<s, f[Before[s]]>>]
      BY <1>1 DEF Solution
    <3>2. f[Before[s]] \in Nat
      BY <1>1, FrontOf DEF Solution
    <3>3. s # << >> => Add[<<s, f[Before[s]]>>] = 10 * f[Before[s]] + Last(s)
      BY <3>2
    <3> QED
      BY <3>1, <3>3
  <2> QED
    BY <2>1, <2>2
<1>3. Value = Rule(Value)
  <2>1. Value = CHOOSE g : g = Rule(g)
    BY DEF Value, Numerals
  <2> HIDE DEF Rule
  <2> QED
    BY <1>2, <2>1
<1>4. \A s \in Numerals : Value[s] = IF s = << >> THEN 0 ELSE 10 * Value[Front(s)] + Last(s)
  BY <1>3
<1>5. << >> \in Numerals
  BY DEF Numerals
<1>6. \A s \in Numerals : \A x \in 0 .. 9 : Value[Append(s, x)] = 10 * Value[s] + x
  BY <1>4, FrontAppend
<1> DEFINE T == {n \in Nat : \A s \in Numerals : Len(s) = n => Value[s] \in Nat}
<1>7. 0 \in T
  BY <1>4, FrontOf
<1>8. ASSUME NEW n \in T PROVE n + 1 \in T
  <2> SUFFICES ASSUME NEW s \in Numerals, Len(s) = n + 1 PROVE Value[s] \in Nat
    OBVIOUS
  <2>1. s # << >> /\ n \in Nat
    BY DEF Numerals
  <2>2. Front(s) \in Numerals /\ Len(Front(s)) = n /\ Last(s) \in 0 .. 9
    BY <2>1, FrontOf
  <2>3. Value[Front(s)] \in Nat
    BY <2>2
  <2> QED
    BY SMTT(30), <1>4, <2>1, <2>2, <2>3
<1>9. T \in SUBSET Nat
  OBVIOUS
<1>10. T = Nat
  <2> HIDE DEF T
  <2> QED
    BY <1>7, <1>8, <1>9, SetInduction
<1>11. \A s \in Numerals : Value[s] \in Nat
  <2> TAKE s \in Numerals
  <2>1. Len(s) \in T
    BY <1>10 DEF Numerals
  <2> QED
    BY <2>1
<1>12. Value \in [Numerals -> Nat]
  <2>1. Value = [s \in Numerals |-> Value[s]]
    BY <1>3
  <2> QED
    BY <1>11, <2>1
<1> QED
  BY <1>4, <1>5, <1>6, <1>12
-----------------------------------------------------------------------------
(* The larger of two numbers. *)
LEMMA MaxOf ==
    ASSUME NEW m \in Int, NEW n \in Int
    PROVE  Max({m, n}) = IF m >= n THEN m ELSE n
<1> DEFINE big == IF m >= n THEN m ELSE n
<1>1. big \in {m, n} /\ \A y \in {m, n} : big >= y
  OBVIOUS
<1>2. \A x \in {m, n} : (\A y \in {m, n} : x >= y) => x = big
  OBVIOUS
<1> HIDE DEF big
<1>3. Max({m, n}) = big
  BY <1>1, <1>2 DEF Max
<1> QED
  BY <1>3 DEF big

(* The smaller of two numbers. *)
LEMMA MinOf ==
    ASSUME NEW m \in Int, NEW n \in Int
    PROVE  Min({m, n}) = IF m <= n THEN m ELSE n
<1> DEFINE small == IF m <= n THEN m ELSE n
<1>1. small \in {m, n} /\ \A y \in {m, n} : small <= y
  OBVIOUS
<1>2. \A x \in {m, n} : (\A y \in {m, n} : x <= y) => x = small
  OBVIOUS
<1> HIDE DEF small
<1>3. Min({m, n}) = small
  BY <1>1, <1>2 DEF Min
<1> QED
  BY <1>3 DEF small

(* "0".repeat(n) *)
LEMMA ZerosAre ==
    ASSUME NEW n \in Int
    PROVE  /\ Zeros(n) \in Numerals /\ Len(Zeros(n)) = IF n > 0 THEN n ELSE 0
           /\ \A i \in 1 .. n : Zeros(n)[i] = 0
<1>1. Zeros(n) = [i \in 1 .. (IF n > 0 THEN n ELSE 0) |-> 0]
  BY MaxOf DEF Zeros
<1> DEFINE k == IF n > 0 THEN n ELSE 0
<1>2. k \in Nat
  OBVIOUS
<1> HIDE DEF k
<1>3. [i \in 1 .. k |-> 0] \in Numerals /\ Len([i \in 1 .. k |-> 0]) = k
      /\ \A j \in 1 .. k : [i \in 1 .. k |-> 0][j] = 0
  BY <1>2 DEF Numerals
<1> QED
  BY <1>1, <1>3 DEF k

(* substring() *)
LEMMA UpToIs ==
    ASSUME NEW s \in Numerals, NEW i \in Int, i <= Len(s)
    PROVE  /\ UpTo(s, i) \in Numerals /\ Len(UpTo(s, i)) = IF i > 0 THEN i ELSE 0
           /\ \A k \in 1 .. i : UpTo(s, i)[k] = s[k]
<1>1. Len(s) \in Nat /\ \A k \in 1 .. Len(s) : s[k] \in 0 .. 9
  BY DEF Numerals
<1>2. /\ SubSeq(s, 1, i) \in Seq(0 .. 9)
      /\ Len(SubSeq(s, 1, i)) = IF 1 <= i THEN i - 1 + 1 ELSE 0
      /\ \A k \in 1 .. i - 1 + 1 : SubSeq(s, 1, i)[k] = s[1 + k - 1]
  <2>1. \A k \in 1 .. i : s[k] \in 0 .. 9
    BY <1>1
  <2> QED
    BY <2>1, SubSeqProperties
<1>3. UpTo(s, i) = SubSeq(s, 1, i)
  BY DEF UpTo
<1> QED
  BY <1>2, <1>3 DEF Numerals

(* slice(), which clamps a negative bound to the start as UpTo does. *)
LEMMA FromIs ==
    ASSUME NEW s \in Numerals, NEW i \in Int, i <= Len(s)
    PROVE  /\ From(s, i) \in Numerals
           /\ Len(From(s, i)) = IF i > 0 THEN Len(s) - i ELSE Len(s)
           /\ \A k \in 1 .. Len(From(s, i)) :
                 From(s, i)[k] = IF i > 0 THEN s[i + k] ELSE s[k]
<1> DEFINE j == IF i > 0 THEN i ELSE 0
<1>1. Len(s) \in Nat /\ \A k \in 1 .. Len(s) : s[k] \in 0 .. 9
  BY DEF Numerals
<1>2. From(s, i) = SubSeq(s, j + 1, Len(s))
  BY SMTT(30), MaxOf DEF From
<1>3. j \in 0 .. Len(s)
  BY <1>1
<1> HIDE DEF j
<1>4. /\ SubSeq(s, j + 1, Len(s)) \in Seq(0 .. 9)
      /\ Len(SubSeq(s, j + 1, Len(s))) =
            IF j + 1 <= Len(s) THEN Len(s) - (j + 1) + 1 ELSE 0
      /\ \A k \in 1 .. Len(s) - (j + 1) + 1 :
            SubSeq(s, j + 1, Len(s))[k] = s[j + 1 + k - 1]
  <2>1. \A k \in j + 1 .. Len(s) : s[k] \in 0 .. 9
    BY <1>1, <1>3
  <2>2. j + 1 \in Int /\ Len(s) \in Int
    BY <1>1, <1>3
  <2> QED
    BY <2>1, <2>2, SubSeqProperties
<1>5. Len(From(s, i)) = Len(s) - j
  BY <1>1, <1>2, <1>3, <1>4
<1>6. \A k \in 1 .. Len(s) - j : From(s, i)[k] = s[j + k]
  <2> TAKE k \in 1 .. Len(s) - j
  <2>1. k \in 1 .. Len(s) - (j + 1) + 1 /\ j + 1 + k - 1 = j + k
    BY <1>1, <1>3
  <2> QED
    BY <1>2, <1>4, <2>1
<1>7. From(s, i) \in Numerals
  BY <1>2, <1>4 DEF Numerals
<1>8. CASE i > 0
  <2>1. j = i
    BY <1>8 DEF j
  <2> QED
    BY <1>5, <1>6, <1>7, <1>8, <2>1
<1>9. CASE ~ (i > 0)
  <2>1. j = 0
    BY <1>9 DEF j
  <2>2. Len(From(s, i)) = Len(s)
    BY <1>1, <1>5, <2>1
  <2>3. \A k \in 1 .. Len(s) : From(s, i)[k] = s[k]
    BY <1>1, <1>6, <2>1
  <2> QED
    BY <1>7, <1>9, <2>2, <2>3
<1> QED
  BY <1>8, <1>9

(* The two parts of a string, cut anywhere. *)
LEMMA SplitAt ==
    ASSUME NEW s \in Numerals, NEW i \in 0 .. Len(s)
    PROVE  /\ UpTo(s, i) \in Numerals /\ Len(UpTo(s, i)) = i
           /\ From(s, i) \in Numerals /\ Len(From(s, i)) = Len(s) - i
           /\ s = UpTo(s, i) \o From(s, i)
<1>1. Len(s) \in Nat
  BY DEF Numerals
<1>2. /\ UpTo(s, i) \in Numerals /\ Len(UpTo(s, i)) = i
      /\ \A k \in 1 .. i : UpTo(s, i)[k] = s[k]
  BY UpToIs
<1>3. /\ From(s, i) \in Numerals /\ Len(From(s, i)) = Len(s) - i
      /\ \A k \in 1 .. Len(s) - i : From(s, i)[k] = s[i + k]
  BY <1>1, FromIs
<1>4. /\ UpTo(s, i) \o From(s, i) \in Numerals
      /\ Len(UpTo(s, i) \o From(s, i)) = Len(s)
      /\ \A k \in 1 .. Len(s) : (UpTo(s, i) \o From(s, i))[k] =
            IF k <= i THEN UpTo(s, i)[k] ELSE From(s, i)[k - i]
  BY <1>1, <1>2, <1>3, ConcatProperties DEF Numerals
<1>5. ASSUME NEW k \in 1 .. Len(s) PROVE (UpTo(s, i) \o From(s, i))[k] = s[k]
  <2>1. CASE k <= i
    BY <1>2, <1>4, <2>1
  <2>2. CASE ~ (k <= i)
    <3>1. k - i \in 1 .. Len(s) - i /\ i + (k - i) = k
      BY <1>1, <2>2
    <3>2. From(s, i)[k - i] = s[k]
      BY <1>3, <3>1
    <3> QED
      BY <1>4, <2>2, <3>2
  <2> QED
    BY <2>1, <2>2
<1>6. s = UpTo(s, i) \o From(s, i)
  BY <1>4, <1>5, SeqEqual DEF Numerals
<1> QED
  BY <1>2, <1>3, <1>6
-----------------------------------------------------------------------------
(* The value of a concatenation. *)
LEMMA ValueConcat ==
    ASSUME NEW s \in Numerals, NEW t \in Numerals
    PROVE  Value[s \o t] = Value[s] * TenTo[Len(t)] + Value[t]
<1> DEFINE T == {n \in Nat : \A u \in Numerals : Len(u) = n =>
                    Value[s \o u] = Value[s] * TenTo[Len(u)] + Value[u]}
<1>1. 0 \in T
  <2> SUFFICES ASSUME NEW u \in Numerals, Len(u) = 0
               PROVE  Value[s \o u] = Value[s] * TenTo[Len(u)] + Value[u]
    OBVIOUS
  <2>1. u = << >> /\ s \o u = s
    BY ConcatEmptySeq, EmptySeq DEF Numerals
  <2> QED
    BY <2>1, ValueDef, TenToDef
<1>2. ASSUME NEW n \in T PROVE n + 1 \in T
  <2> SUFFICES ASSUME NEW u \in Numerals, Len(u) = n + 1
               PROVE  Value[s \o u] = Value[s] * TenTo[Len(u)] + Value[u]
    OBVIOUS
  <2> DEFINE v == Front(u)
             x == Last(u)
             w == s \o v
             y == s \o u
  <2>1. u # << >> /\ n \in Nat
    BY DEF Numerals
  <2>2. v \in Numerals /\ Len(v) = n /\ x \in 0 .. 9 /\ Value[u] = 10 * Value[v] + x
    BY <2>1, FrontOf, ValueDef
  <2>3. y \in Numerals /\ y # << >> /\ Front(y) = w /\ Last(y) = x
    <3>1. /\ y \in Numerals /\ Len(y) = Len(s) + Len(u)
          /\ \A i \in 1 .. Len(s) + Len(u) :
                y[i] = IF i <= Len(s) THEN s[i] ELSE u[i - Len(s)]
      BY ConcatProperties DEF Numerals
    <3>2. /\ y \in Numerals /\ Len(y) = Len(s) + (n + 1) /\ y # << >> /\ Len(s) \in Nat
          /\ \A i \in 1 .. Len(s) + (n + 1) :
                y[i] = IF i <= Len(s) THEN s[i] ELSE u[i - Len(s)]
      <4>1. Len(s) \in Nat
        BY DEF Numerals
      <4> HIDE DEF y
      <4> QED
        BY <2>1, <3>1, <4>1 DEF Numerals
    <3>3. /\ w \in Numerals /\ Len(w) = Len(s) + n
          /\ \A i \in 1 .. Len(s) + n :
                w[i] = IF i <= Len(s) THEN s[i] ELSE v[i - Len(s)]
      BY <2>2, ConcatProperties DEF Numerals
    <3> HIDE DEF w, y
    <3>4. Len(y) - 1 = Len(s) + n /\ Len(u) - 1 = n
      BY <2>1, <3>2
    <3>5. /\ Front(y) \in Numerals /\ Len(Front(y)) = Len(s) + n
          /\ \A i \in 1 .. Len(s) + n : Front(y)[i] = y[i]
      BY <3>2, <3>4, FrontOf
    <3>6. \A i \in 1 .. n : v[i] = u[i]
      BY <2>1, <3>4, FrontOf
    <3>7. ASSUME NEW i \in 1 .. Len(s) + n PROVE Front(y)[i] = w[i]
      <4>1. Front(y)[i] = IF i <= Len(s) THEN s[i] ELSE u[i - Len(s)]
        BY <2>1, <3>2, <3>5
      <4>2. ~ (i <= Len(s)) => i - Len(s) \in 1 .. n
        BY <2>1, <3>2
      <4> QED
        BY <3>3, <3>6, <4>1, <4>2
    <3>8. Front(y) = w
      BY <3>3, <3>5, <3>7, SeqEqual DEF Numerals
    <3>9. Last(y) = x
      BY <2>1, <3>2 DEF Last
    <3> QED
      BY <3>2, <3>8, <3>9
  <2>4. Value[y] = 10 * Value[w] + x
    <3> HIDE DEF w, x, y
    <3> QED
      BY <2>3, ValueDef
  <2>5. Value[w] = Value[s] * TenTo[n] + Value[v]
    BY <2>2
  <2>6. TenTo[n + 1] = 10 * TenTo[n]
    BY <2>1, TenToDef
  <2> HIDE DEF v, x, w
  <2>7. Value[s] \in Nat /\ Value[v] \in Nat /\ TenTo[n] \in Nat
    BY <2>1, <2>2, ValueDef, TenToDef
  <2>8. \A a, b, c, d \in Nat : 10 * (a * b + c) + d = a * (10 * b) + (10 * c + d)
    OBVIOUS
  <2> QED
    <3>1. Value[y] = 10 * (Value[s] * TenTo[n] + Value[v]) + x
      BY <2>4, <2>5
    <3>2. x \in Nat
      BY <2>2
    <3>3. Value[y] = Value[s] * (10 * TenTo[n]) + (10 * Value[v] + x)
      BY SMTT(30), <2>7, <2>8, <3>1, <3>2
    <3>4. Value[y] = Value[s] * TenTo[Len(u)] + Value[u]
      BY <2>2, <2>6, <3>3
    <3> QED
      BY <3>4
<1>3. T \in SUBSET Nat
  OBVIOUS
<1>4. T = Nat
  <2> HIDE DEF T
  <2> QED
    BY <1>1, <1>2, <1>3, SetInduction
<1>5. Len(t) \in T
  <2> HIDE DEF T
  <2> QED
    BY <1>4 DEF Numerals
<1> QED
  BY <1>5

(* A string has fewer values than 10 ^ its length. *)
LEMMA ValueBound ==
    ASSUME NEW s \in Numerals
    PROVE  Value[s] \in 0 .. TenTo[Len(s)] - 1
<1> DEFINE T == {n \in Nat : \A u \in Numerals : Len(u) = n => Value[u] < TenTo[n]}
<1>1. 0 \in T
  BY ValueDef, TenToDef DEF Numerals
<1>2. ASSUME NEW n \in T PROVE n + 1 \in T
  <2> SUFFICES ASSUME NEW u \in Numerals, Len(u) = n + 1 PROVE Value[u] < TenTo[n + 1]
    OBVIOUS
  <2>1. u # << >> /\ n \in Nat
    BY DEF Numerals
  <2>2. /\ Front(u) \in Numerals /\ Len(Front(u)) = n /\ Last(u) \in 0 .. 9
        /\ u = Append(Front(u), Last(u))
    BY <2>1, FrontOf
  <2>3. Value[u] = 10 * Value[Front(u)] + Last(u) /\ TenTo[n + 1] = 10 * TenTo[n]
    BY <2>1, <2>2, ValueDef, TenToDef
  <2> DEFINE v == Value[Front(u)]
             l == Last(u)
             p == TenTo[n]
  <2>4. v < p /\ v \in Nat /\ p \in Nat
    BY <2>1, <2>2, ValueDef, TenToDef
  <2>5. l \in 0 .. 9 /\ Value[u] = 10 * v + l /\ TenTo[n + 1] = 10 * p
    BY <2>2, <2>3
  <2> HIDE DEF v, l, p
  <2>6. 10 * v + l < 10 * p
    BY <2>4, <2>5
  <2> QED
    BY <2>5, <2>6
<1>3. T \in SUBSET Nat
  OBVIOUS
<1>4. T = Nat
  <2> HIDE DEF T
  <2> QED
    BY <1>1, <1>2, <1>3, SetInduction
<1>5. Len(s) \in T
  <2> HIDE DEF T
  <2> QED
    BY <1>4 DEF Numerals
<1>6. Value[s] \in Nat /\ TenTo[Len(s)] \in Nat
  BY ValueDef, TenToDef DEF Numerals
<1> QED
  BY <1>5, <1>6

(* The value of zeros. *)
LEMMA ValueZeros ==
    ASSUME NEW s \in Numerals, \A i \in 1 .. Len(s) : s[i] = 0
    PROVE  Value[s] = 0
<1> DEFINE T == {n \in Nat : \A u \in Numerals :
                    Len(u) = n /\ (\A i \in 1 .. n : u[i] = 0) => Value[u] = 0}
<1>1. 0 \in T
  BY ValueDef DEF Numerals
<1>2. ASSUME NEW n \in T PROVE n + 1 \in T
  <2> SUFFICES ASSUME NEW u \in Numerals, Len(u) = n + 1, \A i \in 1 .. n + 1 : u[i] = 0
               PROVE  Value[u] = 0
    OBVIOUS
  <2>1. u # << >> /\ n \in Nat
    BY DEF Numerals
  <2>2. /\ Front(u) \in Numerals /\ Len(Front(u)) = n /\ Last(u) = 0
        /\ \A i \in 1 .. n : Front(u)[i] = 0
    <3>1. Len(u) - 1 = n
      BY <2>1
    <3>2. \A i \in 1 .. n : Front(u)[i] = u[i]
      BY <2>1, <3>1, FrontOf
    <3>3. Last(u) = 0
      BY <2>1 DEF Last
    <3>4. Front(u) \in Numerals /\ Len(Front(u)) = n
      BY <2>1, <3>1, FrontOf
    <3> QED
      BY <2>1, <3>2, <3>3, <3>4
  <2>3. Value[Front(u)] = 0
    BY <2>2
  <2> QED
    BY <2>1, <2>2, <2>3, ValueDef
<1>3. T \in SUBSET Nat
  OBVIOUS
<1>4. T = Nat
  <2> HIDE DEF T
  <2> QED
    BY <1>1, <1>2, <1>3, SetInduction
<1>5. Len(s) \in T
  <2> HIDE DEF T
  <2> QED
    BY <1>4 DEF Numerals
<1> QED
  BY <1>5
-----------------------------------------------------------------------------
(* A numeral as toString() writes it: no zeros in front, and at least one digit. *)
(* The strings that n.toString() makes: no zeros before the first digit. *)
Canonical(s) == s \in Numerals /\ Len(s) >= 1 /\ (s[1] = 0 => Len(s) = 1)

(* The value of a single digit. *)
LEMMA ValueOne ==
    ASSUME NEW x \in 0 .. 9
    PROVE  <<x>> \in Numerals /\ Len(<<x>>) = 1 /\ <<x>>[1] = x /\ Value[<<x>>] = x
<1>1. << >> \in Numerals /\ <<x>> \in Numerals /\ <<x>> = Append(<< >>, x)
  BY DEF Numerals
<1>2. Value[Append(<< >>, x)] = 10 * Value[<< >>] + x
  BY <1>1, ValueDef
<1> QED
  BY <1>1, <1>2, ValueDef

(* BigInt(n.toString()) is n. *)
LEMMA DigitsCanonical == \A n \in Nat : Canonical(Digits[n]) /\ Value[Digits[n]] = n
<1> DEFINE Good(n) == Canonical(Digits[n]) /\ Value[Digits[n]] = n
           T == {n \in Nat : \A m \in 0 .. n : Good(m)}
<1>1. ASSUME NEW n \in 0 .. 9 PROVE Good(n)
  <2>1. Digits[n] = <<n>>
    BY DigitsDef
  <2> QED
    BY <2>1, ValueOne DEF Canonical
<1>2. ASSUME NEW n \in Nat, n > 9, Good(n \div 10) PROVE Good(n)
  <2> DEFINE s == Digits[n \div 10]
             x == n % 10
  <2>1. /\ n \div 10 \in Nat /\ x \in 0 .. 9 /\ n = 10 * (n \div 10) + x /\ n \div 10 > 0
        /\ Digits[n] = Append(s, x) /\ s \in Numerals /\ Canonical(s) /\ Value[s] = n \div 10
    BY <1>2, DivTen, DigitsDef
  <2> HIDE DEF s, x
  <2>2. s[1] # 0
    <3> SUFFICES ASSUME s[1] = 0 PROVE FALSE
      OBVIOUS
    <3>1. Len(s) = 1 /\ s[1] = 0
      BY <2>1 DEF Canonical
    <3>2. Len(s) = 1 /\ \A i \in 1 .. Len(s) : s[i] = 0
      BY <3>1
    <3> QED
      BY <2>1, <3>2, ValueZeros
  <2>3. /\ Append(s, x) \in Numerals /\ Len(Append(s, x)) = Len(s) + 1
        /\ Append(s, x)[1] = s[1]
    BY <2>1, AppendProperties DEF Numerals, Canonical
  <2>4. Value[Append(s, x)] = 10 * Value[s] + x
    BY <2>1, ValueDef
  <2>5. Len(s) >= 1 /\ Len(s) \in Nat
    BY <2>1 DEF Canonical, Numerals
  <2>6. Canonical(Digits[n])
    <3>1. Digits[n] \in Numerals /\ Len(Digits[n]) >= 1 /\ Digits[n][1] # 0
      BY <2>1, <2>2, <2>3, <2>5
    <3> QED
      BY <3>1 DEF Canonical
  <2> QED
    BY <2>1, <2>4, <2>6
<1>3. 0 \in T
  BY <1>1
<1>4. ASSUME NEW n \in T PROVE n + 1 \in T
  <2>1. CASE n + 1 < 10
    <3>1. Good(n + 1)
      BY <1>1, <2>1
    <3> HIDE DEF Good
    <3> QED
      BY <3>1
  <2>2. CASE n + 1 >= 10
    <3>1. (n + 1) \div 10 \in 0 .. n
      BY <2>2, DivTen
    <3>2. Good((n + 1) \div 10)
      BY <3>1
    <3>3. Good(n + 1)
      BY <1>2, <2>2, <3>2
    <3> HIDE DEF Good
    <3> QED
      BY <3>3
  <2> QED
    BY <2>1, <2>2
<1>5. T \in SUBSET Nat
  OBVIOUS
<1>6. T = Nat
  <2> HIDE DEF T
  <2> QED
    BY <1>3, <1>4, <1>5, SetInduction
<1>7. ASSUME NEW n \in Nat PROVE Good(n)
  <2>1. n \in T
    BY <1>6
  <2> QED
    BY <2>1
<1> QED
  BY <1>7

(* No other numeral of its kind has the same value. *)
LEMMA DigitsValue == \A s : Canonical(s) => Digits[Value[s]] = s
<1> DEFINE T == {n \in Nat : \A s : Canonical(s) /\ Len(s) = n + 1 => Digits[Value[s]] = s}
<1>1. 0 \in T
  <2> SUFFICES ASSUME NEW s, Canonical(s), Len(s) = 1 PROVE Digits[Value[s]] = s
    OBVIOUS
  <2>1. s \in Numerals /\ s[1] \in 0 .. 9 /\ s = <<s[1]>>
    <3>1. s \in Numerals
      BY DEF Canonical
    <3>2. s[1] \in 0 .. 9
      <4>1. s \in Seq(0 .. 9) /\ 1 \in 1 .. Len(s)
        BY <3>1 DEF Numerals
      <4> QED
        BY <4>1, ElementOfSeq
    <3> DEFINE t == <<s[1]>>
    <3>3. t \in Numerals /\ Len(t) = 1 /\ t[1] = s[1]
      BY <3>2, ValueOne
    <3> HIDE DEF t
    <3>4. s = t
      BY <3>1, <3>3, SeqEqual DEF Numerals
    <3> QED
      BY <3>1, <3>2, <3>4 DEF t
  <2>2. Value[s] = s[1]
    BY <2>1, ValueOne
  <2>3. Digits[s[1]] = <<s[1]>>
    BY <2>1, DigitsDef
  <2> QED
    BY <2>1, <2>2, <2>3
<1>2. ASSUME NEW n \in T PROVE n + 1 \in T
  <2> SUFFICES ASSUME NEW s, Canonical(s), Len(s) = n + 2 PROVE Digits[Value[s]] = s
    OBVIOUS
  <2> DEFINE f == Front(s)
             x == Last(s)
  <2>1. n \in Nat /\ s \in Numerals /\ s # << >> /\ s[1] # 0
    BY DEF Canonical, Numerals
  <2>2. /\ f \in Numerals /\ Len(f) = n + 1 /\ x \in 0 .. 9 /\ s = Append(f, x)
        /\ Value[s] = 10 * Value[f] + x
    <3>1. f \in Numerals /\ x \in 0 .. 9 /\ s = Append(f, x)
      BY <2>1, FrontOf
    <3>2. Len(f) = n + 1
      BY <2>1, FrontOf
    <3>3. Value[s] = 10 * Value[f] + x
      BY <2>1, ValueDef
    <3> QED
      BY <3>1, <3>2, <3>3
  <2>3. f[1] = s[1]
    <3>1. 1 \in 1 .. Len(s) - 1
      BY <2>1
    <3> QED
      BY <2>1, <3>1, FrontOf
  <2> HIDE DEF f, x
  <2>4. Canonical(f)
    BY <2>1, <2>2, <2>3 DEF Canonical
  <2>5. Digits[Value[f]] = f
    BY <2>2, <2>4
  <2>6. Value[f] \in Nat
    BY <2>2, ValueDef
  <2>7. Value[f] # 0
    <3> SUFFICES ASSUME Value[f] = 0 PROVE FALSE
      OBVIOUS
    <3>1. Digits[0] = <<0>>
      BY DigitsDef
    <3>2. f[1] = 0
      BY <2>5, <3>1
    <3> QED
      BY <2>1, <2>3, <3>2
  <2>8. /\ Value[s] \in Nat /\ Value[s] >= 10
        /\ Value[s] \div 10 = Value[f] /\ Value[s] % 10 = x
    <3>1. \A a \in Nat : \A b \in 0 .. 9 :
             (10 * a + b) \div 10 = a /\ (10 * a + b) % 10 = b
      OBVIOUS
    <3>2. /\ (10 * Value[f] + x) \div 10 = Value[f] /\ (10 * Value[f] + x) % 10 = x
      BY <2>2, <2>6, <3>1
    <3>3. Value[s] \in Nat /\ Value[s] >= 10
      BY <2>2, <2>6, <2>7
    <3> QED
      BY <2>2, <3>2, <3>3
  <2>9. Digits[Value[s]] = Append(Digits[Value[s] \div 10], Value[s] % 10)
    BY <2>8, DigitsDef
  <2> QED
    BY <2>2, <2>5, <2>8, <2>9
<1>3. T \in SUBSET Nat
  OBVIOUS
<1>4. T = Nat
  <2> HIDE DEF T
  <2> QED
    BY <1>1, <1>2, <1>3, SetInduction
<1>5. ASSUME NEW s, Canonical(s) PROVE Digits[Value[s]] = s
  <2>1. Len(s) - 1 \in T /\ Len(s) = (Len(s) - 1) + 1
    <3>1. Len(s) \in Nat /\ Len(s) >= 1
      BY <1>5 DEF Canonical, Numerals
    <3> HIDE DEF T
    <3> QED
      BY <1>4, <3>1
  <2> QED
    BY <1>5, <2>1
<1> QED
  BY <1>5

(* An amount made of a number is that number. *)
LEMMA OfBaseUnits ==
    ASSUME NEW n \in Nat, NEW d, NEW a, a = FromBaseUnits(n, d)
    PROVE  /\ a.amount = Digits[n] /\ a.decimals = d /\ Units(a) = n
           /\ Canonical(a.amount) /\ Value[a.amount] = n
           /\ a.amount = <<0>> <=> n = 0
<1>1. a.amount = Digits[n] /\ a.decimals = d
  BY DEF FromBaseUnits
<1>2. Canonical(Digits[n]) /\ Value[Digits[n]] = n
  BY DigitsCanonical
<1>3. Digits[0] = <<0>> /\ Value[<<0>>] = 0
  BY DigitsDef, ValueOne
<1> QED
  BY <1>1, <1>2, <1>3 DEF Units
-----------------------------------------------------------------------------
(* Division, as long as the divisor is not a number written down. *)
LEMMA Division ==
    ASSUME NEW n \in Nat, NEW m \in Nat \ {0}, NEW q \in Nat, NEW r \in Nat, r < m,
           n = q * m + r
    PROVE  n \div m = q /\ n % m = r
OBVIOUS

(* Quotient and remainder. *)
LEMMA DivisionIs ==
    ASSUME NEW n \in Nat, NEW m \in Nat \ {0}
    PROVE  /\ n \div m \in Nat /\ n % m \in Nat /\ n % m < m
           /\ n = (n \div m) * m + (n % m)
OBVIOUS

(* What is needed of products, for the provers to take as facts. *)
LEMMA Products ==
    /\ \A a, b \in Nat : a * b \in Nat /\ a * b = b * a
    /\ \A a, b, c \in Nat : a * (b * c) = (a * b) * c
    /\ \A a, b, c \in Nat : (a + b) * c = a * c + b * c
    /\ \A a, b \in Nat \ {0} : a * b \in Nat \ {0}
    /\ \A a, b, c \in Nat : a < b /\ c > 0 => a * c < b * c
    /\ \A a, b, c \in Nat : a <= b => a * c <= b * c
OBVIOUS

(* More zeros, larger power. *)
LEMMA TenToMonotonic == \A m, n \in Nat : m <= n => TenTo[m] <= TenTo[n]
<1> SUFFICES ASSUME NEW m \in Nat, NEW n \in Nat, m <= n PROVE TenTo[m] <= TenTo[n]
  OBVIOUS
<1>1. n - m \in Nat /\ m + (n - m) = n
  OBVIOUS
<1>2. TenTo[n] = TenTo[m] * TenTo[n - m]
  BY <1>1, TenToPlus
<1>3. TenTo[m] \in Nat /\ TenTo[n - m] \in Nat \ {0}
  BY <1>1, TenToPositive
<1> HIDE DEF TenTo
<1>4. \A a \in Nat : \A b \in Nat \ {0} : a <= a * b
  OBVIOUS
<1> QED
  BY <1>2, <1>3, <1>4
-----------------------------------------------------------------------------
(* scale() does on the digits what ScaleIsExact says of the number. *)
Exact(n, e, d) ==
    LET a == FromBaseUnits(n, e)
    IN  /\ Scales(a, d) <=> (n * TenTo[d]) % TenTo[e] = 0
        /\ Scales(a, d) => Scale(a, d) = FromBaseUnits((n * TenTo[d]) \div TenTo[e], d)

(* Zero is scaled to zero, without looking at its digits. *)
LEMMA ScaleOfZero == ASSUME NEW e \in Nat, NEW d \in Nat PROVE Exact(0, e, d)
<1> DEFINE a == FromBaseUnits(0, e)
<1>1. a.amount = <<0>> /\ a.decimals = e
  BY OfBaseUnits
<1>2. Digits[0] = <<0>>
  BY DigitsDef
<1>3. 0 * TenTo[d] = 0
  BY TenToPositive
<1>4. 0 \div TenTo[e] = 0 /\ 0 % TenTo[e] = 0
  BY TenToPositive, Division
<1> HIDE DEF a
<1>5. Scales(a, d) /\ Scale(a, d) = [decimals |-> d, amount |-> <<0>>]
  BY <1>1 DEF Scales, Scale
<1>6. FromBaseUnits(0, d) = [decimals |-> d, amount |-> <<0>>]
  BY <1>2 DEF FromBaseUnits
<1> QED
  BY <1>3, <1>4, <1>5, <1>6 DEF Exact, a

(* Zeros are added: the value is multiplied. *)
LEMMA ScaleUp ==
    ASSUME NEW n \in Nat \ {0}, NEW e \in Nat, NEW d \in Nat, d >= e
    PROVE  Exact(n, e, d)
<1> DEFINE a == FromBaseUnits(n, e)
           s == a.amount
           z == Zeros(d - e)
           t == s \o z
           P == TenTo[d - e]
           Q == TenTo[e]
<1>1. s # <<0>> /\ a.decimals = e /\ Canonical(s) /\ Value[s] = n
  BY OfBaseUnits
<1>2. d - e \in Nat /\ z \in Numerals /\ Len(z) = d - e /\ \A i \in 1 .. Len(z) : z[i] = 0
  BY ZerosAre
<1>3. P \in Nat \ {0} /\ Q \in Nat \ {0} /\ TenTo[d] = P * Q
  <2>1. (d - e) + e = d
    OBVIOUS
  <2> QED
    BY <1>2, <2>1, TenToPositive, TenToPlus
<1> HIDE DEF a, s, z, P, Q
<1>4. s \in Numerals /\ Len(s) >= 1 /\ Len(s) \in Nat
  BY <1>1 DEF Canonical, Numerals
<1>5. /\ t \in Numerals /\ Len(t) = Len(s) + Len(z)
      /\ \A i \in 1 .. Len(s) + Len(z) : t[i] = IF i <= Len(s) THEN s[i] ELSE z[i - Len(s)]
  BY <1>2, <1>4, ConcatProperties DEF Numerals
<1>6. Value[t] = n * P
  <2>1. Value[z] = 0
    BY <1>2, ValueZeros
  <2>2. Value[t] = Value[s] * TenTo[Len(z)] + Value[z]
    BY <1>2, <1>4, ValueConcat
  <2> QED
    BY <1>1, <1>2, <1>3, <2>1, <2>2 DEF P
<1> HIDE DEF t
<1>7. Canonical(t)
  <2>1. s[1] # 0
    <3> SUFFICES ASSUME s[1] = 0 PROVE FALSE
      OBVIOUS
    <3>1. Len(s) = 1
      BY <1>1 DEF Canonical
    <3>2. \A i \in 1 .. Len(s) : s[i] = 0
      BY <3>1
    <3> QED
      BY <1>1, <1>4, <3>2, ValueZeros
  <2>2. 1 \in 1 .. Len(s) + Len(z) /\ Len(t) >= 1
    BY <1>2, <1>4, <1>5
  <2>3. t[1] = s[1]
    BY <1>4, <1>5, <2>2
  <2> QED
    BY <1>5, <2>1, <2>2, <2>3 DEF Canonical
<1>8. Digits[n * P] = t
  BY <1>6, <1>7, DigitsValue
<1>9. /\ (n * TenTo[d]) % Q = 0
      /\ (n * TenTo[d]) \div Q = n * P
  <2>1. n * P \in Nat /\ n * TenTo[d] \in Nat /\ n * TenTo[d] = (n * P) * Q + 0
    BY <1>3, Products
  <2> QED
    BY <1>3, <2>1, Division
<1>10. Scales(a, d)
  BY <1>1 DEF Scales
<1>11. Scale(a, d) = FromBaseUnits(n * P, d)
  <2>1. Scale(a, d) = [decimals |-> d, amount |-> t]
    BY <1>1 DEF Scale, s, t, z
  <2> QED
    BY <1>8, <2>1 DEF FromBaseUnits
<1> QED
  BY <1>9, <1>10, <1>11 DEF Exact, a, Q

(* Digits are dropped, if all of them are zeros: the value is divided exactly. *)
LEMMA ScaleDown ==
    ASSUME NEW n \in Nat \ {0}, NEW e \in Nat, NEW d \in Nat, d < e
    PROVE  Exact(n, e, d)
<1> DEFINE a == FromBaseUnits(n, e)
           s == a.amount
           j == e - d
           i == Len(s) + d - e
           P == TenTo[j]
           Q == TenTo[d]
<1>1. s # <<0>> /\ a.decimals = e /\ Canonical(s) /\ Value[s] = n
  BY OfBaseUnits
<1>2. s \in Numerals /\ Len(s) >= 1 /\ Len(s) \in Nat
  BY <1>1 DEF Canonical, Numerals
<1>3. j \in Nat \ {0} /\ i \in Int /\ i < Len(s) /\ i + j = Len(s)
  BY <1>2
<1>4. P \in Nat \ {0} /\ Q \in Nat \ {0} /\ TenTo[e] = P * Q /\ P * Q \in Nat \ {0}
  <2>1. (e - d) + d = e
    OBVIOUS
  <2> QED
    BY <1>3, <2>1, TenToPositive, TenToPlus
<1>5. Scales(a, d) <=> Value[From(s, i)] = 0
  BY <1>1 DEF Scales
<1> HIDE DEF a, s, i, j, P, Q
<1>6. Scale(a, d) = [decimals |-> d, amount |-> UpTo(s, i)]
  <2>1. i = Len(a.amount) + d - a.decimals /\ ~ (d >= a.decimals) /\ a.amount # <<0>>
    BY <1>1 DEF i, s
  <2> QED
    BY <2>1 DEF Scale, s
<1>7. CASE i >= 1
  <2> DEFINE p == UpTo(s, i)
             r == From(s, i)
  <2>1. /\ p \in Numerals /\ Len(p) = i /\ r \in Numerals /\ Len(r) = Len(s) - i
        /\ s = p \o r
    <3>1. i \in 0 .. Len(s)
      BY <1>2, <1>3, <1>7
    <3> QED
      BY <1>2, <3>1, SplitAt
  <2>2. p[1] = s[1]
    BY <1>2, <1>3, <1>7, UpToIs
  <2> HIDE DEF p, r
  <2>3. Len(r) = j /\ Len(s) > 1
    BY <1>2, <1>3, <1>7, <2>1
  <2>4. Value[p] \in Nat /\ Value[r] \in Nat /\ Value[r] < P /\ n = Value[p] * P + Value[r]
    <3>1. Value[p] \in Nat /\ Value[r] \in Nat /\ Value[r] \in 0 .. TenTo[Len(r)] - 1
      BY <2>1, ValueDef, ValueBound
    <3>2. Value[p \o r] = Value[p] * TenTo[Len(r)] + Value[r]
      BY <2>1, ValueConcat
    <3>3. TenTo[Len(r)] = P
      BY <2>3 DEF P
    <3>4. n = Value[p] * P + Value[r]
      BY <1>1, <2>1, <3>2, <3>3
    <3>5. Value[r] \in 0 .. P - 1
      BY <3>1, <3>3
    <3>6. Value[r] < P
      BY <1>4, <3>5
    <3> QED
      BY <3>1, <3>4, <3>6
  <2>5. Canonical(p) /\ Digits[Value[p]] = p
    <3>1. Len(s) # 1
      BY <1>2, <2>3
    <3>2. p[1] # 0
      BY <1>1, <2>2, <3>1 DEF Canonical
    <3>3. Canonical(p)
      BY <1>7, <2>1, <3>2 DEF Canonical
    <3> QED
      BY <3>3, DigitsValue
  <2>6. n * Q = Value[p] * (P * Q) + Value[r] * Q
    BY <1>4, <2>4, Products
  <2>7. Value[r] * Q < P * Q /\ Value[r] * Q \in Nat /\ n * Q \in Nat
    BY <1>4, <2>4, Products
  <2>8. (n * Q) \div (P * Q) = Value[p] /\ (n * Q) % (P * Q) = Value[r] * Q
    <3> DEFINE m == P * Q
               x == n * Q
               y == Value[r] * Q
    <3>1. m \in Nat \ {0} /\ x \in Nat /\ y \in Nat /\ y < m /\ x = Value[p] * m + y
      BY <1>4, <2>6, <2>7
    <3> HIDE DEF m, x, y
    <3>2. x \div m = Value[p] /\ x % m = y
      BY <2>4, <3>1, Division
    <3> QED
      BY <3>2 DEF m, x, y
  <2>9. Value[r] * Q = 0 <=> Value[r] = 0
    BY <1>4, <2>4, Products
  <2>10. (n * TenTo[d]) \div TenTo[e] = Value[p] /\ (n * TenTo[d]) % TenTo[e] = Value[r] * Q
    BY <1>4, <2>8 DEF Q
  <2>11. Scale(a, d) = FromBaseUnits(Value[p], d)
    BY <1>6, <2>5 DEF FromBaseUnits, p
  <2> QED
    BY <1>5, <2>9, <2>10, <2>11 DEF Exact, a, r
<1>8. CASE ~ (i >= 1)
  <2>1. From(s, i) = s
    <3> DEFINE r == From(s, i)
    <3>1. r \in Numerals /\ Len(r) = Len(s) /\ \A k \in 1 .. Len(s) : r[k] = s[k]
      <4>1. ~ (i > 0) /\ i <= Len(s)
        BY <1>3, <1>8
      <4> QED
        BY <1>2, <1>3, <4>1, FromIs
    <3> HIDE DEF r
    <3>2. r = s
      BY <1>2, <3>1, SeqEqual DEF Numerals
    <3> QED
      BY <3>2 DEF r
  <2>2. ~ Scales(a, d)
    BY <1>1, <1>5, <2>1
  <2>3. n < P
    <3>1. Len(s) <= j
      BY <1>2, <1>3, <1>8
    <3>2. TenTo[Len(s)] <= P /\ TenTo[Len(s)] \in Nat
      BY <1>2, <1>3, <3>1, TenToMonotonic, TenToPositive DEF P
    <3>3. Value[s] \in 0 .. TenTo[Len(s)] - 1
      BY <1>2, ValueBound
    <3> QED
      BY <1>1, <1>4, <3>2, <3>3
  <2>4. n * Q \in Nat \ {0} /\ n * Q < P * Q
    BY <1>4, <2>3, Products
  <2>5. (n * Q) % (P * Q) = n * Q
    <3>1. n * Q = 0 * (P * Q) + n * Q
      BY <1>4, <2>4
    <3> QED
      BY <1>4, <2>4, <3>1, Division
  <2>6. (n * TenTo[d]) % TenTo[e] # 0
    BY <1>4, <2>4, <2>5 DEF Q
  <2> QED
    BY <2>2, <2>6 DEF Exact, a
<1> QED
  BY <1>7, <1>8

(* So scale() is exact on every amount. *)
LEMMA ScaleExact == \A n, e, d \in Nat : Exact(n, e, d)
<1> SUFFICES ASSUME NEW n \in Nat, NEW e \in Nat, NEW d \in Nat PROVE Exact(n, e, d)
  OBVIOUS
<1>1. CASE n = 0
  BY <1>1, ScaleOfZero
<1>2. CASE n # 0 /\ d >= e
  BY <1>2, ScaleUp
<1>3. CASE n # 0 /\ d < e
  BY <1>3, ScaleDown
<1> QED
  BY <1>1, <1>2, <1>3
-----------------------------------------------------------------------------
(* A largest number of a set that is not empty. *)
LEMMA MaxOfSome ==
    ASSUME NEW e \in Nat, NEW K \in SUBSET (0 .. e), K # {}
    PROVE  Max(K) \in K /\ \A k \in K : k <= Max(K)
<1> DEFINE T == {e - k : k \in K}
<1>1. T \in SUBSET Nat /\ T # {}
  <2>1. \A k \in K : e - k \in Nat
    OBVIOUS
  <2> QED
    BY <2>1
<1>2. PICK t \in T : \A u \in T : t <= u
  BY <1>1, LeastNatural
<1>3. PICK k \in K : t = e - k
  OBVIOUS
<1>4. ASSUME NEW m \in K PROVE k >= m
  <2>1. e - m \in T
    OBVIOUS
  <2>2. e - k <= e - m
    BY <1>2, <1>3, <2>1
  <2> QED
    BY <2>2
<1>5. \E x \in K : \A y \in K : x >= y
  BY <1>4
<1>6. Max(K) \in K /\ \A y \in K : Max(K) >= y
  BY <1>5 DEF Max
<1> QED
  BY <1>6

(* padStart() does not change the value. *)
LEMMA PadStartIs ==
    ASSUME NEW s \in Numerals, NEW n \in Nat
    PROVE  /\ PadStart(s, n) \in Numerals /\ Value[PadStart(s, n)] = Value[s]
           /\ Len(PadStart(s, n)) = IF Len(s) < n THEN n ELSE Len(s)
<1> DEFINE z == Zeros(n - Len(s))
<1>1. Len(s) \in Nat /\ n - Len(s) \in Int
  BY DEF Numerals
<1>2. /\ z \in Numerals /\ Len(z) = IF n - Len(s) > 0 THEN n - Len(s) ELSE 0
      /\ \A i \in 1 .. n - Len(s) : z[i] = 0
  BY <1>1, ZerosAre
<1> HIDE DEF z
<1>3. PadStart(s, n) = z \o s
  BY DEF PadStart, z
<1>4. z \o s \in Numerals /\ Len(z \o s) = Len(z) + Len(s)
  BY <1>2, ConcatProperties DEF Numerals
<1>5. Value[z] = 0
  <2>1. \A i \in 1 .. Len(z) : z[i] = 0
    BY <1>1, <1>2
  <2> QED
    BY <1>2, <2>1, ValueZeros
<1>6. Value[z \o s] = Value[z] * TenTo[Len(s)] + Value[s]
  BY <1>2, ValueConcat
<1>7. TenTo[Len(s)] \in Nat /\ Value[s] \in Nat
  BY <1>1, TenToPositive, ValueDef
<1>8. Value[z \o s] = Value[s]
  BY <1>5, <1>6, <1>7
<1>9. Len(z) + Len(s) = IF Len(s) < n THEN n ELSE Len(s)
  BY <1>1, <1>2
<1> QED
  BY <1>3, <1>4, <1>8, <1>9

(* padEnd() keeps the digits and adds zeros. *)
LEMMA PadEndIs ==
    ASSUME NEW s \in Numerals, NEW n \in Nat
    PROVE  /\ PadEnd(s, n) \in Numerals
           /\ Len(PadEnd(s, n)) = IF Len(s) < n THEN n ELSE Len(s)
           /\ \A i \in 1 .. Len(PadEnd(s, n)) :
                 PadEnd(s, n)[i] = IF i <= Len(s) THEN s[i] ELSE 0
<1> DEFINE z == Zeros(n - Len(s))
           t == PadEnd(s, n)
<1>1. Len(s) \in Nat /\ n - Len(s) \in Int
  BY DEF Numerals
<1>2. /\ z \in Numerals /\ Len(z) = IF n - Len(s) > 0 THEN n - Len(s) ELSE 0
      /\ \A i \in 1 .. n - Len(s) : z[i] = 0
  BY <1>1, ZerosAre
<1>3. t = s \o z
  BY DEF PadEnd
<1> HIDE DEF z, t
<1>4. /\ t \in Numerals /\ Len(t) = Len(s) + Len(z)
      /\ \A i \in 1 .. Len(s) + Len(z) : t[i] = IF i <= Len(s) THEN s[i] ELSE z[i - Len(s)]
  BY <1>2, <1>3, ConcatProperties DEF Numerals
<1>5. Len(t) = IF Len(s) < n THEN n ELSE Len(s)
  BY <1>1, <1>2, <1>4
<1>6. ASSUME NEW i \in 1 .. Len(t) PROVE t[i] = IF i <= Len(s) THEN s[i] ELSE 0
  <2>1. CASE i <= Len(s)
    BY <1>4, <2>1
  <2>2. CASE ~ (i <= Len(s))
    <3>1. i - Len(s) \in 1 .. n - Len(s)
      BY <1>1, <1>5, <2>2
    <3> QED
      BY <1>2, <1>4, <2>2, <3>1
  <2> QED
    BY <2>1, <2>2
<1> QED
  BY <1>4, <1>5, <1>6 DEF t

(* What is shown before and after the point, with as many decimals as there are, has the
   value of the amount. *)
LEMMA Shown ==
    ASSUME NEW n \in Nat, NEW e \in Nat
    PROVE  LET s == Digits[n]
               w == UpTo(s, Len(s) - e)
               p == PadStart(From(s, Len(s) - e), e)
           IN  /\ w \in Numerals /\ p \in Numerals /\ Len(p) = e
               /\ n = Value[w] * TenTo[e] + Value[p]
<1> DEFINE s == Digits[n]
           w == UpTo(s, Len(s) - e)
           p == PadStart(From(s, Len(s) - e), e)
           c == Len(s) - e
           r == From(s, c)
<1>1. s \in Numerals /\ Len(s) \in Nat /\ Value[s] = n
  BY DigitsCanonical DEF Canonical, Numerals
<1> HIDE DEF s
<1>2. c \in Int /\ c <= Len(s)
  BY <1>1
<1>3. w \in Numerals /\ r \in Numerals
  BY <1>1, <1>2, UpToIs, FromIs
<1>4. /\ p \in Numerals /\ Value[p] = Value[r]
      /\ Len(p) = IF Len(r) < e THEN e ELSE Len(r)
  BY <1>3, PadStartIs
<1> HIDE DEF r, c, w, p
<1>5. ASSUME c >= 0
      PROVE  /\ w \in Numerals /\ p \in Numerals /\ Len(p) = e
             /\ n = Value[w] * TenTo[e] + Value[p]
  <2>1. c \in 0 .. Len(s)
    BY <1>1, <1>2, <1>5
  <2>2. Len(r) = Len(s) - c /\ s = w \o r
    BY <1>1, <2>1, SplitAt DEF r, c, w
  <2>3. Len(r) = e
    BY <1>1, <2>2 DEF c
  <2>4. Value[s] = Value[w] * TenTo[e] + Value[r]
    BY <1>3, <2>2, <2>3, ValueConcat
  <2> QED
    BY <1>1, <1>3, <1>4, <2>3, <2>4
<1>6. ASSUME c < 0
      PROVE  /\ w \in Numerals /\ p \in Numerals /\ Len(p) = e
             /\ n = Value[w] * TenTo[e] + Value[p]
  <2>1. /\ Len(w) = 0 /\ Len(r) = Len(s)
        /\ \A k \in 1 .. Len(r) : r[k] = s[k]
    <3>1. ~ (c > 0)
      BY <1>2, <1>6
    <3>2. Len(w) = 0
      BY <1>1, <1>2, <3>1, UpToIs DEF c, w
    <3> QED
      BY <1>1, <1>2, <3>1, <3>2, FromIs DEF r
  <2>2. r = s
    BY <1>1, <1>3, <2>1, SeqEqual DEF Numerals
  <2>3. w = << >>
    BY <1>3, <2>1, EmptySeq DEF Numerals
  <2>4. Len(p) = e
    BY <1>1, <1>4, <1>6, <2>1 DEF c
  <2>5. Value[w] * TenTo[e] = 0
    <3>1. TenTo[e] \in Nat /\ Value[w] = 0
      BY <2>3, ValueDef, TenToPositive
    <3> QED
      BY <3>1
  <2> QED
    BY <1>1, <1>3, <1>4, <2>2, <2>4, <2>5
<1>7. /\ w \in Numerals /\ p \in Numerals /\ Len(p) = e
      /\ n = Value[w] * TenTo[e] + Value[p]
  <2>1. c >= 0 \/ c < 0
    BY <1>2
  <2> QED
    BY <1>5, <1>6, <2>1
<1> QED
  BY <1>7 DEF s, w, p

(* parse() gives back what display() shows, at every precision. *)
LEMMA DisplayIsParsed ==
    ASSUME NEW n \in Nat, NEW e \in Nat, NEW precision \in Nat,
           NEW a, a = FromBaseUnits(n, e), NEW shown, shown = Display(a, precision)
    PROVE  Parses(shown, e) /\ Parse(shown, e) = a
<1> DEFINE s == a.amount
           w == UpTo(s, Len(s) - e)
           p == PadStart(From(s, Len(s) - e), e)
           K == {Min({precision, Len(p)})} \cup {i \in DOMAIN p : p[i] # 0}
           kept == Max(K)
           u == UpTo(p, kept)
           q == PadEnd(u, precision)
           z == PadEnd(q, e)
<1>1. s = Digits[n] /\ a.decimals = e
  BY OfBaseUnits
<1>2. shown.whole = PadStart(w, 1) /\ shown.partial = q
  BY <1>1 DEF Display
<1> HIDE DEF s, w, p
<1>3. w \in Numerals /\ p \in Numerals /\ Len(p) = e /\ n = Value[w] * TenTo[e] + Value[p]
  BY <1>1, Shown DEF w, p
<1>4. /\ kept \in 0 .. e
      /\ \A i \in 1 .. e : i > kept => p[i] = 0
  <2>1. DOMAIN p = 1 .. e
    BY <1>3 DEF Numerals
  <2>2. Min({precision, Len(p)}) \in 0 .. e
    BY <1>3, MinOf
  <2>3. K \in SUBSET (0 .. e) /\ K # {}
    BY <2>1, <2>2
  <2>4. kept \in K /\ \A k \in K : k <= kept
    <3> HIDE DEF K
    <3> QED
      BY <2>3, MaxOfSome
  <2>5. ASSUME NEW i \in 1 .. e, i > kept PROVE p[i] = 0
    <3> SUFFICES ASSUME p[i] # 0 PROVE FALSE
      OBVIOUS
    <3>1. i \in K
      BY <2>1
    <3>2. i <= kept
      BY <2>4, <3>1
    <3>3. kept \in Int
      BY <2>3, <2>4
    <3> HIDE DEF kept
    <3> QED
      BY <2>5, <3>2, <3>3
  <2> HIDE DEF kept, K
  <2> QED
    BY <2>3, <2>4, <2>5
<1> HIDE DEF kept, K
<1>5. u \in Numerals /\ Len(u) = kept /\ \A i \in 1 .. kept : u[i] = p[i]
  <2>1. kept \in Int /\ kept <= Len(p)
    BY <1>3, <1>4
  <2> QED
    BY <1>3, <1>4, <2>1, UpToIs
<1> HIDE DEF u
<1>6. /\ q \in Numerals /\ Len(q) = IF kept < precision THEN precision ELSE kept
      /\ \A i \in 1 .. Len(q) : q[i] = IF i <= kept THEN u[i] ELSE 0
  BY <1>5, PadEndIs
<1> HIDE DEF q
<1>7. /\ z \in Numerals /\ Len(z) = IF Len(q) < e THEN e ELSE Len(q)
      /\ \A i \in 1 .. Len(z) : z[i] = IF i <= Len(q) THEN q[i] ELSE 0
  BY <1>6, PadEndIs
<1> HIDE DEF z
<1>8. Len(q) \in Nat /\ Len(z) \in Nat /\ Len(z) >= e /\ kept <= Len(q)
  BY <1>4, <1>6, <1>7
<1>9. ASSUME NEW i \in 1 .. Len(z) PROVE z[i] = IF i <= kept THEN p[i] ELSE 0
  <2>1. CASE i <= kept
    <3>1. i \in 1 .. kept /\ i \in 1 .. Len(q) /\ i <= Len(q)
      BY <1>4, <1>8, <2>1
    <3> QED
      BY <1>5, <1>6, <1>7, <2>1, <3>1
  <2>2. CASE ~ (i <= kept) /\ i <= Len(q)
    <3>1. i \in 1 .. Len(q)
      BY <1>8, <2>2
    <3> QED
      BY <1>6, <1>7, <2>2, <3>1
  <2>3. CASE ~ (i <= kept) /\ ~ (i <= Len(q))
    BY <1>7, <2>3
  <2> QED
    BY <2>1, <2>2, <2>3
<1>10. UpTo(z, e) = p
  <2> DEFINE v == UpTo(z, e)
  <2>1. v \in Numerals /\ Len(v) = e /\ \A i \in 1 .. e : v[i] = z[i]
    BY <1>7, <1>8, UpToIs
  <2>2. ASSUME NEW i \in 1 .. e PROVE v[i] = p[i]
    <3>1. i \in 1 .. Len(z)
      BY <1>8
    <3>2. CASE i <= kept
      BY <1>9, <2>1, <3>1, <3>2
    <3>3. CASE ~ (i <= kept)
      <4>1. p[i] = 0
        BY <1>4, <3>3
      <4> QED
        BY <1>9, <2>1, <3>1, <3>3, <4>1
    <3> QED
      BY <3>2, <3>3
  <2> HIDE DEF v
  <2>3. v = p
    BY <1>3, <2>1, <2>2, SeqEqual DEF Numerals
  <2> QED
    BY <2>3 DEF v
<1>11. Value[From(z, e)] = 0
  <2> DEFINE v == From(z, e)
  <2>1. /\ v \in Numerals /\ Len(v) = Len(z) - e
        /\ \A i \in 1 .. Len(v) : v[i] = z[e + i]
    <3>1. /\ v \in Numerals /\ Len(v) = IF e > 0 THEN Len(z) - e ELSE Len(z)
          /\ \A i \in 1 .. Len(v) : v[i] = IF e > 0 THEN z[e + i] ELSE z[i]
      BY <1>7, <1>8, FromIs
    <3> HIDE DEF v
    <3>2. CASE e > 0
      BY <3>1, <3>2
    <3>3. CASE e = 0
      <4>1. Len(v) = Len(z) /\ \A i \in 1 .. Len(v) : v[i] = z[i]
        BY <3>1, <3>3
      <4> QED
        BY <1>8, <3>1, <3>3, <4>1
    <3> QED
      BY <3>2, <3>3
  <2> HIDE DEF v
  <2>2. ASSUME NEW i \in 1 .. Len(v) PROVE v[i] = 0
    <3>1. e + i \in 1 .. Len(z) /\ ~ (e + i <= kept)
      BY <1>4, <1>8, <2>1
    <3> QED
      BY <1>9, <2>1, <3>1
  <2>3. Value[v] = 0
    BY <2>1, <2>2, ValueZeros
  <2> QED
    BY <2>3 DEF v
<1>12. Parses(shown, e)
  BY <1>2, <1>11 DEF Parses, z
<1>13. Parse(shown, e) = FromBaseUnits(Value[PadStart(w, 1) \o p], e)
  BY <1>2, <1>10 DEF Parse, z
<1>14. Value[PadStart(w, 1) \o p] = n
  <2>1. PadStart(w, 1) \in Numerals /\ Value[PadStart(w, 1)] = Value[w]
    BY <1>3, PadStartIs
  <2> QED
    BY <1>3, <2>1, ValueConcat
<1> QED
  BY <1>12, <1>13, <1>14
-----------------------------------------------------------------------------
(* What truncate() leaves of n, of e decimals, for the bridge. *)
CutTo(n, e, m) == (n \div TenTo[e - Min({e, m})]) * TenTo[e - Min({e, m})]

(* n is a multiple of D. *)
Multiple(n, D) == \E k \in 0 .. n : n = k * D

(* A multiple divided. *)
LEMMA MultipleOf ==
    ASSUME NEW k \in Nat, NEW D \in Nat \ {0}
    PROVE  k * D \in Nat /\ Multiple(k * D, D) /\ (k * D) \div D = k
<1>1. k * D \in Nat /\ k <= k * D /\ k * D = D * k
  <2>1. \A a \in Nat, b \in Nat \ {0} : a * b \in Nat /\ a <= a * b /\ a * b = b * a
    OBVIOUS
  <2> QED
    BY <2>1
<1>2. k * D = k * D + 0
  BY <1>1
<1>3. (k * D) \div D = k
  BY <1>1, <1>2, Division
<1> QED
  BY <1>1, <1>3 DEF Multiple

(* What is left is a multiple, and less than one of it is lost. *)
LEMMA CutIs ==
    ASSUME NEW n \in Nat, NEW e \in Nat, NEW m \in Nat,
           NEW D, D = TenTo[e - Min({e, m})]
    PROVE  /\ D \in Nat \ {0}
           /\ CutTo(n, e, m) \in Nat /\ Multiple(CutTo(n, e, m), D)
           /\ CutTo(n, e, m) <= n /\ n - CutTo(n, e, m) < D
           /\ Multiple(n, D) => CutTo(n, e, m) = n
<1>1. D \in Nat \ {0}
  <2>1. e - Min({e, m}) \in Nat
    BY MinOf
  <2> QED
    BY <2>1, TenToPositive
<1>2. CutTo(n, e, m) = (n \div D) * D
  BY DEF CutTo
<1> DEFINE q == n \div D
           r == n % D
<1>3. q \in Nat /\ r \in Nat /\ r < D /\ n = q * D + r
  BY <1>1, DivisionIs
<1>4. q * D \in Nat /\ Multiple(q * D, D)
  BY <1>1, <1>3, MultipleOf
<1>5. ASSUME Multiple(n, D) PROVE q * D = n
  <2>1. PICK k \in 0 .. n : n = k * D
    BY <1>5 DEF Multiple
  <2>2. n \div D = k
    BY <1>1, <2>1, MultipleOf
  <2> QED
    BY <2>1, <2>2
<1> HIDE DEF q, r
<1> QED
  BY <1>1, <1>2, <1>3, <1>4, <1>5 DEF q

(* truncate() is that, on every amount. *)
LEMMA Truncated ==
    ASSUME NEW n \in Nat, NEW e \in Nat, NEW m \in Nat
    PROVE  Truncate(FromBaseUnits(n, e), m) = FromBaseUnits(CutTo(n, e, m), e)
<1> DEFINE a == FromBaseUnits(n, e)
<1>1. Units(a) = n /\ a.decimals = e
  BY OfBaseUnits
<1>2. Min({e, m}) = IF e <= m THEN e ELSE m
  BY MinOf
<1> HIDE DEF a
<1>3. CASE e <= m
  <2>1. Truncate(a, m) = a
    BY <1>1, <1>3 DEF Truncate
  <2>2. e - Min({e, m}) = 0
    BY <1>2, <1>3
  <2>3. CutTo(n, e, m) = (n \div 1) * 1
    BY <2>2, TenToDef DEF CutTo
  <2>4. CutTo(n, e, m) = n
    BY <2>3
  <2> QED
    BY <2>1, <2>4 DEF a
<1>4. CASE ~ (e <= m)
  <2>1. e - Min({e, m}) = e - m
    BY <1>2, <1>4
  <2> DEFINE D == TenTo[e - m]
  <2>2. CutTo(n, e, m) = (n \div D) * D
    BY <2>1 DEF CutTo
  <2>3. TenTo[a.decimals - m] = D
    BY <1>1
  <2>4. Truncate(a, m) = FromBaseUnits((n \div D) * D, e)
    <3> HIDE DEF D
    <3> QED
      BY <1>1, <1>4, <2>3 DEF Truncate
  <2> HIDE DEF D
  <2>5. Truncate(a, m) = FromBaseUnits(CutTo(n, e, m), e)
    BY <2>2, <2>4
  <2> QED
    BY <2>5 DEF a
<1> QED
  BY <1>3, <1>4 DEF a

(* parse() makes an amount of base units. *)
LEMMA ParseIs ==
    ASSUME NEW t, t.whole \in Numerals, t.partial \in Numerals, NEW d \in Nat
    PROVE  \E k \in Nat : Parse(t, d) = FromBaseUnits(k, d)
<1> DEFINE q == PadEnd(t.partial, d)
           u == UpTo(q, d)
<1>1. q \in Numerals /\ Len(q) = IF Len(t.partial) < d THEN d ELSE Len(t.partial)
  BY PadEndIs
<1>2. Len(t.partial) \in Nat
  BY DEF Numerals
<1>3. u \in Numerals
  BY <1>1, <1>2, UpToIs
<1> HIDE DEF u
<1>4. t.whole \o u \in Numerals
  BY <1>3 DEF Numerals
<1>5. Value[t.whole \o u] \in Nat
  BY <1>4, ValueDef
<1> QED
  BY <1>5 DEF Parse, u

(* s parts of m out of N. *)
Share(m, s, N) == (m * s) \div N

(* A share is not more than the whole. *)
LEMMA ShareOf ==
    ASSUME NEW m \in Nat, NEW N \in Nat \ {0}, NEW s \in 0 .. N
    PROVE  Share(m, s, N) \in 0 .. m
<1> DEFINE x == m * s
           q == x \div N
           r == x % N
<1>1. x \in Nat /\ x <= m * N
  <2>1. s * m <= N * m /\ s * m = m * s /\ m * s \in Nat /\ N * m = m * N
    BY Products
  <2> QED
    BY <2>1
<1> HIDE DEF x
<1>2. q \in Nat /\ r \in Nat /\ x = q * N + r
  BY <1>1, DivisionIs
<1> HIDE DEF q, r
<1>3. q <= m
  <2> SUFFICES ASSUME m < q PROVE FALSE
    BY <1>2
  <2>1. m * N < q * N /\ m * N \in Nat /\ q * N \in Nat
    BY <1>2, Products
  <2> QED
    BY <1>1, <1>2, <2>1
<1> QED
  BY <1>2, <1>3 DEF q, x, Share

(* What the bridge can carry has a whole number of base units on the other side. *)
LEMMA Rescaled ==
    ASSUME NEW s \in Nat, NEW d \in Nat, NEW w \in Nat, w <= s, w <= d, NEW k \in Nat
    PROVE  /\ ((k * TenTo[s - w]) * TenTo[d]) % TenTo[s] = 0
           /\ ((k * TenTo[s - w]) * TenTo[d]) \div TenTo[s] = k * TenTo[d - w]
           /\ (k * TenTo[s - w]) * TenTo[d] = (k * TenTo[d - w]) * TenTo[s]
<1> DEFINE D == TenTo[s - w]
           E == TenTo[d - w]
           W == TenTo[w]
           S == TenTo[s]
           T == TenTo[d]
<1>1. /\ D \in Nat \ {0} /\ E \in Nat \ {0} /\ W \in Nat \ {0}
      /\ S \in Nat \ {0} /\ T \in Nat \ {0}
  <2>1. s - w \in Nat /\ d - w \in Nat
    OBVIOUS
  <2> QED
    BY <2>1, TenToPositive
<1>2. S = D * W /\ T = E * W
  <2>1. s - w \in Nat /\ d - w \in Nat /\ (s - w) + w = s /\ (d - w) + w = d
    OBVIOUS
  <2> QED
    BY <2>1, TenToPlus
<1> HIDE DEF D, E, W, S, T
<1>3. (k * D) * T = (k * E) * S
  <2>1. \A a, b, c, f \in Nat : (a * b) * (c * f) = (a * c) * (b * f)
    OBVIOUS
  <2> QED
    BY <1>1, <1>2, <2>1
<1>4. k * E \in Nat /\ (k * E) * S \in Nat /\ (k * E) * S = (k * E) * S + 0
  BY <1>1, Products
<1>5. ((k * E) * S) \div S = k * E /\ ((k * E) * S) % S = 0
  <2> DEFINE q == k * E
             n == q * S
  <2>1. q \in Nat /\ n \in Nat /\ n = q * S + 0
    BY <1>4
  <2> HIDE DEF q, n
  <2>2. n \div S = q /\ n % S = 0
    BY <1>1, <2>1, Division
  <2> QED
    BY <2>2 DEF q, n
<1> QED
  BY <1>3, <1>5 DEF D, E, S, T
-----------------------------------------------------------------------------
(* The amount that was asked for, what quoteTransfer() keeps of it, and the number of base
   units that are too few for the bridge to carry. *)
Asked == Units(params.amount)
Kept  == Units(SrcAmountTruncated)
Dust  == TenTo[source - WireDecimals]
Carriable(n) == Multiple(n, Dust)

(* Before validate() has accepted, after quote() has answered, and the routes that go
   through quoteTransfer(). *)
Unvalidated == phase \in {"asked", "unparsed", "too little"}
Settled     == phase \in {"quoted", "initiated", "reverted"}
TransferRoute       == route \in {"TokenBridge", "ExecutorTokenBridge"}

(* The request, and what the world may be. *)
RequestInv == /\ route \in EveryRoute
              /\ source \in Nat /\ destination \in Nat
              /\ IF IsCCTP THEN source = destination
                           ELSE WireDecimals = Min({destination, MaxDecimals})
              /\ native \in BOOLEAN
              /\ text \in Texts
              /\ gasShare \in 0 .. 10000
              /\ relayerFee \in RelayerFees /\ limit \in Limits

(* What validate() has accepted leaves something for the recipient. *)
ParamsInv == /\ Asked \in Nat
             /\ params.amount = FromBaseUnits(Asked, IF Unvalidated THEN 0 ELSE source)
             /\ Unvalidated => params = NoParams /\ quote = NoQuote
             /\ params.fee \in Nat /\ params.gas \in Nat
             /\ IF route = "AutomaticCCTP"
                THEN ~ Unvalidated => params.fee + params.gas < Asked
                ELSE params.fee = 0 /\ params.gas = 0

(* What each kind of route promises, in terms of the amount it was asked for. *)
TransferQuoted == /\ quote.source = Kept /\ quote.decimals = destination /\ quote.fee = 0
                  /\ quote.destination = ((Kept - quote.referrer) * TenTo[destination])
                                             \div TenTo[source]
                  /\ quote.referrer <= Kept /\ Carriable(quote.referrer)
                  /\ route = "TokenBridge" => quote.referrer = 0

TbtcQuoted == /\ quote.source = Asked /\ quote.destination = Asked
              /\ quote.decimals = source /\ quote.fee = 0 /\ quote.referrer = 0

CircleQuoted == /\ quote.source = Asked /\ quote.decimals = destination
                /\ quote.destination = Asked - params.gas - quote.fee
                /\ quote.referrer = 0
                /\ IF route = "CCTP" THEN quote.fee = 0 ELSE quote.fee \in RelayerFees

Quoted == /\ TransferRoute => TransferQuoted
          /\ route = "TBTC" => TbtcQuoted
          /\ IsCCTP => CircleQuoted

(* There is no quote yet, or it is one of its route: params do not change after it. *)
QuoteInv == /\ quote.referrer \in Nat /\ quote.nativeFee \in Nat /\ quote.cost \in Nat
            /\ quote.referrer > 0 => quote.refers
            /\ quote = NoQuote \/ Quoted
            /\ Settled => Quoted

(* What the relayer keeps. *)
Keeps == IF route = "AutomaticCCTP" THEN relayerFee + params.gas ELSE 0

(* Where the calls may end, and what initiate() did. *)
OutcomeInv ==
    /\ phase # "unscaled"
    /\ phase = "quoting" => route = "ExecutorTokenBridge"
    /\ phase = "reverted" => Reverts
    /\ phase = "initiated" =>
          /\ ~ Reverts
          /\ paid = Carried(BridgedAmount) + quote.referrer + OnTop
          /\ received = ((Carried(BridgedAmount) - Keeps) * TenTo[destination])
                             \div TenTo[source]

(* The inductive invariant behind the six theorems. *)
QInv == RequestInv /\ ParamsInv /\ QuoteInv /\ OutcomeInv
-----------------------------------------------------------------------------
(* The decimals of the VAA are not more than those of either token. *)
LEMMA Wire ==
    ASSUME RequestInv
    PROVE  /\ source \in Nat /\ destination \in Nat /\ MaxDecimals \in Nat
           /\ WireDecimals \in Nat /\ WireDecimals <= source
           /\ Dust \in Nat \ {0} /\ Dust * TenTo[WireDecimals] = TenTo[source]
           /\ ~ IsCCTP => WireDecimals <= destination
<1>1. source \in Nat /\ destination \in Nat /\ MaxDecimals \in Nat
  BY UnitsAssumption DEF RequestInv, UnitsAssumption
<1>2. WireDecimals = IF source <= MaxDecimals THEN source ELSE MaxDecimals
  BY <1>1, MinOf DEF WireDecimals
<1>3. ~ IsCCTP => WireDecimals <= destination
  <2>1. Min({destination, MaxDecimals}) <= destination
    BY <1>1, MinOf
  <2> QED
    BY <2>1 DEF RequestInv
<1>4. source - WireDecimals \in Nat /\ (source - WireDecimals) + WireDecimals = source
      /\ WireDecimals \in Nat
  BY <1>1, <1>2
<1>5. Dust \in Nat \ {0} /\ Dust * TenTo[WireDecimals] = TenTo[source]
  BY <1>4, TenToPositive, TenToPlus DEF Dust
<1> QED
  BY <1>1, <1>2, <1>3, <1>4, <1>5

(* The amounts behind a quote, in terms of the one that was asked for. *)
LEMMA KeptIs ==
    ASSUME RequestInv, ParamsInv
    PROVE  /\ Asked \in Nat /\ Kept \in Nat /\ Kept <= Asked
           /\ \E e \in Nat : /\ params.amount = FromBaseUnits(Asked, e)
                             /\ SrcAmountTruncated = FromBaseUnits(Kept, e)
           /\ ~ Unvalidated => /\ params.amount = FromBaseUnits(Asked, source)
                               /\ SrcAmountTruncated = FromBaseUnits(Kept, source)
                               /\ Kept = CutTo(Asked, source, MaxDecimals)
                               /\ Carriable(Kept) /\ Asked - Kept < Dust
<1> DEFINE e == IF Unvalidated THEN 0 ELSE source
           D == TenTo[e - Min({e, MaxDecimals})]
           c == CutTo(Asked, e, MaxDecimals)
<1>1. /\ e \in Nat /\ MaxDecimals \in Nat /\ Asked \in Nat
      /\ params.amount = FromBaseUnits(Asked, e)
  BY Wire DEF ParamsInv
<1>2. ~ Unvalidated => e = source
  OBVIOUS
<1> HIDE DEF e
<1>3. c \in Nat /\ Multiple(c, D) /\ c <= Asked /\ Asked - c < D
  BY <1>1, CutIs
<1>4. SrcAmountTruncated = FromBaseUnits(c, e)
  BY <1>1, Truncated DEF SrcAmountTruncated
<1> HIDE DEF c, D
<1>5. Kept = c
  BY <1>1, <1>3, <1>4, OfBaseUnits DEF Kept
<1>6. e = source => D = Dust
  BY DEF D, Dust, WireDecimals
<1>7. ~ Unvalidated => c = CutTo(Asked, source, MaxDecimals)
  BY <1>2 DEF c
<1> QED
  BY <1>1, <1>2, <1>3, <1>4, <1>5, <1>6, <1>7 DEF Carriable

(* The bridge takes what quoteTransfer() would keep, and all of it if it can carry it. *)
LEMMA CarriedIs ==
    ASSUME RequestInv, NEW n \in Nat
    PROVE  /\ IsCCTP => Carried(n) = n
           /\ ~ IsCCTP => /\ Carried(n) = CutTo(n, source, MaxDecimals)
                          /\ Carried(n) \in Nat /\ Carriable(Carried(n)) /\ Carried(n) <= n
                          /\ Carriable(n) => Carried(n) = n
<1>1. source \in Nat /\ MaxDecimals \in Nat
  BY Wire
<1> DEFINE c == CutTo(n, source, MaxDecimals)
<1>2. Dust = TenTo[source - Min({source, MaxDecimals})]
  BY DEF Dust, WireDecimals
<1>3. /\ c \in Nat /\ Multiple(c, Dust) /\ c <= n
      /\ Multiple(n, Dust) => c = n
  BY <1>1, <1>2, CutIs
<1>4. Truncate(FromBaseUnits(n, source), MaxDecimals) = FromBaseUnits(c, source)
  BY <1>1, Truncated
<1> HIDE DEF c
<1>5. Units(Truncate(FromBaseUnits(n, source), MaxDecimals)) = c
  BY <1>1, <1>3, <1>4, OfBaseUnits
<1>6. ~ IsCCTP => Carried(n) = c
  BY <1>5 DEF Carried
<1>7. IsCCTP => Carried(n) = n
  BY DEF Carried
<1> QED
  BY <1>3, <1>6, <1>7 DEF Carriable, c

(* What can be carried is scaled without a remainder. *)
LEMMA CarriableScales ==
    ASSUME RequestInv, ~ IsCCTP, NEW n \in Nat, Carriable(n), NEW m,
           m = (n * TenTo[destination]) \div TenTo[source]
    PROVE  /\ Scales(FromBaseUnits(n, source), destination)
           /\ Scale(FromBaseUnits(n, source), destination) = FromBaseUnits(m, destination)
           /\ m \in Nat /\ m * TenTo[source] = n * TenTo[destination]
<1>1. /\ source \in Nat /\ destination \in Nat /\ WireDecimals \in Nat
      /\ WireDecimals <= source /\ WireDecimals <= destination
  BY Wire
<1>2. PICK k \in Nat : n = k * TenTo[source - WireDecimals]
  BY DEF Carriable, Multiple, Dust
<1> DEFINE w == WireDecimals
           E == TenTo[destination - w]
<1>3. /\ (n * TenTo[destination]) % TenTo[source] = 0
      /\ m = k * E
      /\ n * TenTo[destination] = (k * E) * TenTo[source]
  BY <1>1, <1>2, Rescaled
<1>4. m \in Nat
  <2>1. destination - w \in Nat
    BY <1>1
  <2>2. E \in Nat
    BY <2>1, TenToPositive
  <2> QED
    BY <1>3, <2>2, Products
<1>5. Exact(n, source, destination)
  BY <1>1, ScaleExact
<1> QED
  BY <1>3, <1>4, <1>5 DEF Exact

(* The difference of two multiples is one. *)
LEMMA MultipleMinus ==
    ASSUME NEW a \in Nat, NEW b \in Nat, NEW D \in Nat \ {0}, b <= a,
           Multiple(a, D), Multiple(b, D)
    PROVE  a - b \in Nat /\ Multiple(a - b, D)
<1>1. PICK i \in 0 .. a : a = i * D
  BY DEF Multiple
<1>2. PICK j \in 0 .. b : b = j * D
  BY DEF Multiple
<1>3. j <= i
  <2> SUFFICES ASSUME i < j PROVE FALSE
    BY <1>1, <1>2
  <2>1. i * D < j * D
    BY Products, <1>1, <1>2
  <2> QED
    BY <1>1, <1>2, <2>1
<1>4. i - j \in Nat /\ (i - j) * D = a - b
  BY <1>1, <1>2, <1>3
<1> QED
  BY <1>4, MultipleOf
-----------------------------------------------------------------------------
(* The amounts do not change as long as the request and the params do not. *)
LEMMA SameParams ==
    ASSUME UNCHANGED <<request, params>>
    PROVE  /\ Asked' = Asked /\ Kept' = Kept /\ Dust' = Dust
           /\ IsCCTP' <=> IsCCTP
           /\ TransferRoute' <=> TransferRoute
           /\ \A n : Carriable(n)' <=> Carriable(n)
<1>1. /\ route' = route /\ source' = source /\ destination' = destination
      /\ params' = params
  BY DEF request
<1>2. Asked' = Asked /\ Kept' = Kept
  BY <1>1 DEF Asked, Kept, SrcAmountTruncated
<1>3. Dust' = Dust
  BY <1>1 DEF Dust, WireDecimals
<1> QED
  BY <1>1, <1>2, <1>3 DEF IsCCTP, TransferRoute, Carriable

(* Nor does what makes a quote one of its route. *)
LEMMA SameQuote ==
    ASSUME UNCHANGED <<request, params, quote>>
    PROVE  Quoted' <=> Quoted
<1>1. /\ route' = route /\ source' = source /\ destination' = destination
      /\ params' = params /\ quote' = quote
  BY DEF request
<1>2. /\ Asked' = Asked /\ Kept' = Kept
      /\ IsCCTP' <=> IsCCTP
      /\ TransferRoute' <=> TransferRoute
      /\ Carriable(quote.referrer)' <=> Carriable(quote.referrer)
  BY SameParams, <1>1 DEF Carriable, Dust, WireDecimals
<1> QED
  BY <1>1, <1>2 DEF Quoted, TransferQuoted, TbtcQuoted, CircleQuoted

(* The request is never changed. *)
LEMMA KeepsRequest ==
    ASSUME RequestInv, UNCHANGED request, relayerFee' \in RelayerFees, limit' \in Limits
    PROVE  RequestInv'
<1>1. /\ route' = route /\ source' = source /\ destination' = destination
      /\ native' = native /\ text' = text /\ gasShare' = gasShare
  BY DEF request
<1>2. (IsCCTP' <=> IsCCTP) /\ WireDecimals' = WireDecimals
  BY <1>1 DEF IsCCTP, WireDecimals
<1> QED
  BY <1>1, <1>2 DEF RequestInv

(* The params change in validate() only. *)
LEMMA KeepsParams ==
    ASSUME ParamsInv, UNCHANGED <<request, params>>, Unvalidated' <=> Unvalidated,
           Unvalidated => UNCHANGED quote
    PROVE  ParamsInv'
<1>1. route' = route /\ source' = source /\ params' = params /\ Asked' = Asked
  BY SameParams DEF request
<1> QED
  BY <1>1 DEF ParamsInv, NoParams, NoQuote
-----------------------------------------------------------------------------
(* The assumptions about the constants, one by one. *)
LEMMA ConstantsAre ==
    /\ \A r \in Routes : r \in EveryRoute
    /\ MaxDecimals \in Nat /\ MessageFee \in Nat
    /\ \A d \in Decimals : d \in Nat
    /\ \A t \in Texts : t.whole \in Numerals /\ t.partial \in Numerals
    /\ \A s \in GasShares : s \in 0 .. 10000
    /\ \A l \in Limits : l \in Nat
    /\ \A n \in DeciBps \cup NativeFees \cup Costs : n \in Nat
    /\ \A fee \in RelayerFees : fee \in Nat /\ fee >= 20
<1>1. \A r \in Routes : r \in EveryRoute
  BY RoutesAssumption DEF RoutesAssumption
<1>2. MaxDecimals \in Nat /\ MessageFee \in Nat
  BY UnitsAssumption DEF UnitsAssumption
<1>3. \A n \in Decimals \union Limits \union DeciBps \union NativeFees \union Costs : n \in Nat
  BY UnitsAssumption DEF UnitsAssumption
<1>4. \A t \in Texts : t.whole \in Numerals /\ t.partial \in Numerals
  BY TextsAssumption DEF TextsAssumption, Numerals
<1>5. \A s \in GasShares : s \in 0 .. 10000
  BY SMTT(30), SharesAssumption DEF SharesAssumption
<1>6. \A fee \in RelayerFees : fee \in Nat /\ fee >= 20
  BY FeesAssumption DEF FeesAssumption
<1> QED
  BY <1>1, <1>2, <1>3, <1>4, <1>5, <1>6

(* What every state has of the world. *)
LEMMA WorldIs == QInv => relayerFee \in RelayerFees /\ limit \in Limits /\ RequestInv
<1> SUFFICES ASSUME QInv PROVE relayerFee \in RelayerFees /\ limit \in Limits /\ RequestInv
  OBVIOUS
<1>1. RequestInv
  BY DEF QInv
<1>2. relayerFee \in RelayerFees /\ limit \in Limits
  BY <1>1 DEF RequestInv
<1> QED
  BY <1>1, <1>2

(* A token and its wrapped form have the same decimals on the wire. *)
LEMMA InitQ == Init => QInv
<1> SUFFICES ASSUME Init PROVE QInv
  OBVIOUS
<1>1. RequestInv
  <2>1. /\ route \in EveryRoute /\ text \in Texts /\ gasShare \in 0 .. 10000
        /\ native \in BOOLEAN /\ relayerFee \in RelayerFees /\ limit \in Limits
    <3>1. /\ route \in Routes /\ text \in Texts /\ gasShare \in GasShares \cup {0}
          /\ native \in BOOLEAN
          /\ relayerFee \in RelayerFees /\ limit \in Limits
      BY DEF Init
    <3>2. route \in EveryRoute /\ gasShare \in 0 .. 10000
      BY <3>1, ConstantsAre
    <3> QED
      BY <3>1, <3>2
  <2>2. \A d \in Nat : \A x \in Wrapped(d) :
           x \in Nat /\ Min({x, MaxDecimals}) = Min({d, MaxDecimals})
    <3> SUFFICES ASSUME NEW d \in Nat, NEW x \in Wrapped(d)
                 PROVE  x \in Nat /\ Min({x, MaxDecimals}) = Min({d, MaxDecimals})
      OBVIOUS
    <3>1. MaxDecimals \in Nat
      BY ConstantsAre
    <3>2. Min({d, MaxDecimals}) = IF d <= MaxDecimals THEN d ELSE MaxDecimals
      BY <3>1, MinOf
    <3>3. x \in Nat
      BY <3>1, <3>2 DEF Wrapped
    <3>4. Min({x, MaxDecimals}) = IF x <= MaxDecimals THEN x ELSE MaxDecimals
      BY <3>1, <3>3, MinOf
    <3> QED
      BY <3>1, <3>2, <3>3, <3>4 DEF Wrapped
  <2>3. Decimals \subseteq Nat
    BY ConstantsAre
  <2>4. source \in Nat /\ destination \in Nat
    BY <2>2, <2>3 DEF Init
  <2>5. IF IsCCTP THEN source = destination ELSE WireDecimals = Min({destination, MaxDecimals})
    <3>1. CASE IsCCTP
      BY <3>1 DEF Init
    <3>2. CASE ~ IsCCTP
      <4>1. PICK d \in Decimals : {source, destination} \subseteq Wrapped(d)
        BY <3>2 DEF Init
      <4> QED
        BY <2>2, <2>3, <3>2, <4>1 DEF WireDecimals
    <3> QED
      BY <3>1, <3>2
  <2> QED
    BY <2>1, <2>4, <2>5 DEF RequestInv
<1>2. ParamsInv
  <2>1. params = NoParams /\ Unvalidated /\ quote = NoQuote
    BY DEF Init, Unvalidated
  <2>2. NoParams.amount = FromBaseUnits(0, 0) /\ NoParams.fee = 0 /\ NoParams.gas = 0
    BY DEF NoParams
  <2>3. Units(FromBaseUnits(0, 0)) = 0
    BY OfBaseUnits
  <2> QED
    BY <2>1, <2>2, <2>3 DEF ParamsInv, Asked
<1>3. QuoteInv /\ OutcomeInv
  BY DEF Init, QuoteInv, OutcomeInv, Settled, NoQuote
<1> QED
  BY <1>1, <1>2, <1>3 DEF QInv

(* What validate() parses. *)
LEMMA AmountParsed ==
    ASSUME RequestInv
    PROVE  Units(amt) \in Nat /\ amt = FromBaseUnits(Units(amt), source)
<1>1. text.whole \in Numerals /\ text.partial \in Numerals /\ source \in Nat
  BY Wire, ConstantsAre DEF RequestInv
<1>2. PICK k \in Nat : amt = FromBaseUnits(k, source)
  BY <1>1, ParseIs DEF amt
<1>3. Units(amt) = k
  BY <1>2, OfBaseUnits
<1> QED
  BY SMTT(30), <1>2, <1>3

(* What validate() accepts keeps the invariant if the fee and the gas leave something. *)
LEMMA Accepted ==
    ASSUME QInv, phase = "asked", NEW fee \in Nat, NEW gas \in Nat, Accept(fee, gas),
           IF route = "AutomaticCCTP" THEN fee + gas < Units(amt) ELSE fee = 0 /\ gas = 0
    PROVE  QInv'
<1>1. /\ phase' = "validated" /\ params' = [amount |-> amt, fee |-> fee, gas |-> gas]
      /\ UNCHANGED request /\ UNCHANGED <<relayerFee, limit, quote>>
      /\ UNCHANGED <<route, source, destination>>
  BY DEF Accept, request, world
<1>2. RequestInv'
  <2>1. relayerFee \in RelayerFees /\ limit \in Limits /\ RequestInv
    BY WorldIs
  <2> QED
    BY <1>1, <2>1, KeepsRequest
<1>3. ParamsInv'
  <2>1. Asked' = Units(amt) /\ params'.amount = amt /\ params'.fee = fee /\ params'.gas = gas
    BY <1>1 DEF Asked
  <2>2. ~ Unvalidated'
    BY <1>1 DEF Unvalidated
  <2>3. Units(amt) \in Nat /\ amt = FromBaseUnits(Units(amt), source)
    BY AmountParsed DEF QInv
  <2> QED
    BY <1>1, <2>1, <2>2, <2>3 DEF ParamsInv
<1>4. QuoteInv' /\ OutcomeInv'
  <2>1. /\ quote' = NoQuote
        /\ NoQuote.referrer = 0 /\ NoQuote.nativeFee = 0 /\ NoQuote.cost = 0
    BY <1>1 DEF QInv, ParamsInv, Unvalidated, NoQuote
  <2> QED
    BY <1>1, <2>1 DEF QuoteInv, OutcomeInv, Settled
<1> QED
  BY <1>2, <1>3, <1>4 DEF QInv

(* What is swapped leaves something, once the fee is taken. *)
LEMMA GasLeaves ==
    ASSUME RequestInv, relayerFee \in Nat, Units(amt) \in Nat, relayerFee < Units(amt)
    PROVE  NativeGasAmount \in Nat /\ relayerFee + NativeGasAmount < Units(amt)
<1> DEFINE rest == Units(amt) - relayerFee
           most == Min({limit, rest})
           gas  == Share(most, gasShare, 10000)
<1>1. rest \in Nat \ {0} /\ limit \in Nat /\ gasShare \in 0 .. 10000
  BY SMTT(30), ConstantsAre DEF RequestInv
<1> HIDE DEF rest
<1>2. most \in 0 .. rest
  BY <1>1, MinOf
<1> HIDE DEF most
<1>3. gas \in 0 .. most
  <2> DEFINE N == 10000
  <2>1. most \in Nat /\ N \in Nat \ {0} /\ gasShare \in 0 .. N
    BY <1>1, <1>2
  <2>2. gas = Share(most, gasShare, N)
    OBVIOUS
  <2> HIDE DEF N
  <2>3. Share(most, gasShare, N) \in 0 .. most
    BY <2>1, ShareOf
  <2> QED
    BY <2>2, <2>3
<1> HIDE DEF gas
<1>4. NativeGasAmount = IF gas = rest /\ gas > 0 THEN gas - 1 ELSE gas
  BY DEF NativeGasAmount, gas, most, rest, Share
<1>5. NativeGasAmount \in Nat /\ NativeGasAmount < rest
  BY <1>1, <1>2, <1>3, <1>4
<1> QED
  BY SMTT(30), <1>5 DEF rest

(* The 5% make the minimum more than the fee. *)
LEMMA FeePositive ==
    ASSUME RequestInv
    PROVE  /\ relayerFee \in Nat \ {0} /\ RelayerFees \subseteq Nat \ {0}
           /\ MinAmount \in Nat /\ MinAmount > relayerFee
<1>1. \A fee \in RelayerFees : fee \in Nat /\ fee >= 20
  BY ConstantsAre
<1>2. relayerFee \in Nat /\ relayerFee >= 20
  BY <1>1 DEF RequestInv
<1> QED
  BY <1>1, <1>2 DEF MinAmount

(* validate() of the routes without a relayer. *)
LEMMA ValidateQ == QInv /\ Validate => QInv'
  BY Accepted DEF Validate

(* normalizeTransferParams() of automatic CCTP. *)
LEMMA NormalizeQ == QInv /\ NormalizeTransferParams => QInv'
<1> SUFFICES ASSUME QInv, NormalizeTransferParams PROVE QInv'
  OBVIOUS
<1>1. RequestInv
  BY DEF QInv
<1>2. Units(amt) \in Nat /\ relayerFee \in Nat /\ relayerFee < Units(amt)
  BY <1>1, AmountParsed, FeePositive DEF NormalizeTransferParams
<1>3. NativeGasAmount \in Nat /\ relayerFee + NativeGasAmount < Units(amt)
  BY <1>1, <1>2, GasLeaves
<1> QED
  BY <1>2, <1>3, Accepted DEF NormalizeTransferParams

(* A request that is refused. *)
LEMMA RefusedQ == QInv /\ (CannotParse \/ TooLittle) => QInv'
<1> SUFFICES ASSUME QInv, CannotParse \/ TooLittle PROVE QInv'
  OBVIOUS
<1>1. /\ phase = "asked" /\ phase' \in {"unparsed", "too little"}
      /\ UNCHANGED <<request, params>> /\ UNCHANGED request
      /\ UNCHANGED <<relayerFee, limit, quote>>
      /\ UNCHANGED <<request, params, quote>>
  BY DEF CannotParse, TooLittle, Fails, world
<1>2. RequestInv'
  <2>1. relayerFee \in RelayerFees /\ limit \in Limits /\ RequestInv
    BY WorldIs
  <2> QED
    BY <1>1, <2>1, KeepsRequest DEF QInv
<1>3. ParamsInv'
  BY <1>1, KeepsParams DEF QInv, Unvalidated
<1>4. QuoteInv' /\ OutcomeInv'
  BY <1>1, SameQuote DEF QInv, QuoteInv, OutcomeInv, Settled
<1> QED
  BY <1>2, <1>3, <1>4 DEF QInv
-----------------------------------------------------------------------------
(* A quote that is given keeps the invariant if it is one of its route. *)
LEMMA Answered ==
    ASSUME QInv, ~ Unvalidated, phase' = "quoted",
           UNCHANGED <<request, params>>, UNCHANGED <<relayerFee, limit>>,
           quote'.referrer \in Nat, quote'.nativeFee \in Nat, quote'.cost \in Nat,
           quote'.referrer > 0 => quote'.refers, Quoted'
    PROVE  QInv'
<1>1. UNCHANGED request /\ ~ Unvalidated' /\ Settled'
  BY DEF Unvalidated, Settled
<1>2. RequestInv'
  <2>1. relayerFee \in RelayerFees /\ limit \in Limits /\ RequestInv
    BY WorldIs
  <2> QED
    BY <1>1, <2>1, KeepsRequest
<1>3. ParamsInv'
  <2>1. Unvalidated' <=> Unvalidated
    BY <1>1
  <2> QED
    BY <2>1, KeepsParams DEF QInv
<1>4. QuoteInv' /\ OutcomeInv'
  BY DEF QuoteInv, OutcomeInv
<1> QED
  BY <1>2, <1>3, <1>4 DEF QInv

(* quote() of the CCTP routes. *)
LEMMA QuoteCircleQ == QInv /\ QuoteCircle => QInv'
<1> SUFFICES ASSUME QInv, QuoteCircle PROVE QInv'
  OBVIOUS
<1> DEFINE fee == IF route = "AutomaticCCTP" THEN relayerFee ELSE 0
<1>1. /\ phase' = "quoted" /\ ~ Unvalidated /\ UNCHANGED <<request, params>>
      /\ UNCHANGED <<relayerFee, limit>> /\ UNCHANGED <<route, source, destination>>
      /\ quote' = [NoQuote EXCEPT !.source = Units(params.amount),
                                  !.destination = Units(params.amount) - params.gas - fee,
                                  !.decimals = destination,
                                  !.fee = fee, !.gas = params.gas]
  BY DEF QuoteCircle, Asks, Answer, Unvalidated, request, world
<1>2. /\ quote'.source = Asked /\ quote'.decimals = destination /\ quote'.referrer = 0
      /\ quote'.nativeFee = 0 /\ quote'.cost = 0
      /\ quote'.destination = Asked - params.gas - fee /\ quote'.fee = fee
  BY <1>1 DEF NoQuote, Asked
<1>3. IsCCTP /\ (route = "CCTP" => fee = 0) /\ (route # "CCTP" => fee \in RelayerFees)
  BY DEF QuoteCircle, IsCCTP, QInv, RequestInv
<1>4. CircleQuoted'
  <2>1. Asked' = Asked
    BY <1>1, SameParams
  <2> HIDE DEF fee
  <2> QED
    BY <1>1, <1>2, <1>3, <2>1 DEF CircleQuoted
<1>5. ~ TransferRoute' /\ ~ (route = "TBTC")'
  BY <1>1, <1>3 DEF TransferRoute, IsCCTP
<1>6. Quoted'
  BY <1>4, <1>5 DEF Quoted
<1> QED
  BY <1>1, <1>2, <1>6, Answered

(* quote() of the tBTC route. *)
LEMMA QuoteTbtcQ == QInv /\ QuoteTbtc => QInv'
<1> SUFFICES ASSUME QInv, QuoteTbtc PROVE QInv'
  OBVIOUS
<1>1. /\ phase' = "quoted" /\ ~ Unvalidated /\ UNCHANGED <<request, params>>
      /\ UNCHANGED <<relayerFee, limit>> /\ UNCHANGED <<route, source, destination>>
      /\ quote' = [NoQuote EXCEPT !.source = Units(params.amount),
                                  !.destination = Units(params.amount),
                                  !.decimals = source]
      /\ route = "TBTC"
  BY DEF QuoteTbtc, Asks, Answer, Unvalidated, request, world
<1>2. /\ quote'.source = Asked /\ quote'.decimals = source /\ quote'.referrer = 0
      /\ quote'.nativeFee = 0 /\ quote'.cost = 0
      /\ quote'.destination = Asked /\ quote'.fee = 0
  BY <1>1 DEF NoQuote, Asked
<1>3. Asked' = Asked
  BY <1>1, SameParams
<1>4. Quoted'
  BY <1>1, <1>2, <1>3 DEF Quoted, TbtcQuoted, TransferRoute, IsCCTP
<1> QED
  BY <1>1, <1>2, <1>4, Answered

(* A record that quoteTransfer() can complete: with what the referrer charges, and no more
   for the referrer than there is. *)
Charges(q) == /\ DOMAIN q = {"source", "destination", "decimals", "fee", "gas", "refers",
                             "referrer", "nativeFee", "cost"}
              /\ q.fee = 0 /\ q.nativeFee \in Nat /\ q.cost \in Nat
              /\ q.referrer \in Nat /\ (q.referrer > 0 => q.refers)

(* quoteTransfer() never fails on the decimals of what remains. *)
LEMMA TransferQ ==
    ASSUME QInv, ~ Unvalidated, TransferRoute, NEW q, Charges(q), QuoteTransfer(q),
           q.referrer <= Kept, Carriable(q.referrer),
           route = "TokenBridge" => q.referrer = 0
    PROVE  QInv'
<1> DEFINE referrer == q.referrer
           rest == Kept - referrer
           m == (rest * TenTo[destination]) \div TenTo[source]
<1>1. /\ RequestInv /\ Kept \in Nat /\ Carriable(Kept) /\ ~ IsCCTP /\ Dust \in Nat \ {0}
      /\ SrcAmountTruncated = FromBaseUnits(Kept, source)
  BY KeptIs, Wire DEF QInv, TransferRoute, IsCCTP
<1>2. rest \in Nat /\ Carriable(rest)
  BY <1>1, MultipleMinus DEF Carriable, Charges
<1>3. Remaining(referrer) = FromBaseUnits(rest, source)
  BY DEF Remaining, Kept
<1> HIDE DEF rest
<1>4. /\ Scales(Remaining(referrer), destination)
      /\ Scale(Remaining(referrer), destination) = FromBaseUnits(m, destination)
      /\ m \in Nat
  BY <1>1, <1>2, <1>3, CarriableScales
<1>5. Scales(SrcAmountTruncated, destination)
  BY <1>1, CarriableScales
<1>6. Units(Scale(Remaining(referrer), destination)) = m
  BY <1>4, OfBaseUnits
<1> HIDE DEF m
<1>7. Answer([q EXCEPT !.source = Kept, !.destination = m, !.decimals = destination])
  BY <1>4, <1>5, <1>6 DEF QuoteTransfer, Kept
<1>8. /\ phase' = "quoted" /\ UNCHANGED <<request, params>>
      /\ UNCHANGED <<relayerFee, limit>> /\ UNCHANGED <<route, source, destination>>
      /\ quote'.source = Kept /\ quote'.destination = m /\ quote'.decimals = destination
      /\ quote'.referrer = referrer /\ quote'.fee = 0 /\ quote'.refers = q.refers
      /\ quote'.nativeFee = q.nativeFee /\ quote'.cost = q.cost
  BY <1>7 DEF Answer, Charges, request, world
<1>9. TransferQuoted'
  <2>1. Kept' = Kept /\ Dust' = Dust
    BY <1>8, SameParams
  <2>2. Carriable(quote.referrer)'
    BY <1>8, <2>1 DEF Carriable
  <2>3. m = ((Kept - referrer) * TenTo[destination]) \div TenTo[source]
    BY DEF m, rest
  <2> QED
    BY <1>8, <2>1, <2>2, <2>3 DEF TransferQuoted
<1>10. Quoted'
  BY <1>8, <1>9 DEF Quoted, TransferRoute, IsCCTP
<1> QED
  BY <1>8, <1>10, Answered DEF Charges

(* quote() of the token bridge route. *)
LEMMA QuoteManualQ == QInv /\ QuoteManual => QInv'
<1> SUFFICES ASSUME QInv, QuoteManual PROVE QInv'
  OBVIOUS
<1>1. ~ Unvalidated /\ TransferRoute /\ QuoteTransfer(NoQuote)
  BY DEF QuoteManual, Asks, Unvalidated, TransferRoute
<1>2. 0 <= Kept /\ Carriable(0)
  <2>1. Kept \in Nat /\ Dust \in Nat \ {0}
    BY KeptIs, Wire DEF QInv
  <2>2. 0 \in 0 .. 0 /\ 0 = 0 * Dust
    BY <2>1
  <2> QED
    BY <2>1, <2>2 DEF Carriable, Multiple
<1>3. Charges(NoQuote) /\ NoQuote.referrer = 0
  BY DEF NoQuote, Charges
<1> QED
  BY <1>1, <1>2, <1>3, TransferQ

(* The referrer never gets more than there is, nor what cannot be carried. *)
LEMMA ReferrerIs ==
    ASSUME QInv, ~ Unvalidated, TransferRoute, NEW dBps \in Nat, NEW fee,
           fee = GetDeciBps(SrcAmountTruncated, dBps)
    PROVE  /\ TruncatedFee(dBps) \in Nat /\ Carriable(TruncatedFee(dBps))
           /\ fee.amount = <<0>> => TruncatedFee(dBps) = 0
<1> DEFINE N == 100000
           n == (Kept * dBps) \div N
           c == CutTo(n, source, MaxDecimals)
<1>1. /\ RequestInv /\ Kept \in Nat /\ source \in Nat /\ MaxDecimals \in Nat
      /\ SrcAmountTruncated = FromBaseUnits(Kept, source)
  BY KeptIs, Wire DEF QInv
<1>2. fee = FromBaseUnits(n, source)
  <2>1. Units(SrcAmountTruncated) = Kept /\ SrcAmountTruncated.decimals = source
    BY <1>1, OfBaseUnits
  <2> QED
    BY <2>1 DEF GetDeciBps
<1>3. n \in Nat
  <2>1. N \in Nat \ {0} /\ Kept * dBps \in Nat
    BY <1>1, Products
  <2> HIDE DEF N
  <2> QED
    BY <2>1, DivisionIs
<1> HIDE DEF n
<1>4. fee.amount = <<0>> <=> n = 0
  BY <1>2, <1>3, OfBaseUnits
<1>5. c \in Nat /\ Carriable(c) /\ c <= n
  <2>1. Dust = TenTo[source - Min({source, MaxDecimals})]
    BY DEF Dust, WireDecimals
  <2> QED
    BY <1>1, <1>3, <2>1, CutIs DEF Carriable
<1>6. Truncate(fee, MaxDecimals) = FromBaseUnits(c, source)
  BY <1>1, <1>2, <1>3, Truncated
<1> HIDE DEF c
<1>7. TruncatedFee(dBps) = c
  BY <1>5, <1>6, OfBaseUnits DEF TruncatedFee
<1> QED
  BY <1>3, <1>4, <1>5, <1>7

(* The second half of quote() of the executor route. *)
LEMMA GetExecutorQuoteQ == QInv /\ GetExecutorQuote => QInv'
<1> SUFFICES ASSUME QInv, GetExecutorQuote PROVE QInv'
  OBVIOUS
<1>1. ~ Unvalidated /\ phase = "quoting" /\ route = "ExecutorTokenBridge" /\ TransferRoute
  BY DEF GetExecutorQuote, Unvalidated, QInv, OutcomeInv, TransferRoute
<1>2. ASSUME NEW why \in {"over the limit", "nothing remains"}, Fails(why) PROVE QInv'
  <2>1. /\ phase' = why /\ UNCHANGED <<request, params, quote>>
        /\ UNCHANGED <<request, params>> /\ UNCHANGED request
        /\ UNCHANGED <<relayerFee, limit, quote>>
    BY <1>2 DEF Fails, world
  <2>2. relayerFee \in RelayerFees /\ limit \in Limits /\ RequestInv
    BY WorldIs
  <2>3. RequestInv'
    BY <2>1, <2>2, KeepsRequest
  <2>4. ~ Unvalidated'
    BY <2>1 DEF Unvalidated
  <2>5. ParamsInv'
    BY <1>1, <2>1, <2>4, KeepsParams DEF QInv
  <2>6. QuoteInv' /\ OutcomeInv'
    BY <2>1, SameQuote DEF QInv, QuoteInv, OutcomeInv, Settled
  <2> QED
    BY <2>3, <2>5, <2>6 DEF QInv
<1>3. CASE dropOff > limit
  BY <1>2, <1>3 DEF GetExecutorQuote
<1>4. CASE ~ (dropOff > limit)
  <2>1. PICK dBps \in DeciBps, nativeFee \in NativeFees, cost \in Costs :
           LET referrer == TruncatedFee(dBps)
               refers   == GetDeciBps(SrcAmountTruncated, dBps).amount # <<0>> \/ nativeFee > 0
           IN  IF refers /\ Kept <= referrer
               THEN Fails("nothing remains")
               ELSE QuoteTransfer([NoQuote EXCEPT !.gas = dropOff, !.refers = refers,
                                                  !.referrer = referrer,
                                                  !.nativeFee = nativeFee, !.cost = cost])
    BY <1>4 DEF GetExecutorQuote, Kept
  <2> DEFINE referrer == TruncatedFee(dBps)
             fee == GetDeciBps(SrcAmountTruncated, dBps)
             refers == fee.amount # <<0>> \/ nativeFee > 0
             q == [NoQuote EXCEPT !.gas = dropOff, !.refers = refers, !.referrer = referrer,
                                  !.nativeFee = nativeFee, !.cost = cost]
  <2>2. dBps \in Nat /\ nativeFee \in Nat /\ cost \in Nat
    BY ConstantsAre
  <2>3. referrer \in Nat /\ Carriable(referrer) /\ (fee.amount = <<0>> => referrer = 0)
    BY <1>1, <2>2, ReferrerIs
  <2>4. Kept \in Nat
    BY KeptIs DEF QInv
  <2>5. IF refers /\ Kept <= referrer THEN Fails("nothing remains") ELSE QuoteTransfer(q)
    BY <2>1
  <2> HIDE DEF referrer, fee
  <2>6. CASE refers /\ Kept <= referrer
    BY <1>2, <2>5, <2>6
  <2>7. CASE ~ (refers /\ Kept <= referrer)
    <3>1. QuoteTransfer(q)
      BY <2>5, <2>7
    <3>2. referrer <= Kept /\ (referrer > 0 => refers)
      BY <2>3, <2>4, <2>7
    <3>3. route = "TokenBridge" => referrer = 0
      BY <1>1
    <3> HIDE DEF refers
    <3>4. Charges(q) /\ q.referrer = referrer
      BY <2>2, <2>3, <3>2 DEF NoQuote, Charges
    <3> HIDE DEF q
    <3> QED
      BY <1>1, <2>3, <3>1, <3>2, <3>3, <3>4, TransferQ
  <2> QED
    BY <2>6, <2>7
<1> QED
  BY <1>3, <1>4
-----------------------------------------------------------------------------
(* And the first half, which promises nothing yet. *)
LEMMA QuoteExecutorQ == QInv /\ QuoteExecutor => QInv'
<1> SUFFICES ASSUME QInv, QuoteExecutor PROVE QInv'
  OBVIOUS
<1>1. /\ phase' = "quoting" /\ UNCHANGED <<request, params, quote>>
      /\ UNCHANGED <<request, params>> /\ UNCHANGED request
      /\ UNCHANGED <<relayerFee, limit, quote>>
  BY DEF QuoteExecutor, world
<1>2. ~ Unvalidated /\ ~ Unvalidated' /\ ~ Settled' /\ route' = "ExecutorTokenBridge"
  BY <1>1 DEF QuoteExecutor, Asks, Unvalidated, Settled, request
<1>3. relayerFee \in RelayerFees /\ limit \in Limits /\ RequestInv
  BY WorldIs
<1>4. RequestInv'
  BY <1>1, <1>3, KeepsRequest
<1>5. ParamsInv'
  BY <1>1, <1>2, KeepsParams DEF QInv
<1>6. QuoteInv' /\ OutcomeInv'
  BY <1>1, <1>2, SameQuote DEF QInv, QuoteInv, OutcomeInv
<1> QED
  BY <1>4, <1>5, <1>6 DEF QInv

(* The fee and the limit are not part of what was quoted. *)
LEMMA WorldMovesQ == QInv /\ (FeeMoves \/ LimitMoves) => QInv'
<1> SUFFICES ASSUME QInv, FeeMoves \/ LimitMoves PROVE QInv'
  OBVIOUS
<1>1. /\ phase' = phase /\ UNCHANGED <<request, params, quote>>
      /\ UNCHANGED <<request, params>> /\ UNCHANGED request
      /\ UNCHANGED <<quote, route>>
      /\ phase \in {"asked", "validated", "quoting", "quoted"}
  BY DEF FeeMoves, LimitMoves, Waits, request
<1>2. Unvalidated' <=> Unvalidated
  BY <1>1 DEF Unvalidated
<1>3. relayerFee \in RelayerFees /\ limit \in Limits /\ RequestInv
  BY WorldIs
<1>4. relayerFee' \in RelayerFees /\ limit' \in Limits
  BY <1>3 DEF FeeMoves, LimitMoves
<1>5. RequestInv'
  BY <1>1, <1>3, <1>4, KeepsRequest
<1>6. ParamsInv'
  BY <1>1, <1>2, KeepsParams DEF QInv
<1>7. QuoteInv' /\ OutcomeInv'
  BY <1>1, SameQuote DEF QInv, QuoteInv, OutcomeInv, Settled
<1> QED
  BY <1>5, <1>6, <1>7 DEF QInv

(* What the contracts would do does not change as long as the fee does not. *)
LEMMA SameOutcome ==
    ASSUME UNCHANGED <<request, params, quote>>, UNCHANGED relayerFee
    PROVE  /\ Reverts' <=> Reverts
           /\ Carried(BridgedAmount)' = Carried(BridgedAmount)
           /\ Keeps' = Keeps /\ OnTop' = OnTop
<1>1. /\ route' = route /\ source' = source /\ destination' = destination
      /\ params' = params /\ quote' = quote /\ relayerFee' = relayerFee
      /\ native' = native
  BY DEF request
<1>2. SrcAmountTruncated' = SrcAmountTruncated
  BY <1>1 DEF SrcAmountTruncated
<1>3. BridgedAmount' = BridgedAmount
  BY <1>1, <1>2 DEF BridgedAmount
<1>4. IsCCTP' <=> IsCCTP
  BY <1>1 DEF IsCCTP
<1>5. Carried(BridgedAmount)' = Carried(BridgedAmount)
  BY <1>1, <1>3, <1>4 DEF Carried
<1> QED
  BY <1>1, <1>5 DEF Reverts, Keeps, OnTop

(* initiate(), whether the contract accepts or refuses it. *)
LEMMA InitiatesQ == QInv /\ (Initiate \/ InitiateReverts) => QInv'
<1> SUFFICES ASSUME QInv, Initiate \/ InitiateReverts PROVE QInv'
  OBVIOUS
<1>1. /\ phase = "quoted" /\ phase' \in {"initiated", "reverted"}
      /\ UNCHANGED <<request, params, quote>>
      /\ UNCHANGED <<request, params>> /\ UNCHANGED request
      /\ UNCHANGED <<relayerFee, limit, quote>> /\ UNCHANGED relayerFee
      /\ UNCHANGED <<source, destination>>
  BY DEF Initiate, InitiateReverts, Fails, world, request
<1>2. ~ Unvalidated /\ ~ Unvalidated' /\ Settled
  BY <1>1 DEF Unvalidated, Settled
<1>3. relayerFee \in RelayerFees /\ limit \in Limits /\ RequestInv
  BY WorldIs
<1>4. RequestInv'
  BY <1>1, <1>3, KeepsRequest
<1>5. ParamsInv'
  BY <1>1, <1>2, KeepsParams DEF QInv
<1>6. QuoteInv'
  BY <1>1, <1>2, SameQuote DEF QInv, QuoteInv, Settled
<1>7. OutcomeInv'
  <2>1. /\ Reverts' <=> Reverts
        /\ Carried(BridgedAmount)' = Carried(BridgedAmount) /\ Keeps' = Keeps
        /\ OnTop' = OnTop
    BY <1>1, SameOutcome
  <2>2. CASE InitiateReverts
    BY <2>1, <2>2 DEF InitiateReverts, Fails, OutcomeInv
  <2>3. CASE Initiate
    <3>1. /\ phase' = "initiated" /\ ~ Reverts
          /\ paid' = Carried(BridgedAmount) + quote.referrer + OnTop
          /\ received' = ((Carried(BridgedAmount) - Keeps) * TenTo[destination])
                             \div TenTo[source]
      BY <2>3 DEF Initiate, Keeps
    <3> QED
      BY <1>1, <2>1, <3>1 DEF OutcomeInv
  <2> QED
    BY <2>2, <2>3
<1> QED
  BY <1>4, <1>5, <1>6, <1>7 DEF QInv

(* A step that changes nothing. *)
LEMMA StutterQ == QInv /\ UNCHANGED vars => QInv'
<1> SUFFICES ASSUME QInv, UNCHANGED vars PROVE QInv'
  OBVIOUS
<1>1. /\ phase' = phase /\ UNCHANGED <<request, params, quote>>
      /\ UNCHANGED <<request, params>> /\ UNCHANGED request
      /\ UNCHANGED <<relayerFee, limit, quote>> /\ UNCHANGED relayerFee
      /\ UNCHANGED <<route, source, destination, paid, received, quote>>
  BY DEF vars, world, request
<1>2. Unvalidated' <=> Unvalidated
  BY <1>1 DEF Unvalidated
<1>3. relayerFee \in RelayerFees /\ limit \in Limits /\ RequestInv
  BY WorldIs
<1>4. RequestInv'
  BY <1>1, <1>3, KeepsRequest
<1>5. ParamsInv'
  BY <1>1, <1>2, KeepsParams DEF QInv
<1>6. QuoteInv'
  BY <1>1, SameQuote DEF QInv, QuoteInv, Settled
<1>7. OutcomeInv'
  BY <1>1, SameOutcome DEF QInv, OutcomeInv
<1> QED
  BY <1>4, <1>5, <1>6, <1>7 DEF QInv

(* Through any calls of validate(), quote() and initiate(), with the fee and the limit moving
   between them: the params leave something for the recipient at the fee they were made
   with, and the quote is what its route makes of the params. *)
THEOREM QuotesInvariant == Spec => []QInv
<1>1. Init => QInv
  BY InitQ
<1>2. QInv /\ [Next]_vars => QInv'
  BY RefusedQ, ValidateQ, NormalizeQ, QuoteCircleQ, QuoteTbtcQ, QuoteManualQ, QuoteExecutorQ,
     GetExecutorQuoteQ, InitiatesQ, WorldMovesQ, StutterQ DEF Next
<1> QED
  BY <1>1, <1>2, PTL DEF Spec
-----------------------------------------------------------------------------
(* The referrer never gets more than there is. *)
LEMMA ReferrerBound == QInv => quote.referrer \in Nat /\ quote.referrer <= Kept
<1> SUFFICES ASSUME QInv PROVE quote.referrer \in Nat /\ quote.referrer <= Kept
  OBVIOUS
<1>1. quote.referrer \in Nat /\ (quote = NoQuote \/ Quoted) /\ route \in EveryRoute
  BY DEF QInv, QuoteInv, RequestInv
<1>2. Kept \in Nat
  BY KeptIs DEF QInv
<1>3. CASE quote = NoQuote
  BY <1>2, <1>3 DEF NoQuote
<1>4. CASE Quoted
  BY <1>1, <1>2, <1>4 DEF Quoted, EveryRoute, TransferRoute, IsCCTP, TransferQuoted, TbtcQuoted,
                          CircleQuoted
<1> QED
  BY <1>1, <1>3, <1>4

(* All amounts that a transfer has to do with are made of natural numbers. *)
LEMMA InvolvedAre ==
    QInv => \A a \in Involved : \E n, e \in Nat : a = FromBaseUnits(n, e)
<1> SUFFICES ASSUME QInv, NEW a \in Involved PROVE \E n, e \in Nat : a = FromBaseUnits(n, e)
  OBVIOUS
<1>1. PICK e \in Nat : /\ params.amount = FromBaseUnits(Asked, e)
                       /\ SrcAmountTruncated = FromBaseUnits(Kept, e)
  BY KeptIs DEF QInv
<1>2. Asked \in Nat /\ Kept \in Nat /\ source \in Nat
  BY KeptIs, Wire DEF QInv
<1>3. Remaining(quote.referrer) = FromBaseUnits(Kept - quote.referrer, source)
  BY DEF Remaining, Kept
<1>4. Kept - quote.referrer \in Nat
  BY <1>2, ReferrerBound
<1>5. a \in {params.amount, SrcAmountTruncated, Remaining(quote.referrer)}
  BY DEF Involved
<1> QED
  BY <1>1, <1>2, <1>3, <1>4, <1>5

(* scale(), which adds zeros to a string of digits or drops digits from it, multiplies or
   divides the number without a remainder, and fails exactly where there is one. *)
THEOREM ScalingIsExact == Spec => []ScaleIsExact
<1>1. QInv => ScaleIsExact
  <2> SUFFICES ASSUME QInv, NEW a \in Involved, NEW d \in {source, destination}
               PROVE  /\ Scales(a, d) <=> (Units(a) * TenTo[d]) % TenTo[a.decimals] = 0
                      /\ Scales(a, d) =>
                           Scale(a, d) = FromBaseUnits((Units(a) * TenTo[d])
                                                          \div TenTo[a.decimals], d)
    BY DEF ScaleIsExact
  <2>1. PICK n, e \in Nat : a = FromBaseUnits(n, e)
    BY InvolvedAre
  <2>2. Units(a) = n /\ a.decimals = e
    BY <2>1, OfBaseUnits
  <2>3. d \in Nat
    BY Wire DEF QInv
  <2>4. Exact(n, e, d)
    BY <2>3, ScaleExact
  <2> QED
    BY <2>1, <2>2, <2>4 DEF Exact
<1> QED
  BY <1>1, QuotesInvariant, PTL

(* An amount may go through an input field: parse() makes the amount again of what display()
   shows of it, with more or fewer zeros, and never finds digits it would have to drop. *)
THEOREM DisplayedIsParsed == Spec => []DisplayParses
<1>1. QInv => DisplayParses
  <2> SUFFICES ASSUME QInv, NEW a \in Involved, NEW precision \in 0 .. source + 1
               PROVE  /\ Parses(Display(a, precision), a.decimals)
                      /\ Parse(Display(a, precision), a.decimals) = a
    BY DEF DisplayParses
  <2>1. PICK n, e \in Nat : a = FromBaseUnits(n, e)
    BY InvolvedAre
  <2>2. a.decimals = e
    BY <2>1, OfBaseUnits
  <2>3. precision \in Nat
    BY Wire DEF QInv
  <2> QED
    BY <2>1, <2>2, <2>3, DisplayIsParsed
<1> QED
  BY <1>1, QuotesInvariant, PTL

(* What the contract takes from the sender, besides the referrer's fee.    *)
LEMMA BridgedIs ==
    ASSUME QInv, Settled
    PROVE  /\ TransferRoute => Carried(BridgedAmount) = Kept - quote.referrer
           /\ route = "TBTC" => Carried(BridgedAmount) = Kept
           /\ ~ IsCCTP => /\ Carried(BridgedAmount) \in Nat
                          /\ Carriable(Carried(BridgedAmount))
           /\ IsCCTP => Carried(BridgedAmount) = Asked
<1>1. /\ RequestInv /\ ~ Unvalidated /\ Quoted /\ route \in EveryRoute
      /\ Asked \in Nat /\ Kept \in Nat /\ Carriable(Kept) /\ Dust \in Nat \ {0}
      /\ Kept = CutTo(Asked, source, MaxDecimals)
  <2>1. RequestInv /\ ParamsInv
    BY DEF QInv
  <2>2. ~ Unvalidated /\ Quoted
    BY DEF QInv, Settled, Unvalidated, QuoteInv
  <2>3. route \in EveryRoute
    BY <2>1 DEF RequestInv
  <2> QED
    BY <2>1, <2>2, <2>3, KeptIs, Wire
<1>2. CASE route = "ExecutorTokenBridge" /\ quote.refers
  <2>1. ~ IsCCTP /\ TransferRoute /\ BridgedAmount = Kept - quote.referrer
    BY <1>2 DEF IsCCTP, TransferRoute, BridgedAmount, Kept
  <2>2. quote.referrer \in Nat /\ quote.referrer <= Kept /\ Carriable(quote.referrer)
    BY <1>1, <2>1, ReferrerBound DEF Quoted, TransferQuoted
  <2>3. Kept - quote.referrer \in Nat /\ Carriable(Kept - quote.referrer)
    BY <1>1, <2>2, MultipleMinus DEF Carriable
  <2>4. Carried(Kept - quote.referrer) = Kept - quote.referrer
    BY <1>1, <2>1, <2>3, CarriedIs
  <2> QED
    BY <1>2, <2>1, <2>3, <2>4
<1>3. CASE ~ (route = "ExecutorTokenBridge" /\ quote.refers)
  <2>1. BridgedAmount = Asked
    BY <1>3 DEF BridgedAmount, Asked
  <2>2. /\ IsCCTP => Carried(Asked) = Asked
        /\ ~ IsCCTP => Carried(Asked) = Kept
    BY <1>1, CarriedIs
  <2>3. TransferRoute => quote.referrer = 0
    <3>1. quote.referrer \in Nat /\ (quote.referrer > 0 => quote.refers)
      BY DEF QInv, QuoteInv
    <3> QED
      BY <1>1, <1>3, <3>1 DEF TransferRoute, Quoted, TransferQuoted
  <2>4. TransferRoute => Kept = Kept - quote.referrer
    BY <1>1, <2>3
  <2>5. (TransferRoute \/ route = "TBTC") => ~ IsCCTP
    BY DEF TransferRoute, IsCCTP
  <2> QED
    BY <1>1, <2>1, <2>2, <2>4, <2>5
<1> QED
  BY <1>2, <1>3

(* The native fees of the executor, the referrer and the message are natural numbers. *)
LEMMA OnTopIs == QInv => OnTop \in Nat
<1> SUFFICES ASSUME QInv PROVE OnTop \in Nat
  OBVIOUS
<1>1. quote.nativeFee \in Nat /\ quote.cost \in Nat /\ MessageFee \in Nat
  BY ConstantsAre DEF QInv, QuoteInv
<1> QED
  BY <1>1 DEF OnTop

(* The sender pays the amount asked for at most, the referrer's share of it included, and
   what the quote says where the quote is of what the bridge can carry; on top of it comes
   only what is charged in the chain's own token, when that is the token sent. *)
THEOREM SenderPaysTheQuote == Spec => []PaysWhatIsQuoted
<1>1. QInv => PaysWhatIsQuoted
  <2> SUFFICES ASSUME QInv, phase = "initiated"
               PROVE  /\ paid <= Units(params.amount) + OnTop
                      /\ route # "TBTC" => paid = quote.source + OnTop
    BY DEF PaysWhatIsQuoted
  <2>1. /\ Settled /\ Quoted /\ route \in EveryRoute
        /\ paid = Carried(BridgedAmount) + quote.referrer + OnTop
    BY DEF QInv, QuoteInv, OutcomeInv, RequestInv, Settled
  <2>2. Asked \in Nat /\ Kept \in Nat /\ Kept <= Asked
    BY KeptIs DEF QInv
  <2>3. quote.referrer \in Nat /\ OnTop \in Nat
    BY ReferrerBound, OnTopIs
  <2>4. CASE TransferRoute
    <3>1. Carried(BridgedAmount) = Kept - quote.referrer /\ quote.source = Kept
      BY <2>1, <2>4, BridgedIs DEF Quoted, TransferQuoted
    <3>2. paid = Kept + OnTop
      BY <2>1, <2>2, <2>3, <3>1
    <3> QED
      BY <2>2, <2>3, <3>1, <3>2 DEF Asked
  <2>5. CASE route = "TBTC"
    <3>1. Carried(BridgedAmount) = Kept /\ quote.referrer = 0
      BY <2>1, <2>5, BridgedIs DEF Quoted, TbtcQuoted
    <3>2. paid = Kept + OnTop
      BY <2>1, <2>2, <2>3, <3>1
    <3> QED
      BY <2>2, <2>3, <2>5, <3>2 DEF Asked
  <2>6. CASE IsCCTP
    <3>1. Carried(BridgedAmount) = Asked /\ quote.referrer = 0 /\ quote.source = Asked
      BY <2>1, <2>6, BridgedIs DEF Quoted, CircleQuoted
    <3>2. paid = Asked + OnTop
      BY <2>1, <2>2, <2>3, <3>1
    <3> QED
      BY <2>2, <2>3, <3>1, <3>2 DEF Asked
  <2> QED
    BY <2>1, <2>4, <2>5, <2>6 DEF EveryRoute, TransferRoute, IsCCTP
<1> QED
  BY <1>1, QuotesInvariant, PTL

(* What from() makes of the amount in a VAA, which has the decimals of the wire, is what the
   bridge took from the sender. *)
THEOREM ResumedIsPaid == Spec => []ResumeFindsAmount
<1>1. QInv => ResumeFindsAmount
  <2> SUFFICES ASSUME QInv, phase = "initiated", ~ IsCCTP
               PROVE  ResumedAmount = paid - quote.referrer - OnTop
    BY DEF ResumeFindsAmount
  <2> DEFINE c == Carried(BridgedAmount)
             w == WireDecimals
             W == TenTo[w]
             S == TenTo[source]
  <2>1. Settled /\ paid = c + quote.referrer + OnTop /\ RequestInv
    BY DEF QInv, OutcomeInv, Settled
  <2>2. c \in Nat /\ Carriable(c)
    BY <2>1, BridgedIs
  <2> HIDE DEF c
  <2>3. quote.referrer \in Nat /\ OnTop \in Nat
    BY ReferrerBound, OnTopIs
  <2>4. PICK k \in Nat : c = k * Dust
    BY <2>2 DEF Carriable, Multiple
  <2>5. /\ source \in Nat /\ w \in Nat /\ w <= source /\ Dust \in Nat \ {0} /\ Dust * W = S
        /\ W \in Nat \ {0} /\ S \in Nat \ {0}
    BY <2>1, Wire, TenToPositive
  <2> HIDE DEF w, W, S
  <2>6. c * W = k * S
    BY <2>4, <2>5, Products
  <2>7. VaaAmount = k
    <3>1. (k * S) \div S = k
      BY <2>5, MultipleOf
    <3>2. VaaAmount = (c * W) \div S
      BY DEF VaaAmount, c, w, W, S
    <3> QED
      BY <2>6, <3>1, <3>2
  <2>8. (k * S) \div W = c
    <3>1. k * S = c * W
      BY <2>6
    <3> QED
      BY <2>2, <2>5, <3>1, MultipleOf
  <2> DEFINE a == FromBaseUnits(k, w)
  <2>9. Scales(a, source) /\ Scale(a, source) = FromBaseUnits((k * S) \div W, source)
    <3>1. a.decimals = w
      BY OfBaseUnits
    <3>2. Scales(a, source)
      BY <2>5, <3>1 DEF Scales
    <3>3. Exact(k, w, source)
      BY <2>5, ScaleExact
    <3> QED
      BY <3>2, <3>3 DEF Exact, W, S
  <2>10. Units(Scale(a, source)) = c
    BY <2>2, <2>8, <2>9, OfBaseUnits
  <2>11. ResumedAmount = c
    BY <2>7, <2>10 DEF ResumedAmount, w
  <2> QED
    BY <2>1, <2>2, <2>3, <2>11
<1> QED
  BY <1>1, QuotesInvariant, PTL

(* At the fee it was validated with, no transfer by automatic CCTP is refused by the contract,
   nor quoted at nothing or less; and quoteTransfer() never fails because a token and its
   wrapped form have different decimals. *)
THEOREM ValidatedIsNotRefused == Spec => []ValidatedIsAccepted
<1>1. QInv => ValidatedIsAccepted
  <2> SUFFICES ASSUME QInv PROVE ValidatedIsAccepted
    OBVIOUS
  <2>1. /\ relayerFee \in Nat /\ RelayerFees \subseteq Nat
        /\ Asked \in Nat /\ params.fee \in Nat /\ params.gas \in Nat
    BY FeePositive DEF QInv, ParamsInv
  <2>2. phase \in {"reverted", "quoted"} /\ route = "AutomaticCCTP"
           => params.fee + params.gas < Asked
    BY DEF QInv, ParamsInv, Unvalidated
  <2>3. phase = "reverted" => relayerFee # params.fee
    <3>1. phase = "reverted" => route = "AutomaticCCTP" /\ Asked <= relayerFee + params.gas
      BY DEF QInv, OutcomeInv, Reverts, Asked
    <3> QED
      BY <2>1, <2>2, <3>1
  <2>4. phase = "quoted" /\ route = "AutomaticCCTP" /\ quote.destination <= 0
           => quote.fee # params.fee
    <3>1. phase = "quoted" /\ route = "AutomaticCCTP"
             => quote.destination = Asked - params.gas - quote.fee
      BY DEF QInv, QuoteInv, Settled, Quoted, CircleQuoted, IsCCTP
    <3> QED
      BY <2>1, <2>2, <3>1
  <2>5. phase # "unscaled"
    BY DEF QInv, OutcomeInv
  <2> QED
    BY <2>3, <2>4, <2>5 DEF ValidatedIsAccepted
<1> QED
  BY <1>1, QuotesInvariant, PTL

(* The recipient gets what the quote says, if the relayer charges what it was quoted for: to
   the base unit, whatever was cut off on the way, except by the tBTC route, whose quote is
   off by less than one unit of what the bridge carries. *)
THEOREM QuotedIsDelivered == Spec => []QuoteIsDelivered
<1>1. QInv => QuoteIsDelivered
  <2> SUFFICES ASSUME QInv, phase = "initiated", quote.fee \in {0, relayerFee}
               PROVE  QuoteIsDelivered
    BY DEF QuoteIsDelivered
  <2> DEFINE c == Carried(BridgedAmount)
             w == WireDecimals
             T == TenTo[destination]
             S == TenTo[source]
             M == TenTo[MaxDecimals]
             W == TenTo[w]
  <2>1. /\ Settled /\ Quoted /\ route \in EveryRoute /\ ~ Reverts
        /\ received = ((c - Keeps) * T) \div S
    <3>1. RequestInv /\ QuoteInv /\ OutcomeInv
      BY DEF QInv
    <3> QED
      BY <3>1 DEF QuoteInv, OutcomeInv, RequestInv, Settled
  <2>2. RequestInv /\ ParamsInv /\ ~ Unvalidated
    BY DEF QInv, Unvalidated
  <2>3. /\ source \in Nat /\ destination \in Nat /\ MaxDecimals \in Nat
        /\ w \in Nat /\ w <= source /\ Dust \in Nat \ {0} /\ Dust * W = S
        /\ T \in Nat \ {0} /\ S \in Nat \ {0} /\ M \in Nat \ {0} /\ W \in Nat \ {0}
    BY <2>2, Wire, TenToPositive
  <2>4. Asked \in Nat /\ Kept \in Nat /\ Kept <= Asked /\ Carriable(Kept) /\ Asked - Kept < Dust
    BY <2>2, KeptIs
  <2>5. CASE TransferRoute
    <3>1. route # "TBTC" /\ Keeps = 0
      BY <2>5 DEF TransferRoute, Keeps
    <3>2. /\ quote.destination = ((Kept - quote.referrer) * T) \div S
          /\ quote.decimals = destination /\ c = Kept - quote.referrer
      BY <2>1, <2>5, BridgedIs DEF Quoted, TransferQuoted
    <3>3. c \in Nat
      BY <2>4, <3>2, ReferrerBound
    <3> HIDE DEF c, T, S
    <3>4. received = quote.destination
      BY <2>1, <3>1, <3>2, <3>3
    <3> QED
      BY <3>1, <3>2, <3>4 DEF QuoteIsDelivered
  <2>6. CASE IsCCTP
    <3>1. route # "TBTC" /\ source = destination
      BY <2>2, <2>6 DEF IsCCTP, RequestInv
    <3>2. /\ c = Asked /\ quote.destination = Asked - params.gas - quote.fee
          /\ quote.decimals = destination
      BY <2>1, <2>6, BridgedIs DEF Quoted, CircleQuoted
    <3>3. c - Keeps = quote.destination /\ quote.destination \in Nat
      <4>1. CASE route = "AutomaticCCTP"
        <5>1. quote.fee \in RelayerFees
          BY <2>1, <2>6, <4>1 DEF Quoted, CircleQuoted
        <5>2. quote.fee = relayerFee /\ relayerFee \in Nat
          BY <2>2, <5>1, FeePositive
        <5>3. params.gas \in Nat /\ ~ (Asked <= relayerFee + params.gas)
          BY <2>1, <2>2, <4>1 DEF Reverts, Asked, ParamsInv
        <5> HIDE DEF c
        <5> QED
          BY <2>4, <3>2, <4>1, <5>2, <5>3 DEF Keeps
      <4>2. CASE route # "AutomaticCCTP"
        <5>1. quote.fee = 0 /\ params.gas = 0
          BY <2>1, <2>2, <2>6, <4>2 DEF Quoted, CircleQuoted, IsCCTP, ParamsInv
        <5> HIDE DEF c
        <5> QED
          BY <2>4, <3>2, <4>2, <5>1 DEF Keeps
      <4> QED
        BY <4>1, <4>2
    <3> HIDE DEF c, T, S
    <3>4. received = quote.destination
      <4>1. T = S
        BY <3>1 DEF T, S
      <4>2. (quote.destination * S) \div S = quote.destination
        BY <2>3, <3>3, MultipleOf
      <4> QED
        BY <2>1, <3>3, <4>1, <4>2
    <3> QED
      BY <3>1, <3>2, <3>4 DEF QuoteIsDelivered
  <2>7. CASE route = "TBTC"
    <3>1. ~ IsCCTP /\ Keeps = 0
      BY <2>7 DEF IsCCTP, Keeps
    <3>2. quote.destination = Asked /\ quote.decimals = source /\ c = Kept
      BY <2>1, <2>7, BridgedIs DEF Quoted, TbtcQuoted
    <3> HIDE DEF c
    <3>3. received = (Kept * T) \div S
      BY <2>1, <2>4, <3>1, <3>2
    <3>4. received * S = Kept * T
      BY <2>2, <2>4, <3>1, <3>3, CarriableScales
    <3> HIDE DEF T, S, M, W, w
    <3>5. Kept * T \in Nat /\ Asked * T \in Nat /\ Kept * T <= Asked * T
      BY <2>3, <2>4, Products
    <3> DEFINE rest == Asked - Kept
    <3>6. rest \in Nat /\ rest < Dust /\ Asked * T - Kept * T = rest * T
      <4>1. rest \in Nat /\ rest < Dust /\ Asked = rest + Kept
        BY <2>3, <2>4
      <4> HIDE DEF rest
      <4>2. (rest + Kept) * T = rest * T + Kept * T /\ rest * T \in Nat
        BY <2>3, <2>4, <4>1, Products
      <4> QED
        BY <3>5, <4>1, <4>2
    <3> HIDE DEF rest
    <3>7. (rest * T) * M < TenTo[source + destination]
      <4>1. TenTo[source + destination] = S * T
        BY <2>3, TenToPlus DEF S, T
      <4>2. w = IF source <= MaxDecimals THEN source ELSE MaxDecimals
        BY <2>3, MinOf DEF w, WireDecimals
      <4>3. CASE source <= MaxDecimals
        <5>1. Dust = 1
          BY <2>3, <4>2, <4>3, TenToDef DEF Dust, w
        <5>2. rest = 0
          BY <3>6, <5>1
        <5>3. (rest * T) * M = 0
          BY <2>3, <5>2
        <5>4. S * T \in Nat \ {0}
          BY <2>3, Products
        <5> QED
          BY <4>1, <5>3, <5>4
      <4>4. CASE ~ (source <= MaxDecimals)
        <5>1. W = M
          BY <4>2, <4>4 DEF W, M
        <5>2. rest * (M * T) < Dust * (M * T)
          <6>1. M * T \in Nat /\ M * T > 0
            BY <2>3, Products
          <6> QED
            BY <2>3, <3>6, <6>1, Products
        <5>3. Dust * (M * T) = S * T
          BY <2>3, <5>1, Products
        <5>4. (rest * T) * M = rest * (M * T)
          BY <2>3, <3>6, Products
        <5> QED
          BY <4>1, <5>2, <5>3, <5>4
      <4> QED
        BY <4>3, <4>4
    <3>8. Kept * T <= Asked * T /\ (Asked * T - Kept * T) * M < TenTo[source + destination]
      BY <3>5, <3>6, <3>7
    <3> QED
      BY <2>7, <3>2, <3>4, <3>8 DEF QuoteIsDelivered, T, S, M
  <2> QED
    BY <2>1, <2>5, <2>6, <2>7 DEF EveryRoute, TransferRoute, IsCCTP
<1> QED
  BY <1>1, QuotesInvariant, PTL
=============================================================================
