------------------------------- MODULE Amounts -------------------------------
(***************************************************************************)
(* The arithmetic of core/base/src/utils/amount.ts. An Amount is a number  *)
(* of base units, kept as the string of its decimal digits, and a number   *)
(* of decimals. Half of the operations work on the number and half on the  *)
(* string, so both are here: a string is the sequence of its digits.       *)
(***************************************************************************)
EXTENDS Integers, SequencesExt

(* The string primitives the code uses; substring() clamps its bounds. *)
Zeros(n)       == [i \in 1 .. Max({n, 0}) |-> 0]
PadStart(s, n) == Zeros(n - Len(s)) \o s
PadEnd(s, n)   == s \o Zeros(n - Len(s))
UpTo(s, i)     == SubSeq(s, 1, i)
From(s, i)     == SubSeq(s, Max({i, 0}) + 1, Len(s))

(* 10n ** k *)
TenTo[k \in Nat] == IF k = 0 THEN 1 ELSE 10 * TenTo[k - 1]

(* BigInt(s), the empty string being 0, and n.toString(). *)
Value[s \in Seq(0 .. 9)] == IF s = <<>> THEN 0 ELSE 10 * Value[Front(s)] + Last(s)
Digits[n \in Nat] == IF n < 10 THEN <<n>> ELSE Append(Digits[n \div 10], n % 10)

FromBaseUnits(n, d) == [amount |-> Digits[n], decimals |-> d]
Units(a)            == Value[a.amount]

(* parse(): a text is what stands before and after the point. It fails     *)
(* when digits other than zero would be cut off.                           *)
Parses(text, d) == Value[From(PadEnd(text.partial, d), d)] = 0
Parse(text, d)  == FromBaseUnits(Value[text.whole \o UpTo(PadEnd(text.partial, d), d)], d)

(* truncate() *)
Truncate(a, d) ==
    LET delta == TenTo[a.decimals - d]
    IN  IF a.decimals <= d THEN a
        ELSE FromBaseUnits((Units(a) \div delta) * delta, a.decimals)

(* Mutant: digits are dropped whatever they are. *)
ScalesAnyway(a, d) == TRUE

(* scale(): adds zeros, or drops digits if all of them are zeros. *)
Scales(a, d) == \/ d >= a.decimals
                \/ a.amount = <<0>>
                \/ Value[From(a.amount, Len(a.amount) + d - a.decimals)] = 0

Scale(a, d) ==
    [decimals |-> d,
     amount   |-> IF a.amount = <<0>> THEN a.amount
                  ELSE IF d >= a.decimals THEN a.amount \o Zeros(d - a.decimals)
                  ELSE UpTo(a.amount, Len(a.amount) + d - a.decimals)]

(* Mutant: the decimals are not filled with zeros. *)
DisplaysUnpadded(a, precision) ==
    [whole   |-> UpTo(a.amount, Len(a.amount) - a.decimals),
     partial |-> From(a.amount, Len(a.amount) - a.decimals)]

(* display(): at least precision decimals, and no zeros after the others. *)
Display(a, precision) ==
    LET whole   == UpTo(a.amount, Len(a.amount) - a.decimals)
        partial == PadStart(From(a.amount, Len(a.amount) - a.decimals), a.decimals)
        kept    == Max({Min({precision, Len(partial)})}
                       \cup {i \in DOMAIN partial : partial[i] # 0})
    IN  [whole   |-> PadStart(whole, 1),
         partial |-> PadEnd(UpTo(partial, kept), precision)]

(* getDeciBps(): a share of an amount, in tenths of basis points. *)
GetDeciBps(a, dBps) == FromBaseUnits((Units(a) * dBps) \div 100000, a.decimals)
=============================================================================
