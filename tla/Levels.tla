-------------------------------- MODULE Levels --------------------------------
(***************************************************************************)
(* Levels and experience.  Logarithms and powers of 1.5 are compared       *)
(* exactly: log(e / 1000) / log(1.5) >= k iff e * 2^k >= 1000 * 3^k.  Where *)
(* both sides are equal, the quotient of two rounded logarithms may come   *)
(* out just below k; and what a quotient of -1 or less is as an unsigned   *)
(* integer is up to the machine.  The functions return the set of possible *)
(* results.  Nothing calls them in this version.                           *)
(***************************************************************************)
EXTENDS Integers

CONSTANTS
  MaxLevel, \* levels are looked for up to MaxLevel + 1
  MaxPower, \* 18: 1000 is less than 1.5^MaxPower
  Uint      \* 2^64: the numbers of type uint

ASSUME LevelsAssumption ==
  /\ {MaxLevel, MaxPower, Uint} \subseteq Nat
  /\ MaxLevel < MaxPower
  /\ MaxPower < Uint

BaseExp == 1000

\* The powers of 2 and 3.
Power2[n \in 0..MaxPower] == IF n = 0 THEN 1 ELSE 2 * Power2[n - 1]
Power3[n \in 0..MaxPower] == IF n = 0 THEN 1 ELSE 3 * Power3[n - 1]

ASSUME PowerAssumption == BaseExp * Power2[MaxPower] < Power3[MaxPower]

\* The quotient of the logarithms is at least, or may be less than, k.
AtLeast(exp, k) == exp * Power2[k] >= BaseExp * Power3[k]
Equal(exp, k) == exp * Power2[k] = BaseExp * Power3[k]

\* The quotient is -n or less, which it is never exactly.
AtMost(exp, n) == exp <= (BaseExp * Power2[n]) \div Power3[n]

\* The quotient as an unsigned integer: its integral part.  If that is
\* negative, 0 where conversions saturate (arm64), and that number modulo 2^64
\* where they are made by way of a signed integer (amd64).
Whole(exp) ==
  {n \in 0..MaxLevel : /\ n = 0 \/ AtLeast(exp, n)
                       /\ ~AtLeast(exp, n + 1) \/ Equal(exp, n + 1)}
Wrapped(exp) == {Uint - n : n \in {m \in 1..MaxPower - 1 : AtMost(exp, m) /\ ~AtMost(exp, m + 1)}}
AboveMinusOne(exp) == 3 * exp > 2 * BaseExp
Converted(exp) == IF AboveMinusOne(exp) THEN Whole(exp) ELSE {0} \cup Wrapped(exp)

\* "Ensure minimum level is 1".
AtLeastOne(level) == IF level < 1 THEN 1 ELSE level

\* Mutant: no level is added to the quotient.
GetLevel_Base(exp) == IF exp = 0 THEN {1} ELSE {AtLeastOne(k) : k \in Converted(exp)}
GetLevel(exp) == IF exp = 0 THEN {1} ELSE {AtLeastOne((k + 1) % Uint) : k \in Converted(exp)}

\* Truncated: 1.5^4 = 5.0625 thousand are 5062.
ExpForNextLevel(level) ==
  IF level <= 1 THEN 0 ELSE (BaseExp * Power3[level - 1]) \div Power2[level - 1]
=============================================================================
