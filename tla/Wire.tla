---------------------------------- MODULE Wire ----------------------------------
(***************************************************************************)
(* market_core/units.py: numbers as decimal text at the REST and WebSocket *)
(* boundary.  A text in plain notation is coefficient / unit, with unit a  *)
(* power of ten; NotFinite stands for all that Decimal refuses or takes    *)
(* for infinite or not a number.  Reading a text is exact, but every decimal   *)
(* operation rounds its result to the digits of the context.  Suffixed     *)
(* names, like Parse_Truncates, are wrong variants a property must tell    *)
(* apart.                                                                  *)
(***************************************************************************)
EXTENDS Integers

CONSTANTS
    LIMIT,          \* 10 ^ 28: no more digits than the context keeps
    CENTS           \* minor units per major unit

ASSUME WireConstants == {LIMIT, CENTS} \subseteq Nat \ {0}

Text == [coefficient : Int, unit : Nat \ {0}]
NotFinite == [coefficient |-> 0, unit |-> 0]

Magnitude(n) == IF n < 0 THEN 0 - n ELSE n

MaxExcess == 4      \* bound of the model: digits beyond those of the context

(* what the last digit kept of n stands for *)
LastPlace(n) ==
    CHOOSE step \in {10 ^ k : k \in 0..MaxExcess} :
        Magnitude(n) < LIMIT * step /\ LIMIT * step <= 10 * Magnitude(n)

(* to the nearest, ties to even *)
Rounded(n) ==
    IF Magnitude(n) < LIMIT THEN n
    ELSE LET step == LastPlace(n)
             quotient == n \div step
             remainder == n % step
             up == \/ remainder * 2 > step
                   \/ remainder * 2 = step /\ quotient % 2 = 1
         IN  IF up THEN (quotient + 1) * step ELSE quotient * step

Parse_Truncates(text, scale) ==
    IF text = NotFinite THEN {}
    ELSE {Rounded(text.coefficient * scale) \div text.unit}

(* the number in minor units, or no number where ValueError is raised *)
Parse(text, scale) ==
    IF text = NotFinite THEN {}
    ELSE LET scaled == Rounded(text.coefficient * scale)
         IN  {n \in {scaled \div text.unit} : scaled % text.unit = 0}

(* n minor units as text; the scale is a power of ten *)
Format(n, scale) == [coefficient |-> Rounded(n), unit |-> scale]

(* does the text say n minor units exactly? *)
Says(text, n, scale) == text.coefficient * scale = n * text.unit
=============================================================================
