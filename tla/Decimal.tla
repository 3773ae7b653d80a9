------------------------------ MODULE Decimal ------------------------------
(***************************************************************************)
(* Digits and what they are worth.  A character is a string.               *)
(***************************************************************************)
EXTENDS Naturals

DigitValue ==
    [c \in {"0", "1", "2", "3", "4", "5", "6", "7", "8", "9"} |->
        CASE c = "0" -> 0 [] c = "1" -> 1 [] c = "2" -> 2 [] c = "3" -> 3 [] c = "4" -> 4
          [] c = "5" -> 5 [] c = "6" -> 6 [] c = "7" -> 7 [] c = "8" -> 8 [] c = "9" -> 9]
Digit == DOMAIN DigitValue

TenTo[n \in Nat] == IF n = 0 THEN 1 ELSE 10 * TenTo[n - 1]
=============================================================================
