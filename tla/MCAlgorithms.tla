---------------------------- MODULE MCAlgorithms ----------------------------
(***************************************************************************)
(* Model checking Algorithms: every byte as a secret of one byte, and       *)
(* secrets of two bytes; coefficients that are zero, and with and without  *)
(* the highest bit; all passwords of up to five of nine characters, among    *)
(* them letters of two and four bytes; addresses of up to seven characters  *)
(* of five kinds; the HMACs of RFC 4226.                                    *)
(***************************************************************************)
EXTENDS Algorithms

SomeSecrets == {<<b>> : b \in Byte} \cup {<<Zero, 0..7>>, <<{7}, One>>}
SomeRandoms == {<<Zero, 0..7>>, <<{1, 4, 7}, Three>>}

Characters ==
    {[class |-> "upper", lower |-> <<"b">>], [class |-> "lower", lower |-> <<"b">>],
     [class |-> "lower", lower |-> <<"v">>], [class |-> "lower", lower |-> <<"c">>],
     [class |-> "lower", lower |-> <<"x">>], [class |-> "digit", lower |-> <<"4">>],
     [class |-> "special", lower |-> <<"!">>],
     [class |-> "lower", lower |-> <<"d1", "8f">>],
     [class |-> "letter", lower |-> <<"f0", "9f", "9f", "9f">>]}
MaxTyped == 5
AllPasswords == UNION {[1..n -> Characters] : n \in 0..MaxTyped}

AllEmails == UNION {[1..n -> Kind \ {"digit", "other"}] : n \in 0..MaxEmail + 1}

HMACs == 0 :> <<204, 147, 207, 24, 80, 141, 148, 147, 76, 100, 182, 93, 139, 167, 102, 127, 183, 205, 228, 176>> @@
         1 :> <<117, 164, 138, 25, 212, 203, 225, 0, 100, 78, 138, 193, 57, 126, 234, 116, 122, 45, 51, 171>> @@
         2 :> <<11, 172, 183, 250, 8, 47, 239, 48, 120, 34, 17, 147, 139, 193, 197, 231, 4, 22, 255, 68>> @@
         3 :> <<102, 194, 130, 39, 208, 58, 45, 85, 41, 38, 47, 240, 22, 161, 230, 239, 118, 85, 126, 206>> @@
         4 :> <<169, 4, 201, 0, 166, 75, 53, 144, 152, 116, 179, 62, 97, 197, 147, 138, 142, 21, 237, 28>> @@
         5 :> <<163, 126, 120, 61, 123, 114, 51, 192, 131, 212, 246, 41, 38, 199, 162, 95, 35, 141, 3, 22>>
Codes == 0 :> 755224 @@ 1 :> 287082 @@ 2 :> 359152 @@ 3 :> 969429 @@ 4 :> 338314 @@ 5 :> 254676

=============================================================================
