------------------------------ MODULE Sharing -------------------------------
(***************************************************************************)
(* Shamir secret sharing over GF(256) (src/twofa/internal/crypto/shamir): a *)
(* secret is split for the nodes, and shares are collected from them one by *)
(* one and combined.                                                        *)
(*                                                                         *)
(* A byte is the set of the positions of its ones, so that addition in the  *)
(* field is symmetric difference.                                           *)
(***************************************************************************)
EXTENDS Integers, FiniteSets, SequencesExt

CONSTANTS
    N,              \* shares dealt
    Threshold,      \* shares needed
    Secrets,        \* bound: the secrets, sequences of bytes, that are dealt
    Randoms         \* bound: the coefficients that are drawn for a byte

Byte == SUBSET (0..7)
Zero == {}
One == {0}
Three == {0, 1}

ASSUME SharingAssumption ==
    /\ N \in Nat \ {0} /\ Threshold \in Nat \ {0}
    /\ Secrets \subseteq Seq(Byte)
    /\ Randoms \subseteq Seq(Byte)

Number(i) == {k \in 0..7 : (i \div 2^k) % 2 = 1}

-----------------------------------------------------------------------------
(* Arithmetic in the field.                                                *)

gfAdd(a, b) == (a \ b) \cup (b \ a)
Sum(bytes) == FoldLeft(gfAdd, Zero, bytes)

\* Shift left, and reduce by x^8 + x^4 + x^3 + x + 1.
Twice(a) == gfAdd({i + 1 : i \in a \ {7}}, IF 7 \in a THEN {0, 1, 3, 4} ELSE Zero)

\* a times x^0, x^1, ... x^7.
Multiples(a) ==
    FoldLeft(LAMBDA s, i : Append(s, Twice(s[i])), <<a>>, [i \in 1..7 |-> i])

gfMulNoTable(a, b) ==
    LET m == Multiples(a) IN Sum([i \in 1..8 |-> IF i - 1 \in b THEN m[i] ELSE Zero])

\* expTable[i] is Powers[i + 1]: the powers of the generator 3.
Powers ==
    FoldLeft(LAMBDA s, i : Append(s, gfMulNoTable(s[i], Three)), <<One>>,
             [i \in 1..254 |-> i])
expTable == [i \in 0..255 |-> Powers[(i % 255) + 1]]
logTable == [x \in Byte |-> IF x = Zero THEN 0
                            ELSE CHOOSE i \in 0..254 : expTable[i] = x]

gfMul(a, b) ==
    IF a = Zero \/ b = Zero THEN Zero
    ELSE expTable[(logTable[a] + logTable[b]) % 255]

\* Mutant: the difference of the logarithms is taken the other way round.
gfDiv_Swapped(a, b) ==
    IF a = Zero THEN Zero
    ELSE expTable[(logTable[b] - logTable[a] + 255) % 255]

\* Division by zero panics; lagrangeInterpolateAtZero divides by sums of
\* two different indices only.
gfDiv(a, b) ==
    IF a = Zero THEN Zero
    ELSE expTable[(logTable[a] - logTable[b] + 255) % 255]

gfInv(a) == expTable[255 - logTable[a]]

-----------------------------------------------------------------------------
(* Split and Combine.                                                      *)

\* Mutant: the constant term comes last.
evalPolynomial_Reversed(coeffs, x) ==
    FoldLeft(LAMBDA result, c : gfAdd(gfMul(result, x), c), Zero, coeffs)

\* Horner's method, from the coefficient of the highest degree down.
evalPolynomial(coeffs, x) ==
    FoldRight(LAMBDA c, result : gfAdd(gfMul(result, x), c), coeffs, Zero)

\* The values ys at the points xs, interpolated at zero.
Basis(xs, i) ==
    FoldLeft(LAMBDA b, j : IF j = i THEN b
                           ELSE gfMul(b, gfDiv(xs[j], gfAdd(xs[i], xs[j]))),
             One, [j \in 1..Len(xs) |-> j])
lagrangeInterpolateAtZero(xs, ys) ==
    Sum([i \in 1..Len(xs) |-> gfMul(ys[i], Basis(xs, i))])

\* One byte of the share of node i, counted from 1: at 0 is the secret.
ByteShare(byte, coeffs, threshold, i) ==
    evalPolynomial(<<byte>> \o SubSeq(coeffs, 1, threshold - 1), Number(i))

Refused(bytes, n, threshold) ==
    bytes = <<>> \/ threshold < 2 \/ n < threshold \/ n > 255

\* Mutant: the coefficients are drawn once, before the loop over the bytes.
Split_DrawOnce(bytes, n, threshold, coeffs) ==
    IF Refused(bytes, n, threshold) THEN <<>>
    ELSE [i \in 1..n |->
            [index |-> i,
             data |-> [b \in 1..Len(bytes) |->
                         ByteShare(bytes[b], coeffs[1], threshold, i)]]]

\* The shares of a secret whose byte b drew coeffs[b].
Split(bytes, n, threshold, coeffs) ==
    IF Refused(bytes, n, threshold) THEN <<>>
    ELSE [i \in 1..n |->
            [index |-> i,
             data |-> [b \in 1..Len(bytes) |->
                         ByteShare(bytes[b], coeffs[b], threshold, i)]]]

Combine(shares) ==
    IF \/ Len(shares) < 2
       \/ \E i \in 1..Len(shares) :
            \/ shares[i].data = <<>> \/ Len(shares[i].data) # Len(shares[1].data)
            \/ shares[i].index = 0
            \/ \E j \in 1..(i - 1) : shares[i].index = shares[j].index
      THEN <<>>
      ELSE [b \in 1..Len(shares[1].data) |->
              lagrangeInterpolateAtZero([i \in 1..Len(shares) |-> Number(shares[i].index)],
                                        [i \in 1..Len(shares) |-> shares[i].data[b]])]

-----------------------------------------------------------------------------

VARIABLES
    secret, drawn,  \* what was dealt, and the coefficients drawn for each byte
    shares,         \* by Split
    taken           \* the shares collected so far, in the order they came

vars == <<secret, drawn, shares, taken>>

Init ==
    /\ secret \in Secrets
    /\ drawn \in [1..Len(secret) -> Randoms]
    /\ shares = Split(secret, N, Threshold, drawn)
    /\ taken = <<>>

\* Another node answered.
Take(i) ==
    /\ i \in 1..Len(shares)
    /\ \A j \in 1..Len(taken) : taken[j] # shares[i]
    /\ taken' = Append(taken, shares[i])
    /\ UNCHANGED <<secret, drawn, shares>>

Next == \E i \in 1..N : Take(i)

Spec == Init /\ [][Next]_vars

-----------------------------------------------------------------------------
(* Properties.                                                             *)

\* Threshold shares or more, of whichever nodes and in whatever order, are the
\* secret: two algorithms that are each other's inverse (Split, Combine).
Recovers == Len(taken) >= Threshold => Combine(taken) = secret

\* What crypto/rand may answer for n bytes, when two shares are needed.
Draws(n) == [1..n -> [1..1 -> Byte]]

\* One share less says nothing, for a threshold of two: whatever the secret is, a
\* node may be dealt every sequence of bytes of its length, by as many draws as
\* there are such sequences.  All of them are equally likely then, and no relation
\* between two bytes of the secret shows either (Split draws for every byte).
Hides ==
    Threshold = 2 /\ Len(taken) = 1 =>
      {Split(secret, N, Threshold, coeffs)[taken[1].index].data : coeffs \in Draws(Len(secret))}
        = [1..Len(secret) -> Byte]

\* The tables multiply as shift and reduce does, and division undoes it: the
\* generator reaches every element but zero (init of gf256.go).
TablesAgree ==
    shares # <<>> /\ taken = <<>> =>
    \A b \in Byte :
      LET a == secret[1] IN
      /\ gfMul(a, b) = gfMulNoTable(a, b)
      /\ b # Zero => gfDiv(gfMul(a, b), b) = a /\ gfMul(b, gfInv(b)) = One

=============================================================================
