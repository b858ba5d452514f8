-------------------------------- MODULE OTP ---------------------------------
(***************************************************************************)
(* Time-based one-time passwords (src/twofa/internal/crypto/totp).  The     *)
(* HMAC of each counter under one secret is given; a code is the number its *)
(* six digits write.                                                        *)
(***************************************************************************)
EXTENDS Integers, Sequences

CONSTANT HMAC       \* HMAC[counter]: 20 bytes

ASSUME OTPAssumption ==
    \A counter \in DOMAIN HMAC :
      counter \in Nat /\ HMAC[counter] \in Seq(0..255) /\ Len(HMAC[counter]) = 20

-----------------------------------------------------------------------------

\* Mutant: the lower half of the last byte is taken for its upper half.
Offset_High(h) == h[20] \div 16

Offset(h) == h[20] % 16

\* Dynamic truncation: 31 bits from a place that the last byte names.
hotp(counter) ==
    LET h == HMAC[counter]
        o == Offset(h)
    IN  (2^24 * (h[o + 1] % 128) + 2^16 * h[o + 2] + 2^8 * h[o + 3] + h[o + 4]) % 1000000

\* GenerateOTP
Counter(unixTime) == unixTime \div 30

validateOTPAt(code, unixTime) ==
    LET counter == Counter(unixTime) IN
      \/ hotp(counter) = code
      \/ hotp(counter + 1) = code
      \/ counter > 0 /\ hotp(counter - 1) = code

\* Mutant: the previous window is not asked.
validateOTPWithCounterAt_NoPrevious(code, unixTime) ==
    LET counter == Counter(unixTime) IN
      IF hotp(counter) = code THEN <<TRUE, counter>>
      ELSE IF hotp(counter + 1) = code THEN <<TRUE, counter + 1>>
      ELSE <<FALSE, 0>>

\* The closest window that matches: current, previous, next.
validateOTPWithCounterAt(code, unixTime) ==
    LET counter == Counter(unixTime)
        matchPrev == counter > 0 /\ hotp(counter - 1) = code
    IN  IF hotp(counter) = code THEN <<TRUE, counter>>
        ELSE IF matchPrev THEN <<TRUE, counter - 1>>
        ELSE IF hotp(counter + 1) = code THEN <<TRUE, counter + 1>>
        ELSE <<FALSE, 0>>

=============================================================================
