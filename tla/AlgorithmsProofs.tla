-------------------------- MODULE AlgorithmsProofs --------------------------
(***************************************************************************)
(* Proofs about Algorithms, for every input: an address that can register   *)
(* passes the login form, a one-time password is good for its three windows *)
(* and known as its counter's in each of them, and secrets of every length  *)
(* are shared as well as single bytes are.                                  *)
(***************************************************************************)
EXTENDS Algorithms, TLAPS, WellFoundedInduction, SequenceTheorems

-----------------------------------------------------------------------------
(* One-time passwords.                                                     *)

\* The four bytes from an offset of the last byte on.
LEMMA Bytes ==
    ASSUME NEW h \in Seq(0..255), Len(h) = 20
    PROVE  /\ DOMAIN h = 1..20 /\ Offset(h) \in 0..15
           /\ \A i \in 1..4 : Offset(h) + i \in DOMAIN h /\ h[Offset(h) + i] \in Nat
<1>1. DOMAIN h = 1..20
  BY LenProperties, SMT
<1>2. \A i \in 1..20 : h[i] \in Nat
  <2>1. \A i \in 1..Len(h) : h[i] \in 0..255
    BY ElementOfSeq, Zenon
  <2>2. \A b \in 0..255 : b \in Nat
    BY SMT
  <2>3. \A i \in 1..Len(h) : h[i] \in Nat
    BY <2>1, <2>2, Zenon
  <2> QED
    BY <2>3, Zenon
<1>3. h[20] \in Nat
  <2>1. 20 \in 1..20
    BY SMT
  <2> QED
    BY <1>2, <2>1, Zenon
<1>4. Offset(h) \in 0..15
  <2>1. \A n \in Nat : n % 16 \in 0..15
    BY ONLY SMT
  <2> QED
    BY <1>3, <2>1, Zenon DEF Offset
<1>5. \A i \in 1..4 : Offset(h) + i \in 1..20
  <2>1. \A m \in 0..15 : \A i \in 1..4 : m + i \in 1..20
    BY ONLY SMT
  <2> QED
    BY <1>4, <2>1, Zenon
<1>6. \A i \in 1..4 : h[Offset(h) + i] \in Nat
  BY <1>2, <1>5, Zenon
<1> QED
  BY <1>1, <1>4, <1>5, <1>6, Zenon

\* The four bytes that make a code are among the twenty of the HMAC, and the code
\* has six digits at most (hotp in totp.go).
THEOREM TruncationStaysInside ==
    ASSUME NEW counter \in DOMAIN HMAC
    PROVE  /\ \A i \in 1..4 : Offset(HMAC[counter]) + i \in DOMAIN HMAC[counter]
           /\ hotp(counter) \in Nat /\ hotp(counter) < 1000000
<1> DEFINE h == HMAC[counter]
           o == Offset(h)
           a1 == h[o + 1] % 128
           a2 == h[o + 2]
           a3 == h[o + 3]
           a4 == h[o + 4]
           n == 2^24 * a1 + 2^16 * a2 + 2^8 * a3 + a4
<1>1. hotp(counter) = n % 1000000
  BY ONLY SMT DEF hotp
<1>2. h \in Seq(0..255) /\ Len(h) = 20
  BY OTPAssumption
<1> HIDE DEF h
<1>3. \A i \in 1..4 : o + i \in DOMAIN h /\ h[o + i] \in Nat
  BY <1>2, Bytes
<1>4. a1 \in Nat /\ a2 \in Nat /\ a3 \in Nat /\ a4 \in Nat
  <2> HIDE DEF o
  <2>1. /\ h[o + 1] \in Nat /\ h[o + 2] \in Nat
        /\ h[o + 3] \in Nat /\ h[o + 4] \in Nat
    BY <1>3
  <2> QED
    BY <2>1, SMT
<1>5. 2^24 \in Nat /\ 2^16 \in Nat /\ 2^8 \in Nat
  BY SMT
<1>6. n \in Nat
  <2> HIDE DEF a1, a2, a3, a4
  <2>1. \A a, b \in Nat : a * b \in Nat /\ a + b \in Nat
    BY SMT
  <2>2. 2^24 * a1 \in Nat /\ 2^16 * a2 \in Nat /\ 2^8 * a3 \in Nat
    BY <1>4, <1>5, <2>1
  <2> QED
    BY <1>4, <2>1, <2>2
<1> HIDE DEF n
<1>7. n % 1000000 \in Nat /\ n % 1000000 < 1000000
  BY <1>6, SMT
<1>8. \A i \in 1..4 : Offset(HMAC[counter]) + i \in DOMAIN HMAC[counter]
  BY <1>3, Zenon DEF h
<1> QED
  BY <1>1, <1>7, <1>8, SMT

\* The closest match and the plain check agree on every code at every time; what
\* is returned is a counter at most one period away, whose code it is
\* (validateOTPAt, validateOTPWithCounterAt in totp.go).
THEOREM ChecksAgree ==
    ASSUME NEW code, NEW time \in Nat
    PROVE  LET answer == validateOTPWithCounterAt(code, time) IN
             /\ validateOTPAt(code, time) <=> answer[1]
             /\ answer[1] => /\ hotp(answer[2]) = code
                             /\ answer[2] \in Nat
                             /\ answer[2] \in (Counter(time) - 1)..(Counter(time) + 1)
<1> DEFINE k == Counter(time)
           answer == validateOTPWithCounterAt(code, time)
<1>1. k \in Nat
  BY SMT DEF Counter
<1>2. CASE hotp(k) = code
  <2>1. answer = <<TRUE, k>>
    BY <1>2, Zenon DEF validateOTPWithCounterAt
  <2>2. validateOTPAt(code, time)
    BY <1>2, Zenon DEF validateOTPAt
  <2> QED
    BY <1>1, <1>2, <2>1, <2>2, SMT
<1>3. CASE hotp(k) # code /\ k > 0 /\ hotp(k - 1) = code
  <2>1. answer = <<TRUE, k - 1>>
    BY <1>3, Zenon DEF validateOTPWithCounterAt
  <2>2. validateOTPAt(code, time)
    BY <1>3, Zenon DEF validateOTPAt
  <2> QED
    BY <1>1, <1>3, <2>1, <2>2, SMT
<1>4. CASE hotp(k) # code /\ ~(k > 0 /\ hotp(k - 1) = code) /\ hotp(k + 1) = code
  <2>1. answer = <<TRUE, k + 1>>
    BY <1>4, Zenon DEF validateOTPWithCounterAt
  <2>2. validateOTPAt(code, time)
    BY <1>4, Zenon DEF validateOTPAt
  <2> QED
    BY <1>1, <1>4, <2>1, <2>2, SMT
<1>5. CASE /\ hotp(k) # code /\ ~(k > 0 /\ hotp(k - 1) = code)
           /\ hotp(k + 1) # code
  <2>1. answer = <<FALSE, 0>>
    BY <1>5, Zenon DEF validateOTPWithCounterAt
  <2>2. ~validateOTPAt(code, time)
    BY <1>5, Zenon DEF validateOTPAt
  <2> QED
    BY <2>1, <2>2, SMT
<1> QED
  BY <1>2, <1>3, <1>4, <1>5, Zenon

\* No two of the counters that are compared have the same code: the one that a
\* code is of, and those of the windows around the time at which it is presented.
Unambiguous ==
    \A counter \in DOMAIN Reference : \A time \in Times :
      \A other \in (Counter(time) - 1)..(Counter(time) + 1) :
        other >= 0 /\ hotp(other) = hotp(counter) => other = counter

\* A code is good for its own period of 30 seconds, the one before and the one
\* after, at whatever times codes are presented.
THEOREM CodesLive ==
    ASSUME DOMAIN Reference \subseteq Nat, Times \subseteq Nat, Unambiguous
    PROVE  AlgSpec => []CodeLifetime
<1> DEFINE Entered == presented # <<>> =>
                        \E c \in DOMAIN Reference : \E t \in Times : presented = <<c, t>>
<1>1. ASSUME NEW c \in DOMAIN Reference, NEW t \in Times,
             NEW good, good = (30 * (c - 1) <= t /\ t < 30 * (c + 2))
      PROVE  /\ validateOTPAt(hotp(c), t) <=> good
             /\ validateOTPWithCounterAt(hotp(c), t)
                  = IF good THEN <<TRUE, c>> ELSE <<FALSE, 0>>
  <2> DEFINE k == Counter(t)
             code == hotp(c)
  <2>1. c \in Nat /\ t \in Nat
    OBVIOUS
  <2>2. k \in Nat /\ 30 * k <= t /\ t < 30 * k + 30
    BY <2>1, SMT DEF Counter
  <2>3. good <=> c = k \/ c = k - 1 \/ c = k + 1
    <3>1. 30 * (c - 1) <= t /\ t < 30 * (c + 2) <=> c = k \/ c = k - 1 \/ c = k + 1
      <4> HIDE DEF k
      <4>1. c \in Int /\ k \in Int /\ t \in Int
        BY <2>1, <2>2, SMT
      <4> QED
        BY ONLY <4>1, <2>2, SMT
    <3> QED
      BY <1>1, <3>1, Zenon
  <2>4. \A other \in (k - 1)..(k + 1) :
          other \in Nat /\ hotp(other) = code => other = c
    <3>1. \A other \in Nat : other >= 0
      BY SMT
    <3> QED
      BY <3>1, Zenon DEF Unambiguous
  <2>5. /\ hotp(k) = code <=> c = k
        /\ k > 0 /\ hotp(k - 1) = code <=> c = k - 1
        /\ hotp(k + 1) = code <=> c = k + 1
    <3>1. hotp(k) = code => c = k
      <4>1. k \in (k - 1)..(k + 1)
        <5> HIDE DEF k
        <5> QED
          BY <2>2, SMT
      <4> QED
        BY <2>2, <2>4, <4>1, Zenon
    <3>2. k > 0 /\ hotp(k - 1) = code => c = k - 1
      <4>1. k > 0 => k - 1 \in Nat /\ k - 1 \in (k - 1)..(k + 1)
        <5> HIDE DEF k
        <5> QED
          BY <2>2, SMT
      <4> QED
        BY <2>4, <4>1, Zenon
    <3>3. hotp(k + 1) = code => c = k + 1
      <4>1. k + 1 \in Nat /\ k + 1 \in (k - 1)..(k + 1)
        <5> HIDE DEF k
        <5> QED
          BY <2>2, SMT
      <4> QED
        BY <2>4, <4>1, Zenon
    <3>4. c = k - 1 => k > 0
      <4> HIDE DEF k
      <4> QED
        BY <2>1, <2>2, SMT
    <3> QED
      BY <3>1, <3>2, <3>3, <3>4, Zenon
  <2>6. k # k + 1 /\ k # k - 1 /\ k - 1 # k + 1
    <3> HIDE DEF k
    <3> QED
      BY <2>2, SMT
  <2>7. validateOTPAt(code, t) <=> good
    BY <2>3, <2>5, Zenon DEF validateOTPAt
  <2>8. validateOTPWithCounterAt(code, t)
          = IF c = k THEN <<TRUE, k>>
            ELSE IF c = k - 1 THEN <<TRUE, k - 1>>
            ELSE IF c = k + 1 THEN <<TRUE, k + 1>>
            ELSE <<FALSE, 0>>
    BY <2>5, Zenon DEF validateOTPWithCounterAt
  <2>9. validateOTPWithCounterAt(code, t) = IF good THEN <<TRUE, c>> ELSE <<FALSE, 0>>
    <3> HIDE DEF k, code
    <3>1. c = k => validateOTPWithCounterAt(code, t) = <<TRUE, c>>
      BY <2>8, Zenon
    <3>2. c = k - 1 => validateOTPWithCounterAt(code, t) = <<TRUE, c>>
      BY <2>6, <2>8, Zenon
    <3>3. c = k + 1 => validateOTPWithCounterAt(code, t) = <<TRUE, c>>
      BY <2>6, <2>8, Zenon
    <3>4. ~good => validateOTPWithCounterAt(code, t) = <<FALSE, 0>>
      BY <2>3, <2>8, Zenon
    <3>5. good => validateOTPWithCounterAt(code, t) = <<TRUE, c>>
      BY <2>3, <3>1, <3>2, <3>3, Zenon
    <3> QED
      BY <3>4, <3>5, Zenon
  <2> QED
    BY <2>7, <2>9, Zenon
<1>2. Entered => CodeLifetime
  <2> SUFFICES ASSUME Entered, presented # <<>>
               PROVE  CodeLifetime
    BY Zenon DEF CodeLifetime
  <2>1. PICK c \in DOMAIN Reference, t \in Times : presented = <<c, t>>
    BY Zenon
  <2>2. presented[1] = c /\ presented[2] = t
    BY <2>1, SMT
  <2> DEFINE good == 30 * (c - 1) <= t /\ t < 30 * (c + 2)
  <2>3. /\ validateOTPAt(hotp(c), t) <=> good
        /\ validateOTPWithCounterAt(hotp(c), t)
             = IF good THEN <<TRUE, c>> ELSE <<FALSE, 0>>
    BY <1>1, Zenon
  <2> QED
    BY <2>2, <2>3, Zenon DEF CodeLifetime
<1>3. AlgInit => Entered
  <2>1. ASSUME presented \in (DOMAIN Reference) \X Times
        PROVE  \E c \in DOMAIN Reference : \E t \in Times : presented = <<c, t>>
    <3> DEFINE A == DOMAIN Reference
    <3>1. presented \in A \X Times
      BY <2>1
    <3> HIDE DEF A
    <3>2. \E c \in A : \E t \in Times : presented = <<c, t>>
      BY ONLY <3>1, SMT
    <3> QED
      BY <3>2, Zenon DEF A
  <2> QED
    BY <2>1, Zenon DEF AlgInit
<1>4. Entered /\ [AlgNext]_algVars => Entered'
  BY Zenon DEF AlgNext, algVars
<1> QED
  BY <1>2, <1>3, <1>4, PTL DEF AlgSpec

-----------------------------------------------------------------------------
(* New accounts.                                                           *)

\* Min and Max of a set of positions are positions of it.
LEMMA Extremes ==
    ASSUME NEW n \in Nat, NEW S \in SUBSET (1..n), S # {}
    PROVE  Min(S) \in S /\ Max(S) \in S /\ \A x \in S : Min(S) <= x /\ x <= Max(S)
<1>1. ASSUME NEW T \in SUBSET Nat, T # {}
      PROVE  \E x \in T : \A y \in T : x <= y
  <2>1. PICK x \in T : \A y \in T : ~(<<y, x>> \in OpToRel(<, Nat))
    BY <1>1, NatLessThanWellFounded, WFMin, Zenon
  <2>2. \A y \in T : ~(y < x)
    BY <2>1, Zenon DEF OpToRel
  <2> QED
    BY <2>2, SMT
<1>2. S \subseteq Nat
  BY SMT
<1>3. \E x \in S : \A y \in S : x <= y
  BY <1>1, <1>2, Zenon
<1>4. \E x \in S : \A y \in S : x >= y
  <2> DEFINE B == {b \in Nat : \A y \in S : y <= b}
  <2>1. n \in B
    BY SMT
  <2>2. PICK b \in B : \A y \in B : b <= y
    BY <1>1, <2>1, Zenon
  <2>3. CASE b \in S
    BY <1>2, <2>2, <2>3, SMT
  <2>4. CASE b \notin S
    <3>1. PICK y \in S : TRUE
      OBVIOUS
    <3>2. b \in Nat /\ \A z \in S : z < b
      BY <1>2, <2>4, SMT
    <3>3. b > 0
      BY <1>2, <3>1, <3>2, SMT
    <3>4. b - 1 \in B
      BY <1>2, <3>2, <3>3, SMT
    <3> QED
      BY <2>2, <3>2, <3>4, SMT
  <2> QED
    BY <2>3, <2>4
<1>5. Min(S) \in S /\ \A y \in S : Min(S) <= y
  BY <1>3, Zenon DEF Min
<1>6. Max(S) \in S /\ \A y \in S : Max(S) >= y
  BY <1>4, Zenon DEF Max
<1> QED
  BY <1>2, <1>5, <1>6, SMT

\* What is left of an address is a sequence (strings.TrimSpace).
LEMMA TrimIsASequence ==
    ASSUME NEW S, NEW s \in Seq(S)
    PROVE  TrimSpace(s) \in Seq(S) /\ Len(TrimSpace(s)) \in Nat
<1> DEFINE seen == {i \in 1..Len(s) : s[i] # " "}
<1>1. CASE seen = {}
  <2>1. TrimSpace(s) = <<>>
    BY <1>1, Zenon DEF TrimSpace
  <2> QED
    BY <2>1, SMT
<1>2. CASE seen # {}
  <2>1. TrimSpace(s) = SubSeq(s, Min(seen), Max(seen))
    BY <1>2, Zenon DEF TrimSpace
  <2>2. Len(s) \in Nat /\ seen \in SUBSET (1..Len(s))
    <3>1. Len(s) \in Nat
      BY LenProperties, Zenon
    <3> QED
      BY <3>1, Zenon
  <2>3. /\ Min(seen) \in seen /\ Max(seen) \in seen
    BY <1>2, <2>2, Extremes, Zenon
  <2> HIDE DEF seen
  <2>4. Min(seen) \in 1..Len(s) /\ Max(seen) \in 1..Len(s)
    BY <2>2, <2>3, Zenon
  <2>5. \A i \in Min(seen)..Max(seen) : i \in 1..Len(s)
    BY <2>2, <2>4, SMT
  <2>6. \A i \in Min(seen)..Max(seen) : s[i] \in S
    BY <2>5, ElementOfSeq, SMT
  <2>7. SubSeq(s, Min(seen), Max(seen)) \in Seq(S)
    BY <2>2, <2>4, <2>6, SubSeqProperties, SMT
  <2> QED
    BY <2>1, <2>7, LenProperties, SMT
<1> QED
  BY <1>1, <1>2

\* Whatever the expression of the auth service takes, that of the browser takes
\* (emailRegex in register.go, EMAIL_REGEX in utils.ts).
LEMMA FormIsWider ==
    ASSUME NEW s, Len(s) \in Nat, emailRegex(s)
    PROVE  FormAccepts(s)
<1>1. PICK at \in 2..Len(s), dot \in 1..Len(s) :
        /\ s[at] = "@" /\ s[dot] = "." /\ at + 1 < dot /\ dot + 2 <= Len(s)
        /\ Only(s, 1, at - 1, {"letter", "digit", "mark", "."})
        /\ Only(s, at + 1, dot - 1, {"letter", "digit", "."})
        /\ Only(s, dot + 1, Len(s), {"letter"})
  BY Zenon DEF emailRegex
<1>2. dot \in 1..(Len(s) - 1)
  BY <1>1, SMT
<1>3. {"letter", "digit", "mark", "."} \subseteq Kind \ {"@", " "}
  BY SMT DEF Kind
<1>4. ASSUME NEW i, NEW j, NEW kinds, Only(s, i, j, kinds),
             kinds \subseteq {"letter", "digit", "mark", "."}
      PROVE  Only(s, i, j, Kind \ {"@", " "})
  BY <1>3, <1>4, Zenon DEF Only
<1>5. /\ Only(s, 1, at - 1, Kind \ {"@", " "})
      /\ Only(s, at + 1, dot - 1, Kind \ {"@", " "})
      /\ Only(s, dot + 1, Len(s), Kind \ {"@", " "})
  <2>1. Only(s, 1, at - 1, Kind \ {"@", " "})
    BY <1>1, <1>4, Zenon
  <2>2. Only(s, at + 1, dot - 1, Kind \ {"@", " "})
    BY <1>1, <1>4, Zenon
  <2>3. Only(s, dot + 1, Len(s), Kind \ {"@", " "})
    BY <1>1, <1>4, Zenon
  <2> QED
    BY <2>1, <2>2, <2>3
<1> QED
  BY <1>1, <1>2, <1>5, Zenon DEF FormAccepts

\* Whoever could register is let through by the login form, whatever the address
\* and the limits on its length.
THEOREM RegisteredCanLogIn ==
    ASSUME NEW S, SomeEmails \subseteq Seq(S)
    PROVE  AlgSpec => []CanLogIn
<1>1. email \in Seq(S) => CanLogIn
  <2> SUFFICES ASSUME email \in Seq(S), validateEmail(TrimSpace(email))
               PROVE  FormAccepts(TrimSpace(email))
    BY Zenon DEF CanLogIn
  <2>1. emailRegex(TrimSpace(email))
    BY Zenon DEF validateEmail
  <2>2. Len(TrimSpace(email)) \in Nat
    BY TrimIsASequence, Zenon
  <2> QED
    BY <2>1, <2>2, FormIsWider, Zenon
<1>2. AlgInit => email \in Seq(S)
  <2>1. <<>> \in Seq(S)
    BY SMT
  <2> QED
    BY <2>1, Zenon DEF AlgInit
<1>3. email \in Seq(S) /\ [AlgNext]_algVars => (email \in Seq(S))'
  BY Zenon DEF AlgNext, algVars
<1> QED
  BY <1>1, <1>2, <1>3, PTL DEF AlgSpec

-----------------------------------------------------------------------------
(* Sharing.                                                                *)

\* The nodes that answered, in the order they did.
Answered == {p \in Seq(1..N) : \A j, k \in 1..Len(p) : p[j] = p[k] => j = k}

\* What the field is for: any Threshold shares of one byte give it back, and one
\* share of a byte fits every other byte.  TLC checks both for all 256 of them.
BytesRecover ==
    \A b \in Byte : \A d \in Randoms : \A p \in Answered : Len(p) >= Threshold =>
      lagrangeInterpolateAtZero([k \in 1..Len(p) |-> Number(p[k])],
                                [k \in 1..Len(p) |-> ByteShare(b, d, Threshold, p[k])]) = b
BytesHide ==
    \A b \in Byte : \A i \in 1..N :
      {evalPolynomial(<<b, c>>, Number(i)) : c \in Byte} = Byte

\* What was taken are shares of the secret that was dealt, of different nodes.
Dealt ==
    /\ secret \in Seq(Byte) /\ ~Refused(secret, N, Threshold)
    /\ drawn \in [1..Len(secret) -> Randoms]
    /\ shares = [i \in 1..N |->
         [index |-> i, data |-> [b \in 1..Len(secret) |-> ByteShare(secret[b], drawn[b], Threshold, i)]]]
    /\ \E p \in Answered : taken = [k \in 1..Len(p) |-> shares[p[k]]]
NothingDealt == shares = <<>> /\ taken = <<>>
DealtInv == Dealt \/ NothingDealt

\* Split deals nothing or one share to each node.
LEMMA SplitDeals ==
    ASSUME Init PROVE DealtInv
<1>1. CASE Refused(secret, N, Threshold)
  BY <1>1, Zenon DEF Init, Split, DealtInv, NothingDealt
<1>2. CASE ~Refused(secret, N, Threshold)
  <2>1. shares = [i \in 1..N |->
          [index |-> i, data |-> [b \in 1..Len(secret) |-> ByteShare(secret[b], drawn[b], Threshold, i)]]]
    BY <1>2, Zenon DEF Init, Split
  <2>2. secret \in Seq(Byte) /\ drawn \in [1..Len(secret) -> Randoms]
    BY SharingAssumption, Zenon DEF Init
  <2>3. \E p \in Answered : taken = [k \in 1..Len(p) |-> shares[p[k]]]
    <3>1. <<>> \in Answered /\ Len(<<>>) = 0
      BY SMT DEF Answered
    <3>2. <<>> = [k \in 1..Len(<<>>) |-> shares[<<>>[k]]]
      BY SMT
    <3> QED
      BY <3>1, <3>2, Zenon DEF Init
  <2> QED
    BY <1>2, <2>1, <2>2, <2>3, Zenon DEF DealtInv, Dealt
<1> QED
  BY <1>1, <1>2, Zenon

\* The next share that is taken is another node's.
LEMMA TakeAnother ==
    ASSUME DealtInv, NEW i \in 1..N, Take(i) PROVE DealtInv'
<1>1. CASE NothingDealt
  <2>1. Len(shares) = 0
    BY <1>1, SMT DEF NothingDealt
  <2> QED
    BY <2>1, SMT DEF Take
<1>2. CASE Dealt
  <2>1. PICK p \in Answered : taken = [k \in 1..Len(p) |-> shares[p[k]]]
    BY <1>2, Zenon DEF Dealt
  <2>2. p \in Seq(1..N) /\ Len(p) \in Nat /\ \A j, k \in 1..Len(p) : p[j] = p[k] => j = k
    BY Zenon, LenProperties DEF Answered
  <2>3. \A k \in 1..Len(p) : p[k] \in 1..N
    BY <2>2, ElementOfSeq, Zenon
  <2> DEFINE S == {shares[j] : j \in 1..N}
             next == Append(p, i)
  <2>4. taken \in Seq(S) /\ Len(taken) = Len(p)
    BY <2>1, <2>2, <2>3, SMT
  <2>5. \A k \in 1..Len(p) : p[k] # i
    BY <2>1, <2>4, Zenon DEF Take
  <2>6. /\ next \in Seq(1..N) /\ Len(next) = Len(p) + 1
        /\ \A k \in 1..Len(p) : next[k] = p[k]
        /\ next[Len(p) + 1] = i
    BY <2>2, AppendProperties, SMT
  <2>7. next \in Answered
    <3>1. ASSUME NEW j \in 1..Len(next), NEW k \in 1..Len(next), next[j] = next[k]
          PROVE  j = k
      <4>1. j \in 1..Len(p) \/ j = Len(p) + 1
        BY <2>2, <2>6, SMT
      <4>2. k \in 1..Len(p) \/ k = Len(p) + 1
        BY <2>2, <2>6, SMT
      <4> QED
        BY <2>2, <2>5, <2>6, <3>1, <4>1, <4>2, Zenon
    <3> QED
      BY <2>6, <3>1, Zenon DEF Answered
  <2>8. /\ taken' \in Seq(S) /\ Len(taken') = Len(p) + 1
        /\ \A k \in 1..Len(p) : taken'[k] = taken[k]
        /\ taken'[Len(p) + 1] = shares[i]
    <3>1. shares[i] \in S
      BY Zenon
    <3> HIDE DEF S
    <3> QED
      BY <2>2, <2>4, <3>1, AppendProperties, SMT DEF Take
  <2> HIDE DEF next, S
  <2>9. \A k \in 1..Len(next) : taken'[k] = shares[next[k]]
    BY <2>1, <2>2, <2>6, <2>8, SMT
  <2>10. taken' = [k \in 1..Len(next) |-> shares[next[k]]]
    BY <2>2, <2>6, <2>8, <2>9, SMT
  <2>11. UNCHANGED <<secret, drawn, shares>>
    BY Zenon DEF Take
  <2>12. \E q \in Answered : taken' = [k \in 1..Len(q) |-> shares'[q[k]]]
    BY <2>7, <2>10, <2>11, Zenon
  <2>13. Dealt'
    BY <1>2, <2>11, <2>12, Zenon DEF Dealt, ByteShare
  <2> QED
    BY <2>13, Zenon DEF DealtInv
<1> QED
  BY <1>1, <1>2, Zenon DEF DealtInv

\* In every state of Algorithms.
LEMMA AlwaysDealt == AlgSpec => []DealtInv
<1>1. AlgInit => DealtInv
  BY SplitDeals, Zenon DEF AlgInit, NoShares, DealtInv, NothingDealt
<1>2. DealtInv /\ [AlgNext]_algVars => DealtInv'
  <2>1. DealtInv /\ AlgNext => DealtInv'
    BY TakeAnother, Zenon DEF AlgNext, Next
  <2>2. DealtInv /\ UNCHANGED algVars => DealtInv'
    BY Zenon DEF algVars, vars, DealtInv, Dealt, NothingDealt
  <2> QED
    BY <2>1, <2>2, Zenon
<1> QED
  BY <1>1, <1>2, PTL DEF AlgSpec

\* Combine puts a secret together byte by byte.
LEMMA Combines ==
    ASSUME BytesRecover, Dealt, Len(taken) >= Threshold
    PROVE  Combine(taken) = secret
<1>1. PICK p \in Answered : taken = [k \in 1..Len(p) |-> shares[p[k]]]
  BY Zenon DEF Dealt
<1>2. p \in Seq(1..N) /\ Len(p) \in Nat /\ \A j, k \in 1..Len(p) : p[j] = p[k] => j = k
  BY Zenon, LenProperties DEF Answered
<1>3. \A k \in 1..Len(p) : p[k] \in 1..N
  BY <1>2, ElementOfSeq, Zenon
<1>4. Len(taken) = Len(p) /\ Len(p) >= 2 /\ Len(p) >= Threshold
  <2>1. Len(taken) = Len(p)
    BY <1>1, <1>2, SMT
  <2>2. Threshold \in Nat /\ Threshold >= 2
    BY SharingAssumption, SMT DEF Dealt, Refused
  <2> QED
    BY <1>2, <2>1, <2>2, SMT
<1> DEFINE data(i) == [b \in 1..Len(secret) |-> ByteShare(secret[b], drawn[b], Threshold, i)]
<1>5. secret \in Seq(Byte) /\ Len(secret) \in Nat /\ Len(secret) > 0
  <2>1. secret \in Seq(Byte) /\ secret # <<>>
    BY Zenon DEF Dealt, Refused
  <2> QED
    BY <2>1, EmptySeq, LenProperties, SMT
<1>6. \A i \in 1..N : shares[i] = [index |-> i, data |-> data(i)]
  BY Zenon DEF Dealt
<1>7. \A i \in 1..N : shares[i].index = i /\ shares[i].data = data(i)
  <2> SUFFICES ASSUME NEW i \in 1..N
               PROVE  shares[i].index = i /\ shares[i].data = data(i)
    OBVIOUS
  <2>1. shares[i] = [index |-> i, data |-> data(i)]
    BY <1>6, Zenon
  <2> DEFINE x == shares[i]
             d == data(i)
  <2>2. x = [index |-> i, data |-> d]
    BY <2>1, Zenon
  <2> HIDE DEF x, d
  <2>3. x.index = i /\ x.data = d
    BY <2>2, SMT
  <2> QED
    BY <2>3, Zenon DEF x, d
<1>8. \A k \in 1..Len(p) : taken[k].index = p[k] /\ taken[k].data = data(p[k])
  <2>1. \A k \in 1..Len(p) : taken[k] = shares[p[k]]
    BY <1>1, Zenon
  <2> HIDE DEF data
  <2> QED
    BY <1>3, <1>7, <2>1, Zenon
<1>9. \A i : Len(data(i)) = Len(secret)
  BY <1>5, SMT
<1>10. \A i : data(i) # <<>>
  BY <1>5, <1>9, EmptySeq, SMT
<1> HIDE DEF data
<1>11. ~ \/ Len(taken) < 2
         \/ \E i \in 1..Len(taken) :
              \/ taken[i].data = <<>> \/ Len(taken[i].data) # Len(taken[1].data)
              \/ taken[i].index = 0
              \/ \E j \in 1..(i - 1) : taken[i].index = taken[j].index
  <2>1. 1 \in 1..Len(p)
    BY <1>2, <1>4, SMT
  <2>2. ASSUME NEW i \in 1..Len(p)
        PROVE  /\ taken[i].data # <<>> /\ Len(taken[i].data) = Len(taken[1].data)
               /\ taken[i].index # 0
    <3>1. taken[i].data # <<>> /\ Len(taken[i].data) = Len(taken[1].data)
      BY <1>8, <1>9, <1>10, <2>1, Zenon
    <3>2. p[i] # 0
      BY <1>3, SMT
    <3> QED
      BY <1>8, <3>1, <3>2, Zenon
  <2>3. ASSUME NEW i \in 1..Len(p), NEW j \in 1..(i - 1)
        PROVE  taken[i].index # taken[j].index
    <3>1. j \in 1..Len(p) /\ i # j
      BY <1>2, SMT
    <3> QED
      BY <1>2, <1>8, <3>1, Zenon
  <2> QED
    BY <1>2, <1>4, <2>2, <2>3, SMT
<1>12. Combine(taken) = [b \in 1..Len(secret) |->
          lagrangeInterpolateAtZero([i \in 1..Len(p) |-> Number(taken[i].index)],
                                    [i \in 1..Len(p) |-> taken[i].data[b]])]
  <2>1. 1 \in 1..Len(p)
    BY <1>2, <1>4, SMT
  <2>2. Len(taken[1].data) = Len(secret)
    BY <1>8, <1>9, <2>1, Zenon
  <2> QED
    BY <1>4, <1>11, <2>2, Zenon DEF Combine
<1>13. ASSUME NEW b \in 1..Len(secret)
       PROVE  lagrangeInterpolateAtZero([i \in 1..Len(p) |-> Number(taken[i].index)],
                                        [i \in 1..Len(p) |-> taken[i].data[b]]) = secret[b]
  <2>1. [i \in 1..Len(p) |-> Number(taken[i].index)] = [k \in 1..Len(p) |-> Number(p[k])]
    BY <1>8, Zenon
  <2>2. \A i : data(i)[b] = ByteShare(secret[b], drawn[b], Threshold, i)
    BY Zenon DEF data
  <2>3. [i \in 1..Len(p) |-> taken[i].data[b]] = [k \in 1..Len(p) |-> ByteShare(secret[b], drawn[b], Threshold, p[k])]
    BY <1>8, <2>2, Zenon
  <2>4. secret[b] \in Byte /\ drawn[b] \in Randoms
    BY <1>5, ElementOfSeq, Zenon DEF Dealt
  <2>5. lagrangeInterpolateAtZero([k \in 1..Len(p) |-> Number(p[k])],
                                  [k \in 1..Len(p) |-> ByteShare(secret[b], drawn[b], Threshold, p[k])])
          = secret[b]
    BY <1>4, <2>4, Zenon DEF BytesRecover
  <2> QED
    BY <2>1, <2>3, <2>5, Zenon
<1>14. secret = [b \in 1..Len(secret) |-> secret[b]]
  BY <1>5, LenProperties, SMT
<1> QED
  BY <1>12, <1>13, <1>14, Zenon

\* If Threshold shares give back every single byte, they give back secrets of
\* every length, from whichever nodes and in whatever order (Split, Combine).
THEOREM SecretsOfAnyLength ==
    ASSUME BytesRecover PROVE AlgSpec => []Recovers
<1>1. DealtInv => Recovers
  <2>1. NothingDealt => ~(Len(taken) >= Threshold)
    BY SharingAssumption, SMT DEF NothingDealt
  <2> QED
    BY <2>1, Combines, Zenon DEF DealtInv, Recovers
<1> QED
  BY <1>1, AlwaysDealt, PTL

\* With a threshold of two, the polynomial of a byte is a line.
LEMMA AByteIsALine ==
    ASSUME Threshold = 2, NEW b \in Byte, NEW d \in [1..1 -> Byte], NEW i
    PROVE  ByteShare(b, d, Threshold, i) = evalPolynomial(<<b, d[1]>>, Number(i))
<1> DEFINE S == Byte
<1>1. b \in S /\ d[1] \in S
  <2>1. 1 \in 1..1
    BY SMT
  <2> QED
    BY <2>1, Zenon
<1> HIDE DEF S
<1> DEFINE rest == SubSeq(d, 1, Threshold - 1)
           line == <<b, d[1]>>
<1>2. rest \in Seq(S) /\ Len(rest) = 1 /\ rest[1] = d[1]
  <2>1. \A k \in 1..1 : d[k] \in S
    BY <1>1, SMT
  <2>2. /\ SubSeq(d, 1, 1) \in Seq(S) /\ Len(SubSeq(d, 1, 1)) = 1
        /\ SubSeq(d, 1, 1)[1] = d[1]
    BY <2>1, SubSeqProperties, SMT
  <2>3. Threshold - 1 = 1
    BY SMT
  <2> QED
    BY <2>2, <2>3, Zenon
<1> HIDE DEF rest
<1> DEFINE first == <<b>>
<1>3. first \in Seq(S) /\ Len(first) = 1 /\ first[1] = b
  <2>1. Len(first) = 1 /\ first[1] = b
    BY SMT
  <2>2. first = [k \in 1..1 |-> b]
    BY SMT
  <2>3. [k \in 1..1 |-> b] \in Seq(S)
    BY <1>1, IsASeq, SMT
  <2> QED
    BY <2>1, <2>2, <2>3, Zenon
<1> HIDE DEF first
<1>4. /\ first \o rest \in Seq(S) /\ Len(first \o rest) = 2
      /\ (first \o rest)[1] = b /\ (first \o rest)[2] = d[1]
  <2> DEFINE both == first \o rest
  <2>1. /\ both \in Seq(S) /\ Len(both) = Len(first) + Len(rest)
        /\ \A k \in 1..(Len(first) + Len(rest)) :
             both[k] = IF k <= Len(first) THEN first[k] ELSE rest[k - Len(first)]
    BY <1>2, <1>3, ConcatProperties, Zenon
  <2> HIDE DEF both
  <2>2. both \in Seq(S) /\ Len(both) = 2 /\ both[1] = b /\ both[2] = d[1]
    BY <1>2, <1>3, <2>1, SMT
  <2> QED
    BY <2>2, Zenon DEF both
<1>5. line \in Seq(S) /\ Len(line) = 2 /\ line[1] = b /\ line[2] = d[1]
  BY <1>1, SMT
<1> HIDE DEF line
<1>6. first \o rest = line
  <2>1. \A k \in 1..2 : (first \o rest)[k] = line[k]
    BY <1>4, <1>5, SMT
  <2> QED
    BY <1>4, <1>5, <2>1, SeqEqual, Zenon
<1> QED
  BY <1>6, Zenon DEF ByteShare, first, rest, line

\* And if a byte of a share may be any byte, whatever the secret's byte is, then a
\* share may be any sequence of bytes as long as the secret, whichever node's it
\* is: Split draws for every byte afresh, so the bytes of one share have no
\* relation either.
THEOREM SharesOfAnyLengthHide ==
    ASSUME BytesHide PROVE AlgSpec => []Hides
<1>1. ASSUME Dealt, Threshold = 2, Len(taken) = 1
      PROVE  {Split(secret, N, Threshold, coeffs)[taken[1].index].data :
                coeffs \in Draws(Len(secret))} = [1..Len(secret) -> Byte]
  <2>1. PICK p \in Answered : taken = [k \in 1..Len(p) |-> shares[p[k]]]
    BY <1>1, Zenon DEF Dealt
  <2>2. p \in Seq(1..N) /\ Len(p) \in Nat
    BY LenProperties, Zenon DEF Answered
  <2>3. 1 \in 1..Len(p)
    <3>1. Len(taken) = Len(p)
      BY <2>1, <2>2, SMT
    <3> QED
      BY <1>1, <3>1, SMT
  <2>4. p[1] \in 1..N
    BY <2>2, <2>3, ElementOfSeq, Zenon
  <2>5. taken[1].index = p[1]
    <3>1. taken[1] = shares[p[1]]
      BY <2>1, <2>3, Zenon
    <3>2. shares[p[1]].index = p[1]
      BY <1>1, <2>4, SMT DEF Dealt
    <3> QED
      BY <3>1, <3>2, Zenon
  <2> DEFINE i == p[1]
             L == Len(secret)
             given(coeffs) == Split(secret, N, Threshold, coeffs)[i].data
  <2>6. ASSUME NEW coeffs
        PROVE  given(coeffs) = [b \in 1..L |-> ByteShare(secret[b], coeffs[b], Threshold, i)]
    <3> DEFINE data(j) == [b \in 1..L |-> ByteShare(secret[b], coeffs[b], Threshold, j)]
    <3>1. Split(secret, N, Threshold, coeffs) = [j \in 1..N |-> [index |-> j, data |-> data(j)]]
      BY <1>1, Zenon DEF Dealt, Split
    <3> HIDE DEF data
    <3>2. Split(secret, N, Threshold, coeffs)[i] = [index |-> i, data |-> data(i)]
      BY <2>4, <3>1, Zenon
    <3>3. [index |-> i, data |-> data(i)].data = data(i)
      OBVIOUS
    <3> QED
      BY <3>2, <3>3, Zenon DEF data
  <2>7. \A b \in 1..L : secret[b] \in Byte
    BY <1>1, ElementOfSeq, Zenon DEF Dealt
  <2>8. \A b \in 1..L : {evalPolynomial(<<secret[b], c>>, Number(i)) : c \in Byte} = Byte
    BY <2>4, <2>7, Zenon DEF BytesHide
  <2> HIDE DEF given, L
  <2>9. ASSUME NEW coeffs \in [1..L -> [1..1 -> Byte]]
        PROVE  given(coeffs) \in [1..L -> Byte]
    <3>1. ASSUME NEW b \in 1..L
          PROVE  ByteShare(secret[b], coeffs[b], Threshold, i) \in Byte
      <4>1. coeffs[b] \in [1..1 -> Byte]
        OBVIOUS
      <4>2. coeffs[b][1] \in Byte
        <5>1. 1 \in 1..1
          BY SMT
        <5> QED
          BY <4>1, <5>1, Zenon
      <4>3. ByteShare(secret[b], coeffs[b], Threshold, i)
              = evalPolynomial(<<secret[b], coeffs[b][1]>>, Number(i))
        BY <1>1, <2>7, <4>1, AByteIsALine, Zenon
      <4> QED
        BY <2>8, <4>2, <4>3, Zenon
    <3> QED
      BY <2>6, <3>1, Zenon
  <2>10. ASSUME NEW f \in [1..L -> Byte]
         PROVE  \E coeffs \in [1..L -> [1..1 -> Byte]] : given(coeffs) = f
    <3> DEFINE c(b) == CHOOSE x \in Byte : evalPolynomial(<<secret[b], x>>, Number(i)) = f[b]
               drew == [b \in 1..L |-> [k \in 1..1 |-> c(b)]]
    <3>1. ASSUME NEW b \in 1..L
          PROVE  c(b) \in Byte /\ evalPolynomial(<<secret[b], c(b)>>, Number(i)) = f[b]
      <4>1. f[b] \in {evalPolynomial(<<secret[b], x>>, Number(i)) : x \in Byte}
        BY <2>8, Zenon
      <4>2. \E x \in Byte : evalPolynomial(<<secret[b], x>>, Number(i)) = f[b]
        BY <4>1, Zenon
      <4> QED
        BY <4>2, Zenon
    <3> HIDE DEF c
    <3>2. drew \in [1..L -> [1..1 -> Byte]]
      BY <3>1, Zenon
    <3>3. ASSUME NEW b \in 1..L
          PROVE  ByteShare(secret[b], drew[b], Threshold, i) = f[b]
      <4>1. drew[b] \in [1..1 -> Byte]
        BY <3>2, Zenon
      <4>2. drew[b][1] = c(b)
        <5>1. 1 \in 1..1
          BY SMT
        <5> QED
          BY <5>1, Zenon
      <4>3. ByteShare(secret[b], drew[b], Threshold, i)
              = evalPolynomial(<<secret[b], drew[b][1]>>, Number(i))
        <5> HIDE DEF drew
        <5> QED
          BY <1>1, <2>7, <4>1, AByteIsALine, Zenon
      <4> QED
        BY <3>1, <4>2, <4>3, Zenon
    <3> HIDE DEF drew
    <3>4. given(drew) = f
      <4>1. f = [b \in 1..L |-> f[b]]
        OBVIOUS
      <4> QED
        BY <2>6, <3>3, <4>1, Zenon
    <3> QED
      BY <3>2, <3>4, Zenon
  <2>11. {given(coeffs) : coeffs \in [1..L -> [1..1 -> Byte]]} = [1..L -> Byte]
    BY <2>9, <2>10, Zenon
  <2> QED
    BY <2>5, <2>11, Zenon DEF Draws, given, L
<1>2. DealtInv => Hides
  <2>1. NothingDealt => Len(taken) # 1
    BY SMT DEF NothingDealt
  <2> QED
    BY <1>1, <2>1, Zenon DEF DealtInv, Hides
<1> QED
  BY <1>2, AlwaysDealt, PTL

=============================================================================
