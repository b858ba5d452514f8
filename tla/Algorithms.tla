----------------------------- MODULE Algorithms -----------------------------
(***************************************************************************)
(* The pure algorithms, against what they are for: sharing a secret, the    *)
(* rules for new accounts, one-time passwords.  A state holds shares that    *)
(* are being collected, or a password, an address or a code that is entered. *)
(***************************************************************************)
EXTENDS Sharing, Registration, OTP

CONSTANTS
    SomePasswords,  \* bound: passwords that are proposed
    SomeEmails,     \* bound: addresses that are entered
    Times,          \* bound: times at which codes are presented, in seconds
    Reference       \* Reference[counter]: the code that RFC 4226 prints

VARIABLES
    password,       \* proposed, or <<>>
    email,          \* entered, or <<>>
    presented       \* <<counter, time>>: the code of that counter, then; or <<>>

algVars == <<vars, password, email, presented>>

NoShares ==
    /\ secret = CHOOSE s \in Secrets : TRUE
    /\ drawn = <<>>
    /\ shares = <<>> /\ taken = <<>>

AlgInit ==
    \/ Init /\ password = <<>> /\ email = <<>> /\ presented = <<>>
    \/ NoShares /\ password \in SomePasswords /\ email = <<>> /\ presented = <<>>
    \/ NoShares /\ password = <<>> /\ email \in SomeEmails /\ presented = <<>>
    \/ /\ NoShares /\ password = <<>> /\ email = <<>>
       /\ presented \in (DOMAIN Reference) \X Times

AlgNext == Next /\ UNCHANGED <<password, email, presented>>

AlgSpec == AlgInit /\ [][AlgNext]_algVars

-----------------------------------------------------------------------------
(* New accounts.                                                           *)

Ascii(p) == \A i \in 1..Len(p) : Len(p[i].lower) = 1

\* Which character follows which in one of the sequences, or precedes it.
Steps == {{<<<<seq[i]>>, <<seq[i + 1]>>>> : i \in 1..(Len(seq) - 1)} : seq \in sequences}
Walks == Steps \cup {{<<q[2], q[1]>> : q \in step} : step \in Steps}

\* Every two neighbours of some Window characters in a row are related by Rel.
InARow(p, Rel(_, _)) ==
    \E i \in 1..(Len(p) - Window + 1) :
      \A j \in i..(i + Window - 2) : Rel(p[j].lower, p[j + 1].lower)

\* Comparing bytes finds no run that characters do not have, and in ASCII it
\* finds them all, in either direction (containsSequential, containsRepeated).
RunsAreFound ==
    LET walks == \E walk \in Walks : InARow(password, LAMBDA c, d : <<c, d>> \in walk)
        repeats == InARow(password, LAMBDA c, d : c = d)
    IN  /\ containsSequential(password) => walks
        /\ containsRepeated(password) => repeats
        /\ Ascii(password) => /\ walks => containsSequential(password)
                              /\ repeats => containsRepeated(password)

Typed == {"TooShort", "MissingUppercase", "MissingLowercase", "MissingDigit",
          "MissingSpecialChar"}

\* Typing on heals what was missing and nothing else, and a password is as good
\* as it is backwards (ValidatePassword).
TypingOn ==
    Len(password) > 0 =>
      LET before == ValidatePassword(Front(password))
          now == ValidatePassword(password)
      IN  /\ (before \ now) \subseteq Typed /\ (now \ before) \cap Typed = {}
          /\ Ascii(password) => ValidatePassword(Reverse(password)) = now

\* Whoever could register is let through by the login form (validateEmail of
\* the auth service and of the browser, which have expressions of their own).
CanLogIn == LET normalized == TrimSpace(email) IN
              validateEmail(normalized) => FormAccepts(normalized)

-----------------------------------------------------------------------------
(* One-time passwords.                                                     *)

\* Codes are those of RFC 4226, Appendix D (hotp).
MatchesRFC == presented # <<>> => hotp(presented[1]) = Reference[presented[1]]

\* A code is good for its own period of 30 seconds, the one before and the one
\* after, and is recognised as its counter's all that time, which is what keeps
\* it from being used twice (validateOTPWithCounterAt).
CodeLifetime ==
    presented # <<>> =>
      LET counter == presented[1]
          time == presented[2]
          good == 30 * (counter - 1) <= time /\ time < 30 * (counter + 2)
      IN  /\ validateOTPAt(hotp(counter), time) <=> good
          /\ validateOTPWithCounterAt(hotp(counter), time)
               = IF good THEN <<TRUE, counter>> ELSE <<FALSE, 0>>

=============================================================================
