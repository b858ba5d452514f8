---------------------------- MODULE Registration ----------------------------
(***************************************************************************)
(* The rules for a new account: what the auth service takes for an e-mail   *)
(* address and for a password (src/auth/internal/services/auth_service,     *)
(* register.go and password_validation.go), and what the forms of the       *)
(* browser do (src/frontend/lib/utils.ts).                                  *)
(*                                                                         *)
(* Of a character of an address only its kind counts.                       *)
(*                                                                         *)
(* A password is a sequence of characters; the runs of sequential and of    *)
(* repeated characters are looked for in the bytes of its lower case.  So a *)
(* character is its class and the bytes of its lower case.                  *)
(***************************************************************************)
EXTENDS Integers, SequencesExt

CONSTANTS
    MinLength, MaxLength,   \* 12 and 128
    Window,                 \* 4 characters in a row are too many
    MaxEmail, MaxLocal      \* 254 and 64

ASSUME RegistrationAssumption ==
    /\ MinLength \in Nat /\ MaxLength \in Nat /\ Window \in Nat \ {0, 1}
    /\ MaxEmail \in Nat /\ MaxLocal \in Nat

\* A "letter" has no case.
Class == {"upper", "lower", "digit", "letter", "special"}

-----------------------------------------------------------------------------

sequences ==
    {<<"a", "b", "c", "d", "e", "f", "g", "h", "i", "j", "k", "l", "m",
       "n", "o", "p", "q", "r", "s", "t", "u", "v", "w", "x", "y", "z">>,
     <<"0", "1", "2", "3", "4", "5", "6", "7", "8", "9">>,
     <<"q", "w", "e", "r", "t", "y", "u", "i", "o", "p">>,
     <<"a", "s", "d", "f", "g", "h", "j", "k", "l">>,
     <<"z", "x", "c", "v", "b", "n", "m">>,
     <<"7", "8", "9", "4", "5", "6", "1", "2", "3", "0">>}

ToLower(password) == FlattenSeq([i \in 1..Len(password) |-> password[i].lower])

\* Mutant: the last window is not looked at.
Windows_OneLess(s) == {SubSeq(s, i, i + Window - 1) : i \in 1..(Len(s) - Window)}

Windows(s) == {SubSeq(s, i, i + Window - 1) : i \in 1..(Len(s) - Window + 1)}

\* Mutant: sequences are looked for in one direction only.
Runs_Forward == UNION {Windows(seq) : seq \in sequences}

Runs == UNION {Windows(seq) \cup Windows(Reverse(seq)) : seq \in sequences}

\* containsSubseq, for all sequences and their reverse.
containsSequential(password) == Windows(ToLower(password)) \cap Runs # {}

containsRepeated(password) ==
    \E window \in Windows(ToLower(password)) :
      \A j \in 2..Window : window[j] = window[1]

Has(password, class) == \E i \in 1..Len(password) : password[i].class = class

\* All rules are checked, and what was found is reported together.
ValidatePassword(password) ==
    {v \in {"TooShort", "TooLong", "MissingUppercase", "MissingLowercase",
            "MissingDigit", "MissingSpecialChar", "SequentialChars", "RepeatedChars"} :
       CASE v = "TooShort" -> Len(password) < MinLength
         [] v = "TooLong" -> Len(password) > MaxLength
         [] v = "MissingUppercase" -> ~Has(password, "upper")
         [] v = "MissingLowercase" -> ~Has(password, "lower")
         [] v = "MissingDigit" -> ~Has(password, "digit")
         [] v = "MissingSpecialChar" -> ~Has(password, "special")
         [] v = "SequentialChars" -> containsSequential(password)
         [] v = "RepeatedChars" -> containsRepeated(password)}

-----------------------------------------------------------------------------
(* Addresses: letters, digits and hyphens ("digit"), the marks of a local   *)
(* part, dots, at signs, spaces, and any other character.                   *)

Kind == {"letter", "digit", "mark", ".", "@", " ", "other"}

\* Every character of s from i to j is of one of the kinds.
Only(s, i, j, kinds) == \A k \in i..j : s[k] \in kinds

TrimSpace(s) ==
    LET seen == {i \in 1..Len(s) : s[i] # " "} IN
      IF seen = {} THEN <<>> ELSE SubSeq(s, Min(seen), Max(seen))

\* Mutant: what stands before the last dot may be empty, and the dot with it.
emailRegex_NoDot(s) ==
    \E at \in 2..Len(s) :
      /\ s[at] = "@"
      /\ Only(s, 1, at - 1, {"letter", "digit", "mark", "."})
      /\ at + 2 <= Len(s) /\ Only(s, at + 1, Len(s), {"letter", "digit", "."})

emailRegex(s) ==
    \E at \in 2..Len(s), dot \in 1..Len(s) :
      /\ s[at] = "@" /\ s[dot] = "." /\ at + 1 < dot /\ dot + 2 <= Len(s)
      /\ Only(s, 1, at - 1, {"letter", "digit", "mark", "."})
      /\ Only(s, at + 1, dot - 1, {"letter", "digit", "."})
      /\ Only(s, dot + 1, Len(s), {"letter"})

\* The local part ends before the first at sign.
validateEmail(s) ==
    LET ats == {i \in 1..Len(s) : s[i] = "@"} IN
      /\ Len(s) <= MaxEmail
      /\ ats # {} /\ Min(ats) > 1 /\ Min(ats) <= MaxLocal + 1
      /\ emailRegex(s)

\* EMAIL_REGEX of the forms for registration and login.
FormAccepts(s) ==
    \E at \in 2..Len(s), dot \in 1..(Len(s) - 1) :
      /\ s[at] = "@" /\ s[dot] = "." /\ at + 1 < dot
      /\ Only(s, 1, at - 1, Kind \ {"@", " "})
      /\ Only(s, at + 1, dot - 1, Kind \ {"@", " "})
      /\ Only(s, dot + 1, Len(s), Kind \ {"@", " "})

=============================================================================
