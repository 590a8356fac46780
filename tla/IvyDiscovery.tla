---------------------------- MODULE IvyDiscovery ----------------------------
(***************************************************************************)
(* The parser of the announcement (ivydiscovery.h): version, port,         *)
(* identity and name, from the line of a datagram that anyone may send.    *)
(* Numbers are read digit by digit into an unsigned int, which must not    *)
(* wrap; a field that does not fit is refused, never cut.                  *)
(*                                                                         *)
(* A line is a sequence of characters; End stands for the terminating 0.   *)
(***************************************************************************)
EXTENDS Naturals, Sequences

CONSTANTS
  Lines,       \* the lines received
  Modulus,     \* UINT_MAX + 1
  VersionMax,  \* INT_MAX
  PortMax,     \* 65535
  IdSize, NameSize

ASSUME DiscoveryAssumption ==
  /\ {Modulus, VersionMax, PortMax, IdSize, NameSize} \subseteq Nat
  /\ 9 <= PortMax /\ PortMax < Modulus
  /\ 9 <= VersionMax /\ VersionMax < Modulus

VARIABLES
  line, p,     \* the line, and the cursor
  at,          \* the field being read, or "accepted" or "refused"
  number,      \* of IvyDiscoveryNumber
  out          \* the fields returned

vars == <<line, p, at, number, out>>

End == "end"
Blanks == {" ", "\t"}
LineEnds == {"\r", "\n"}
DigitValue == [d \in {"0", "1", "2", "3", "4", "5", "6", "7", "8", "9"} |->
  CASE d = "0" -> 0 [] d = "1" -> 1 [] d = "2" -> 2 [] d = "3" -> 3 [] d = "4" -> 4
    [] d = "5" -> 5 [] d = "6" -> 6 [] d = "7" -> 7 [] d = "8" -> 8 [] d = "9" -> 9]
Digits == DOMAIN DigitValue

At(k) == IF k <= Len(line) THEN line[k] ELSE End

(* The first position from k on whose character is, or is not, in S.       *)
SkipTo(k, S) ==
  CHOOSE j \in k .. Len(line) + 1 :
    (At(j) \in S \union {End}) /\ \A i \in k .. j - 1 : At(i) \notin S
SkipOver(k, S) ==
  CHOOSE j \in k .. Len(line) + 1 : At(j) \notin S /\ \A i \in k .. j - 1 : At(i) \in S

Refuse == at' = "refused" /\ UNCHANGED <<line, p, number, out>>

-----------------------------------------------------------------------------
(* IvyDiscoveryNumber, for the two numbers.                                *)

Limit == IF at \in {"version", "version digits"} THEN VersionMax ELSE PortMax

NumberStart ==
  /\ at \in {"version", "port"}
  /\ LET q == SkipOver(p, Blanks)
     IN  IF At(q) \notin Digits THEN Refuse
         ELSE /\ p' = q /\ number' = 0
              /\ at' = IF at = "version" THEN "version digits" ELSE "port digits"
              /\ UNCHANGED <<line, out>>

(* Mutant: the digit is left out of the comparison. *)
FitsNoDigit(digit) == number <= Limit \div 10

(* !(number > (limit - digit) / 10)                                        *)
Fits(digit) == number <= (Limit - digit) \div 10

NumberDigit ==
  /\ at \in {"version digits", "port digits"} /\ At(p) \in Digits
  /\ LET digit == DigitValue[At(p)]
     IN  IF ~Fits(digit) THEN Refuse
         ELSE /\ number' = (number * 10 + digit) % Modulus
              /\ p' = p + 1
              /\ UNCHANGED <<line, at, out>>

(* The number is followed by a blank, and a port is not 0.                 *)
NumberEnd ==
  /\ at \in {"version digits", "port digits"} /\ At(p) \notin Digits
  /\ IF At(p) \notin Blanks \/ (at = "port digits" /\ number = 0) THEN Refuse
     ELSE /\ p' = SkipOver(p, Blanks)
          /\ IF at = "version digits"
             THEN at' = "port" /\ out' = [out EXCEPT !.version = number]
             ELSE at' = "id" /\ out' = [out EXCEPT !.port = number]
          /\ UNCHANGED <<line, number>>

-----------------------------------------------------------------------------
(* The rest of IvyParseDiscovery.                                          *)

Id ==
  /\ at = "id"
  /\ LET q == SkipTo(p, Blanks \union LineEnds)
     IN  IF q = p \/ q - p >= IdSize \/ At(q) \notin Blanks THEN Refuse
         ELSE /\ out' = [out EXCEPT !.id = SubSeq(line, p, q - 1)]
              /\ p' = SkipOver(q, Blanks) /\ at' = "name"
              /\ UNCHANGED <<line, number>>

After(k, c) == IF At(k) = c THEN k + 1 ELSE k

(* Mutant: what follows the end of the line is ignored. *)
NameLoose ==
  /\ at = "name"
  /\ LET q == SkipTo(p, LineEnds)
     IN  IF q = p \/ q - p >= NameSize THEN Refuse
         ELSE /\ out' = [out EXCEPT !.name = SubSeq(line, p, q - 1)]
              /\ p' = After(After(q, "\r"), "\n") /\ at' = "accepted"
              /\ UNCHANGED <<line, number>>

Name ==
  /\ at = "name"
  /\ LET q == SkipTo(p, LineEnds)
         e == After(After(q, "\r"), "\n")
     IN  IF q = p \/ q - p >= NameSize \/ At(e) # End THEN Refuse
         ELSE /\ out' = [out EXCEPT !.name = SubSeq(line, p, q - 1)]
              /\ p' = e /\ at' = "accepted"
              /\ UNCHANGED <<line, number>>

Init ==
  /\ line \in Lines /\ p = 1 /\ at = "version" /\ number = 0
  /\ out = [version |-> 0, port |-> 0, id |-> <<>>, name |-> <<>>]

Next == NumberStart \/ NumberDigit \/ NumberEnd \/ Id \/ Name

Spec == Init /\ [][Next]_vars

-----------------------------------------------------------------------------
(* What an announcement is, in terms of the pieces of its line.            *)

All(k, m, S) == \A i \in k .. m : line[i] \in S

(* The number that the digits k .. m denote, of unbounded size.            *)
Value(k, m) ==
  LET v[i \in k - 1 .. m] == IF i < k THEN 0 ELSE v[i - 1] * 10 + DigitValue[line[i]]
  IN  v[m]

Endings == {<<>>, <<"\n">>, <<"\r">>, <<"\r", "\n">>}

Proper(o) ==
  /\ o.version <= VersionMax /\ o.port \in 1 .. PortMax
  /\ Len(o.id) \in 1 .. IdSize - 1 /\ Len(o.name) \in 1 .. NameSize - 1
  /\ \A i \in DOMAIN o.id : o.id[i] \notin Blanks \union LineEnds
  /\ \A i \in DOMAIN o.name : o.name[i] \notin LineEnds
  /\ o.name[1] \notin Blanks

(* The line is blanks, version, blanks, port, blanks, id, blanks, name and *)
(* ending, each up to the position of that letter, and the fields are P.   *)
IsAnnouncement(P(_)) ==
  LET N == Len(line)
  IN  \E a \in 0 .. N : All(1, a, Blanks) /\
      \E v \in a + 1 .. N : All(a + 1, v, Digits) /\
      \E b \in v + 1 .. N : All(v + 1, b, Blanks) /\
      \E q \in b + 1 .. N : All(b + 1, q, Digits) /\
      \E c \in q + 1 .. N : All(q + 1, c, Blanks) /\
      \E i \in c + 1 .. N, d \in c + 2 .. N : i < d /\ All(i + 1, d, Blanks) /\
      \E n \in d + 1 .. N : SubSeq(line, n + 1, N) \in Endings /\
        P([version |-> Value(a + 1, v), port |-> Value(b + 1, q),
           id |-> SubSeq(line, c + 1, i), name |-> SubSeq(line, d + 1, n)])

(* The number read so far is within the limit of its field, so that the    *)
(* unsigned int has not wrapped.                                           *)
NoWrap == at \in {"version digits", "port digits"} => number \in 0 .. Limit

(* The parser accepts exactly the announcements: what is accepted are the  *)
(* fields of the line, nothing cut and nothing left over, and no line that *)
(* has the four fields within their limits is refused.                     *)
ParsedRight ==
  /\ at = "accepted" => IsAnnouncement(LAMBDA o : Proper(o) /\ o = out)
  /\ at = "refused" => ~IsAnnouncement(Proper)
=============================================================================
