---------------------------------- MODULE Glob ----------------------------------
(***************************************************************************)
(* globMatch, by which whitelist rules choose hosts, images and instances. *)
(* It works on the bytes of the pattern and of the subject, while names    *)
(* are made of characters, of which some take two bytes.                   *)
(***************************************************************************)
EXTENDS Naturals, Sequences, Functions, SequencesExt

CONSTANTS
  Bytes,       \* Bytes[c]: the bytes of the character c
  MaxPattern,  \* bound: the symbols of a pattern
  MaxSubject   \* bound: the characters of a name

\* Assumed of the constants by the modules that give them values.
BoundAssumption == MaxPattern \in Nat /\ MaxSubject \in Nat

VARIABLES pattern, subject, verdict

vars == <<pattern, subject, verdict>>

Chars    == DOMAIN Bytes
Wild     == {"*", "?"}
Strings(S, n) == UNION {[1 .. k -> S] : k \in 0 .. n}

\* What UTF-8 sees to: no character is the beginning of another, and no byte
\* that begins one comes later in any.  The wildcards are bytes of their own.
Octets == UNION {Range(Bytes[c]) : c \in Chars}

EncodingAssumption ==
  /\ Octets \cap Wild = {} /\ Chars \cap Wild = {}
  /\ \A c \in Chars : Bytes[c] \in Seq(Octets) /\ Bytes[c] # << >>
  /\ \A c, d \in Chars : c # d => \E k \in DOMAIN Bytes[c] \cap DOMAIN Bytes[d] : Bytes[c][k] # Bytes[d][k]
  /\ \A c, d \in Chars : \A k \in DOMAIN Bytes[d] : k # 1 => Bytes[d][k] # Bytes[c][1]

\* How a string lies in memory; the wildcards take one byte each.
Encode(s) == FlattenSeq([n \in DOMAIN s |-> IF s[n] \in Wild THEN <<s[n]>> ELSE Bytes[s[n]]])

-----------------------------------------------------------------------------
\* Faulty variant: a star stands for at least one byte.
GlobSome(p, s) ==
  LET from[i \in 1 .. Len(p) + 1] ==
        IF i = Len(p) + 1 THEN {Len(s) + 1}
        ELSE LET rest == from[i + 1]
             IN  CASE p[i] = "*" -> {j \in 1 .. Len(s) : \E k \in rest : j < k}
                   [] p[i] = "?" -> {j \in 1 .. Len(s) : j + 1 \in rest}
                   [] OTHER      -> {j \in 1 .. Len(s) : p[i] = s[j] /\ j + 1 \in rest}
  IN  1 \in from[1]

\* Where the stars end that begin at i (TrimLeft).
AfterStars(p, i) == CHOOSE k \in i .. Len(p) + 1 :
                      /\ \A m \in i .. k - 1 : p[m] = "*"
                      /\ k <= Len(p) => p[k] # "*"

\* globMatchImpl, on bytes: from[i] has the places j for which the call for what
\* is left of the pattern from i and of the subject from j returns true.
globMatch(p, s) ==
  LET from[i \in 1 .. Len(p) + 1] ==
        IF i = Len(p) + 1 THEN {Len(s) + 1}
        ELSE LET k    == IF p[i] = "*" THEN AfterStars(p, i) ELSE i + 1
                 rest == from[k]
             IN  CASE p[i] = "*" -> {j \in 1 .. Len(s) + 1 : k = Len(p) + 1 \/ \E l \in rest : j <= l}
                   [] p[i] = "?" -> {j \in 1 .. Len(s) : j + 1 \in rest}
                   [] OTHER      -> {j \in 1 .. Len(s) : p[i] = s[j] /\ j + 1 \in rest}
  IN  1 \in from[1]

-----------------------------------------------------------------------------
Init ==
  /\ pattern \in Strings(Chars \cup Wild, MaxPattern)
  /\ subject \in Strings(Chars, MaxSubject)
  /\ verdict = "open"

\* MatchWhitelist asks about a rule and what it is about, unless that is empty.
Ask ==
  /\ verdict = "open"
  /\ subject # << >>
  /\ verdict' = IF globMatch(Encode(pattern), Encode(subject)) THEN "yes" ELSE "no"
  /\ UNCHANGED <<pattern, subject>>

Next == Ask

Spec == Init /\ [][Next]_vars

-----------------------------------------------------------------------------
\* What a pattern means: the subject can be cut into as many pieces as the
\* pattern has symbols, one for each; cut[n] is where the n-th one ends.
Fits(symbol, piece) ==
  \/ symbol = "*"
  \/ Len(piece) = 1 /\ symbol \in {"?", piece[1]}

Means(p, s) ==
  \E cut \in [0 .. Len(p) -> 0 .. Len(s)] :
    /\ cut[0] = 0 /\ cut[Len(p)] = Len(s)
    /\ \A n \in 1 .. Len(p) :
         cut[n - 1] <= cut[n] /\ Fits(p[n], SubSeq(s, cut[n - 1] + 1, cut[n]))

Answered == verdict # "open"

\* The code says of "?" that it stands for any char, and compares bytes: it
\* does so for a character of one byte only, and two of them are needed for a
\* letter such as the Cyrillic ones.
OneByteEach == \A n \in DOMAIN subject : Len(Bytes[subject[n]]) = 1

\* The recursion on bytes, which tries every place for a star and never comes
\* back to an earlier one, finds what the pattern means on characters, also
\* where a star meets half a character: for any pattern where characters have
\* one byte, and where they have more for a pattern without "?"
\* (globMatchImpl).
GlobAsMeant ==
  Answered /\ ("?" \notin Range(pattern) \/ OneByteEach) =>
    (verdict = "yes") = Means(pattern, subject)
=============================================================================
