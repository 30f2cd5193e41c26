-------------------------------- MODULE Wildcard --------------------------------
(***************************************************************************)
(* The URI patterns of wildcard/matcher.go: CompileWithSeparator turns a   *)
(* pattern into a regular expression, Matches runs it.  Both are operators *)
(* here; the steps write a pattern and then an input, one rune at a time,  *)
(* so that every pattern meets every input up to the bounds.               *)
(*                                                                         *)
(* A regular expression is the sequence of the pieces that the code        *)
(* writes, each with a mark when a "?" was written behind it.  Package     *)
(* regexp is modelled by the positions of the input that it can reach.     *)
(***************************************************************************)
EXTENDS Naturals, Sequences

CONSTANTS
    Letters,      \* runes that are neither "*" nor the separator
    MaxPattern,   \* bound: length of a pattern
    MaxInput      \* bound: length of an input

(* A letter is none of the names this module has for pieces of a regular   *)
(* expression, and no newline, the one rune that the dot of package regexp *)
(* does not match: inputs are printed by URL.String (auth.go:189), which   *)
(* escapes control characters.                                             *)
ASSUME WildcardAssumption ==
    /\ Letters \cap {"/", "*", "^", "word", "rest", "newline"} = {}
    /\ {MaxPattern, MaxInput} \subseteq Nat

VARIABLES
    pattern,      \* the argument of Compile
    matcher,      \* its result; <<>> before and after an error
    phase,        \* "pattern", "input" or "error"
    input         \* the argument of Matches

vars == <<pattern, matcher, phase, input>>

Separator == "/"
Runes == Letters \cup {Separator}

-----------------------------------------------------------------------------
(* strings.Split: a separator ends a segment, and one more follows the     *)
(* last.  Splits(s)[n] are the segments of the first n runes.              *)
Cut(segs, r) ==
    IF r = Separator THEN Append(segs, <<>>)
    ELSE [segs EXCEPT ![Len(segs)] = Append(@, r)]

Splits(s) ==
    LET split[n \in 0 .. Len(s)] ==
            IF n = 0 THEN << <<>> >> ELSE Cut(split[n - 1], s[n])
    IN  split

Split(s) == Splits(s)[Len(s)]

Piece(x) == [piece |-> x, optional |-> FALSE]

(* A "?" behind what was written last. *)
Optional(regex) == [regex EXCEPT ![Len(regex)].optional = TRUE]

(* A segment other than "**", and the separator behind it. *)
Written(regex, segment) ==
    Append(IF segment = <<"*">> THEN Append(regex, Piece("word"))
           ELSE regex \o [i \in DOMAIN segment |-> Piece(segment[i])],
           Piece(Separator))

(* Mutants: the last separator is required; every separator is optional;   *)
(* "**" stands for one segment at most.                                    *)
SegmentEndRequired(regex, segment, last) ==
    IF segment = <<"*", "*">> THEN Append(Optional(regex), Piece("rest"))
    ELSE Written(regex, segment)

SegmentAllOptional(regex, segment, last) ==
    IF segment = <<"*", "*">> THEN Append(Optional(regex), Piece("rest"))
    ELSE Optional(Written(regex, segment))

SegmentRestIsWord(regex, segment, last) ==
    IF segment = <<"*", "*">> THEN Optional(Append(Optional(regex), Piece("word")))
    ELSE IF last THEN Optional(Written(regex, segment))
    ELSE Written(regex, segment)

(* What the loop writes for one segment. *)
Segment(regex, segment, last) ==
    IF segment = <<"*", "*">> THEN Append(Optional(regex), Piece("rest"))
    ELSE IF last THEN Optional(Written(regex, segment))
    ELSE Written(regex, segment)

(* Mutant: "*" inside a segment is taken literally. *)
RejectedLiterally(p) ==
    LET segments == Split(p) IN
    p = <<>> \/ \E i \in DOMAIN segments :
                   segments[i] = <<"*", "*">> /\ i # Len(segments)

(* The errors: no pattern, "**" before the end, "*" inside a segment. *)
Rejected(p) ==
    LET segments == Split(p) IN
    \/ p = <<>>
    \/ \E i \in DOMAIN segments :
          \/ segments[i] = <<"*", "*">> /\ i # Len(segments)
          \/ /\ segments[i] \notin {<<"*">>, <<"*", "*">>}
             /\ \E j \in DOMAIN segments[i] : segments[i][j] = "*"

(* The loop: what has been written after k segments. *)
Regexes(segments) ==
    LET regex[k \in 0 .. Len(segments)] ==
            IF k = 0 THEN <<Piece("^")>>
            ELSE Segment(regex[k - 1], segments[k], k = Len(segments))
    IN  regex

CompileWithSeparator(p) == LET segments == Split(p) IN Regexes(segments)[Len(segments)]

-----------------------------------------------------------------------------
(* Package regexp. *)

(* The positions of s where a piece may end that starts in one of from:    *)
(* the start of the text, one segment, the rest of the text from a         *)
(* separator on or nothing, or one rune.  No rune is a newline, so that    *)
(* the dot of "rest" matches them all.                                     *)
Reach(from, piece, s) ==
    CASE piece = "^" -> from \cap {0}
      [] piece = "word" ->
            {q \in 1 .. Len(s) : \E p \in from :
                p < q /\ \A i \in p + 1 .. q : s[i] # Separator}
      [] piece = "rest" -> from \cup {q \in 1 .. Len(s) :
                                        \E p \in from : p < q /\ s[p + 1] = Separator}
      [] OTHER -> {q \in 1 .. Len(s) : q - 1 \in from /\ s[q] = piece}

(* The same behind a "?". *)
Step(from, r, s) == Reach(from, r.piece, s) \cup (IF r.optional THEN from ELSE {})

(* A match may start anywhere; the positions after i pieces. *)
Reached(regex, s) ==
    LET at[i \in 0 .. Len(regex)] ==
            IF i = 0 THEN 0 .. Len(s) ELSE Step(at[i - 1], regex[i], s)
    IN  at

(* It ends, by "$", at the end. *)
Matches(regex, s) == Len(s) \in Reached(regex, s)[Len(regex)]

-----------------------------------------------------------------------------
TypeOK ==
    /\ pattern \in Seq(Runes \cup {"*"}) /\ Len(pattern) <= MaxPattern
    /\ input \in Seq(Runes) /\ Len(input) <= MaxInput
    /\ phase \in {"pattern", "input", "error"}
    /\ \A i \in DOMAIN matcher :
          matcher[i] \in [piece : Runes \cup {"^", "word", "rest"}, optional : BOOLEAN]

Init ==
    /\ pattern = <<>>
    /\ matcher = <<>>
    /\ phase = "pattern"
    /\ input = <<>>

WritePattern(r) ==
    /\ phase = "pattern" /\ Len(pattern) < MaxPattern
    /\ pattern' = Append(pattern, r)
    /\ UNCHANGED <<matcher, phase, input>>

Compile ==
    /\ phase = "pattern"
    /\ \/ Rejected(pattern) /\ phase' = "error" /\ UNCHANGED matcher
       \/ /\ ~Rejected(pattern)
          /\ phase' = "input"
          /\ matcher' = CompileWithSeparator(pattern)
    /\ UNCHANGED <<pattern, input>>

WriteInput(r) ==
    /\ phase = "input" /\ Len(input) < MaxInput
    /\ input' = Append(input, r)
    /\ UNCHANGED <<pattern, matcher, phase>>

Next ==
    \/ \E r \in Runes \cup {"*"} : WritePattern(r)
    \/ Compile
    \/ \E r \in Runes : WriteInput(r)
    \/ phase # "pattern" /\ UNCHANGED vars

Spec == Init /\ [][Next]_vars

-----------------------------------------------------------------------------
(* What a pattern asks for, segment by segment and without a regular       *)
(* expression.  Literals, "*" and "**" are as documented                   *)
(* (matcher.go:21-34).  Of the final separator the documentation says only *)
(* that it is optional "at the end of a string" (lines 36-38), as if       *)
(* strings with and without it were equivalent to every pattern.  To the   *)
(* code (lines 143-147) that holds for the input alone: one separator more *)
(* than the pattern asks for is allowed, but a separator that the pattern  *)
(* itself ends in is asked for, so that "a/" does not match "a".           *)

Last(s) == s[Len(s)]
Front(s) == SubSeq(s, 1, Len(s) - 1)

(* The first n segments of s are what the first n segments of p ask for. *)
Agree(p, s, n) ==
    /\ Len(s) >= n
    /\ \A i \in 1 .. n : IF p[i] = <<"*">> THEN s[i] # <<>> ELSE s[i] = p[i]

Means(p, s) ==
    LET segs == Split(p)
        whole(t) == Agree(segs, Split(t), Len(segs)) /\ Len(Split(t)) = Len(segs)
    IN  IF Last(segs) = <<"*", "*">> THEN Agree(segs, Split(s), Len(segs) - 1)
        ELSE whole(s) \/ (s # <<>> /\ Last(s) = Separator /\ whole(Front(s)))

(* A pattern that compiles matches what its segments say: a literal        *)
(* exactly, "*" one segment that is not empty, a final "**" anything that  *)
(* follows, and one separator more at the end or none (matcher.go:99-163). *)
MatchesMeaning ==
    phase = "input" => (Matches(matcher, input) <=> Means(pattern, input))

(* "The matcher will consider the separator optional if it occurs at the   *)
(* end of a string" (matcher.go:36): true for every pattern that does not  *)
(* itself end in a separator, alone or before "**".  For a pattern that    *)
(* ends in a separator it is false, and no input without one is matched    *)
(* (matcher.go:140-147).                                                   *)
EndsInSeparator ==
    LET segs == Split(pattern)
        last == IF Last(segs) = <<"*", "*">> THEN Len(segs) - 1 ELSE Len(segs)
    IN  last > 1 /\ segs[last] = <<>>
TrailingSeparatorOptional ==
    phase = "input" /\ (input = <<>> \/ Last(input) # Separator) =>
        /\ ~EndsInSeparator =>
              (Matches(matcher, input) <=> Matches(matcher, Append(input, Separator)))
        /\ Last(pattern) = Separator => ~Matches(matcher, input)

(* "A double '**' wildcard will match anything, including the separator    *)
(* rune" (matcher.go:33): behind "/**" a pattern matches what it matched   *)
(* before and whatever continues a match after a separator, through any    *)
(* number of further separators, and it matches nothing else               *)
(* (matcher.go:122-133).                                                   *)
DoubleWildcardWidens ==
    phase = "input" /\ Last(Split(pattern)) # <<"*", "*">> =>
        LET wider == CompileWithSeparator(pattern \o <<Separator, "*", "*">>)
        IN  Matches(wider, input) <=>
                \/ Matches(matcher, input)
                \/ \E k \in DOMAIN input :
                      input[k] = Separator /\ Matches(matcher, SubSeq(input, 1, k - 1))

=============================================================================
