-------------------------------- MODULE Gate --------------------------------
(***************************************************************************)
(* The correctness gate (gate.py): what of a candidate file it reads and   *)
(* how it comes to its verdict.  rocq compile is external: its two answers *)
(* are parameters.                                                         *)
(*                                                                         *)
(* A text is a sequence of symbols: brackets, stars, quotes, blanks, and   *)
(* words, which are one symbol each.                                       *)
(*                                                                         *)
(* A definition introduced by a remark in parentheses is a plausible       *)
(* mistake in the one that follows it; nothing else uses it.               *)
(***************************************************************************)
EXTENDS Integers, Sequences

Blank == " "
Quote == "\""

\* FORBIDDEN, reduced to two of its words.
Forbidden == {"Admitted", "Axiom"}

\* (A quote inside a comment is like any other symbol.)
OpensStringInCode(src, i, depth) == src[i] = Quote /\ depth = 0

OpensString(src, i, depth) == src[i] = Quote

\* strip_comments has read so many symbols: what it has kept of them, how many
\* comments and whether a string is open, and whether it has read the next symbol too.
Unread == [out |-> <<>>, depth |-> 0, inString |-> FALSE, ahead |-> FALSE]

\* It reads symbol i.  Comments nest, and strings in them are strings; in a string
\* two quotes are one; a string of the code leaves a blank.
ReadOn(src, i, s) ==
  LET Sees(x, y) == i < Len(src) /\ src[i] = x /\ src[i + 1] = y
      Keep(x) == IF s.depth = 0 THEN Append(s.out, x) ELSE s.out
  IN  IF s.ahead THEN [s EXCEPT !.ahead = FALSE]
      ELSE IF s.inString THEN
        IF Sees(Quote, Quote) THEN [s EXCEPT !.ahead = TRUE]
                              ELSE [s EXCEPT !.inString = src[i] # Quote]
      ELSE IF OpensString(src, i, s.depth) THEN [s EXCEPT !.inString = TRUE, !.out = Keep(Blank)]
      ELSE IF Sees("(", "*") THEN [s EXCEPT !.depth = @ + 1, !.ahead = TRUE]
      ELSE IF s.depth > 0 /\ Sees("*", ")") THEN [s EXCEPT !.depth = @ - 1, !.ahead = TRUE]
      ELSE [s EXCEPT !.out = Keep(src[i])]

\* strip_comments: what is left of a text without its comments and strings.
strip_comments(src) ==
  LET Read[i \in 0..Len(src)] == IF i = 0 THEN Unread ELSE ReadOn(src, i, Read[i - 1])
  IN Read[Len(src)].out

NoSplit == 0 - 1

\* The first symbol of a text behind position i that is not a blank.
Ink(text, i) ==
  {j \in i + 1..Len(text) : text[j] # Blank /\ \A k \in i + 1..j - 1 : text[k] = Blank}

\* split_at_prefix: where the prefix ends in the candidate when blanks are left
\* out of both.
split_at_prefix(candidate, prefix) ==
  LET After[k \in 0..Len(prefix)] ==
        IF k = 0 THEN 0 ELSE
        LET last == After[k - 1]
            next == {j \in Ink(candidate, last) : candidate[j] = prefix[k]}
        IN IF last = NoSplit \/ prefix[k] = Blank THEN last
           ELSE IF next # {} THEN CHOOSE j \in next : TRUE
           ELSE NoSplit
  IN After[Len(prefix)]

\* parse_assumptions: what the last "Print Assumptions" block of the output
\* lists, with "none" for no block at all.  A line is the "closed" message, the
\* header "Axioms:", an unsafe-flag line, or the name of an axiom.
parse_assumptions(output) ==
  LET Last(x) == CHOOSE i \in 0..Len(output) :
                   /\ i > 0 => output[i] = x
                   /\ \A j \in i + 1..Len(output) : output[j] # x
      rest == SubSeq(output, Last("Axioms:") + 1, Len(output))
      lines == {rest[i] : i \in DOMAIN rest}
  IN CASE Last("closed") > Last("Axioms:") -> [found |-> TRUE, axioms |-> {}, unsafe |-> FALSE]
       [] Last("closed") = 0 /\ Last("Axioms:") = 0 ->
            [found |-> FALSE, axioms |-> {}, unsafe |-> FALSE]
       [] OTHER -> [found |-> TRUE, axioms |-> lines \ {"***"}, unsafe |-> "***" \in lines]

\* check: the verdict on a candidate, from the exit codes of the compiler and of
\* the audit and from the audit's output.
check(candidate, prefix, theorem_name, code, code2, out2) ==
  LET split  == split_at_prefix(candidate, prefix)
      region == strip_comments(SubSeq(candidate, split + 1, Len(candidate)))
      audit  == parse_assumptions(out2)
  IN CASE split = NoSplit -> "prefix_modified"
       [] split # NoSplit /\ \E i \in DOMAIN region : region[i] \in Forbidden -> "forbidden_token"
       [] OTHER ->
            IF code # 0 THEN "recompile_failed"
            ELSE IF code2 # 0 THEN "assumption_audit_failed"
            ELSE IF ~audit.found THEN "assumption_parse_failed"
            ELSE IF audit.unsafe THEN "unsafe_flags"
            ELSE IF theorem_name \in audit.axioms THEN "target_is_axiom"
            ELSE "solved"
=============================================================================
