----------------------------------- MODULE Uri -----------------------------------
(***************************************************************************)
(* Replica ids (caf/crdt/uri.hpp): the parser, an automaton over the        *)
(* characters of a text, and back.  A text is a sequence of characters;     *)
(* those that the parser does not look at are one letter in two cases.      *)
(***************************************************************************)
EXTENDS Naturals, Sequences

Wildcard == "*"
PathDelim == "/"
Char == {"a", "A", ":", PathDelim, Wildcard}

ToLower(c) == IF c = "A" THEN "a" ELSE c

Blank == [state |-> "parse_scheme", scheme |-> <<>>, path |-> <<>>]

\* consume, for a parser that has not failed.
Consume(u, c) ==
  CASE u.state = "parse_scheme" ->
         IF c = ":" THEN [u EXCEPT !.state = "parse_slash"]
         ELSE [u EXCEPT !.scheme = Append(@, c)]
    [] u.state = "parse_slash" ->
         [u EXCEPT !.state = IF c = PathDelim THEN "parse_id" ELSE "failed"]
    [] u.state = "parse_id" ->
         [u EXCEPT !.path = Append(@, c),
                   !.state = IF c = Wildcard THEN "parse_end" ELSE @]
    [] u.state \in {"parse_end", "failed"} -> [u EXCEPT !.state = "failed"]

\* The parser after each character.
Parsing(text) ==
  LET after[n \in 0 .. Len(text)] ==
        IF n = 0 THEN Blank ELSE Consume(after[n - 1], ToLower(text[n]))
  IN  after

\* What parse leaves in the parser.
ParseText(text) == Parsing(text)[Len(text)]

\* The uri that the constructor makes of a text: it ignores whether parse fails and
\* keeps what was consumed until then.
Parse(text) == [scheme |-> ParseText(text).scheme, path |-> ParseText(text).path]

Valid(u) == u.path # <<>> /\ u.scheme # <<>>

\* Fault: the delimiters as clients write them.
AsStringWithSlashes(u) == u.scheme \o <<":", PathDelim, PathDelim>> \o u.path

AsString(u) == u.scheme \o <<":", PathDelim>> \o u.path

================================================================================
