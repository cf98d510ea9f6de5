-------------------------------- MODULE Jsonc --------------------------------
(***************************************************************************)
(* stripJSONCComments of loader.go: the automaton that removes the         *)
(* comments of a JSONC file, one iteration of its loop at a time, and what *)
(* it is to compute.                                                       *)
(***************************************************************************)
EXTENDS Integers, Sequences, SequencesExt

\* The bytes the automaton tells apart; any other byte is copied or dropped.
Quote == "quote"
Backslash == "backslash"
Slash == "slash"
Star == "star"
Newline == "newline"

\* The local variables of the loop, and the two results of a handler: the state
\* and whether the byte behind the current one is consumed with it.
NewParser == [state |-> "code", escaped |-> FALSE, index |-> 1, result |-> <<>>]

Done(source, parser) == parser.index > Len(source)

\* peekJSONCByte.
NextIs(source, parser, byte) ==
    parser.index + 1 <= Len(source) /\ source[parser.index + 1] = byte

Keep(parser, byte) == Append(parser.result, byte)

\* Fault: a quote ends the string even behind a backslash.
handleStringStateNoEscape(parser, current) ==
    [parser EXCEPT !.result = Keep(parser, current),
                   !.state = IF current = Quote THEN "code" ELSE "string",
                   !.index = @ + 1]

handleStringState(parser, current) ==
    [parser EXCEPT !.result = Keep(parser, current),
                   !.escaped = ~parser.escaped /\ current = Backslash,
                   !.state = IF ~parser.escaped /\ current = Quote THEN "code" ELSE "string",
                   !.index = @ + 1]

handleLineCommentState(parser, current) ==
    IF current = Newline
    THEN [parser EXCEPT !.result = Keep(parser, Newline), !.state = "code", !.index = @ + 1]
    ELSE [parser EXCEPT !.index = @ + 1]

handleBlockCommentState(parser, current, source) ==
    IF current = Newline
    THEN [parser EXCEPT !.result = Keep(parser, Newline), !.index = @ + 1]
    ELSE IF current = Star /\ NextIs(source, parser, Slash)
    THEN [parser EXCEPT !.state = "code", !.index = @ + 2]
    ELSE [parser EXCEPT !.index = @ + 1]

handleCodeState(parser, current, source) ==
    IF current = Slash /\ NextIs(source, parser, Slash)
    THEN [parser EXCEPT !.state = "line", !.index = @ + 2]
    ELSE IF current = Slash /\ NextIs(source, parser, Star)
    THEN [parser EXCEPT !.state = "block", !.index = @ + 2]
    ELSE [parser EXCEPT !.result = Keep(parser, current),
                        !.state = IF current = Quote THEN "string" ELSE "code",
                        !.index = @ + 1]

\* One iteration of the loop.
stripJSONCComments(source, parser) ==
    LET current == source[parser.index]
    IN  CASE parser.state = "string" -> handleStringState(parser, current)
          [] parser.state = "line" -> handleLineCommentState(parser, current)
          [] parser.state = "block" -> handleBlockCommentState(parser, current, source)
          [] parser.state = "code" -> handleCodeState(parser, current, source)

-----------------------------------------------------------------------------
(* What stripping is to compute, told without an automaton: a text is cut   *)
(* into tokens, each the longest that starts where the one before it ended. *)

\* The last position of the token that starts at i.
TokenEnd(source, i) ==
    LET n == Len(source)
        at(j, byte) == j <= n /\ source[j] = byte
        Escapes(j) == \* how many backslashes stand directly before j
            Cardinality({k \in i .. j - 1 : \A m \in k .. j - 1 : source[m] = Backslash})
        FirstOr(ends, otherwise) == IF ends = {} THEN otherwise ELSE Min(ends)
    IN  CASE at(i, Quote) ->
               FirstOr({j \in i + 1 .. n : source[j] = Quote /\ Escapes(j) % 2 = 0}, n)
          [] at(i, Slash) /\ at(i + 1, Slash) ->
               FirstOr({j \in i + 1 .. n - 1 : source[j + 1] = Newline}, n)
          [] at(i, Slash) /\ at(i + 1, Star) ->
               FirstOr({j \in i + 3 .. n : source[j] = Slash /\ source[j - 1] = Star}, n + 1)
          [] OTHER -> i

\* Where the tokens start.
TokenStarts(source) ==
    LET upTo[k \in 0 .. Len(source)] ==
            IF k = 0 THEN {1}
            ELSE IF k \in upTo[k - 1] THEN upTo[k - 1] \cup {TokenEnd(source, k) + 1}
            ELSE upTo[k - 1]
    IN  upTo[Len(source)] \cap DOMAIN source

IsComment(source, i) == source[i] = Slash /\ i < Len(source) /\ source[i + 1] \in {Slash, Star}

\* The text without its comments, except that the line breaks in them stay.
Uncommented(source) ==
    LET starts == TokenStarts(source)
        startOf(j) == Max({i \in starts : i <= j})
        kept == {j \in DOMAIN source :
                    IsComment(source, startOf(j)) => source[j] = Newline}
    IN  [k \in 1 .. Cardinality(kept) |->
            source[CHOOSE j \in kept : Cardinality({i \in kept : i <= j}) = k]]

\* A block comment without an end runs past the text.
Unterminated(source) ==
    \E i \in TokenStarts(source) : TokenEnd(source, i) > Len(source)
=============================================================================
