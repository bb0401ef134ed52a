------------------------------- MODULE Grammar -------------------------------
(***************************************************************************)
(* The parser's machinery (crates/covenant-parser/src/parser.rs).  `p` is  *)
(* the parser at work: its tokens, the position, the nesting depths, the   *)
(* statements of the body, whether an error is on its way up (`ok`) or has *)
(* been reported (`errors`), and the syntax built so far, `v`.             *)
(*                                                                         *)
(* What one parsing function does is a sequence of steps, and a function   *)
(* that looks ahead chooses among such sequences.  A node is a record: `k` *)
(* says what it is, the other fields are its parts; what is absent from    *)
(* the text is absent from the record.                                     *)
(***************************************************************************)
EXTENDS Lexer

CONSTANTS MAX_PARSE_DEPTH,     \* how deep expressions, blocks and types nest
          MAX_BODY_STMTS       \* how many statements a body holds

Parser(toks) ==
  [toks |-> toks, pos |-> 1, paren |-> 0, nest |-> 0, types |-> 0, stmts |-> 0,
   ok |-> TRUE, errors |-> FALSE, v |-> <<>>]
Diag(p) == [p EXCEPT !.errors = TRUE]
Err(p)  == [Diag(p) EXCEPT !.ok = FALSE]

\* Between parentheses a line may go on: its end is not seen there.
Token(p, i) == IF i > Len(p.toks) THEN Eof ELSE p.toks[i]
Seen(p, i)  == IF p.paren > 0 /\ Token(p, i) = NL THEN i + 1 ELSE i
peek(p)        == Token(p, Seen(p, p.pos))
Peek(p)        == peek(p)[1]
peek_ahead(p)  == Token(p, Seen(p, Seen(p, p.pos) + 1))[1]
peek_ahead2(p) == Token(p, Seen(p, Seen(p, Seen(p, p.pos) + 1) + 1))[1]

advance(p) ==
  LET t == Peek(p) IN
    [p EXCEPT !.pos = Seen(p, @) + 1,
              !.paren = IF t \in {"(", "["} THEN @ + 1
                        ELSE IF t \in {")", "]"} /\ @ > 0 THEN @ - 1 ELSE @]
at(p, t)      == Peek(p) = t
expect(p, t)  == IF at(p, t) THEN advance(p) ELSE Err(p)
\* The end of a line comes alone: the lexer has seen to that.
skip_newlines(p) == IF at(p, NL[1]) THEN [p EXCEPT !.pos = @ + 1] ELSE p

\* Some keywords may be names, and more where only a name can stand.
keyword_as_ident_text == TypeWords \ {"ciphertext", "map", "priority_queue", "shares"}
any_keyword_as_ident_text == Keywords \ {"nft", "ciphertext", "true", "false", "_"}
Name(p, words) ==
  CASE at(p, "id")       -> [advance(p) EXCEPT !.v = peek(p)[2]]
    [] Peek(p) \in words -> [advance(p) EXCEPT !.v = Peek(p)]
    [] OTHER             -> Err(p)
expect_ident(p)                == Name(p, keyword_as_ident_text)
expect_ident_or_any_keyword(p) == Name(p, any_keyword_as_ident_text)

expect_stmt_terminator(p) ==
  CASE Peek(p) \in {NL[1], ";"}     -> skip_newlines(advance(p))
    [] Peek(p) \in {"}", Eof[1]}    -> p
    [] OTHER                        -> Err(p)

\* Skips tokens, not looking at parentheses, up to one of `sync`.
recover_to(p, sync) ==
  LET stops == {i \in p.pos..Len(p.toks) : Token(p, Seen(p, i))[1] \in sync \cup {Eof[1]}}
  IN [p EXCEPT !.pos = Min(stops), !.ok = TRUE]

enter_depth(p)  == IF p.nest >= MAX_PARSE_DEPTH THEN Err(p) ELSE [p EXCEPT !.nest = @ + 1]
exit_depth(p, q) == [q EXCEPT !.nest = p.nest]
enter_chain_depth(p) ==
  IF p.nest + 1 >= MAX_PARSE_DEPTH THEN Err(p) ELSE [p EXCEPT !.nest = @ + 1]
enter_type_depth(p) == IF p.types >= MAX_PARSE_DEPTH THEN Err(p) ELSE [p EXCEPT !.types = @ + 1]

(***************************************************************************)
(* Steps.                                                                  *)
(***************************************************************************)
Node(k)       == <<"node", k>>            \* the syntax built is a k
Tok(t)        == <<"tok", t>>             \* expect t
Word(w)       == <<"word", w>>            \* expect a name that means something here only
Eat(t)        == <<"eat", t>>             \* skip a t, if there is one
Mark(h, t)    == <<"mark", h, t>>         \* note whether there is one
Lines         == <<"lines">>              \* skip ends of lines
End           == <<"end">>                \* expect the end of the statement
Get(h, rule)  == <<"get", h, rule>>       \* parse a part
If(ts, steps) == <<"if", ts, steps>>      \* these steps, if at one of ts
Then(rule)    == <<"then", rule>>         \* go on with the steps of another function
Fail          == <<"fail">>
\* Items one after the other as long as the next token is one of `first` or,
\* when `first` is empty, none of `last`.  A separator must stand between two
\* of them when `strict`; with `sync` an item that fails is skipped.
Many(h, rule, first, last, sep, strict, sync) ==
  <<"many", [h |-> h, rule |-> rule, first |-> first, last |-> last, sep |-> sep,
             strict |-> strict, sync |-> sync]>>
\* Items between commas, up to a closing token.
Commas(h, rule, close) == Many(h, rule, {}, {close, Eof[1]}, ",", TRUE, {})
Some(h, rule, sep)     == Many(h, rule, {}, {}, sep, TRUE, {})
None(h)               == <<"none", h>>    \* no items
Listed(open, h, rule, close) == <<Tok(open), Commas(h, rule, close), Tok(close)>>
MaybeListed(h, rule) == <<None(h), If({"("}, Listed("(", h, rule, ")"))>>

\* One item more.
Add(h, rule) == Some(h, rule, "nothing")
Wrap(k, h)   == <<"wrap", k, h>>          \* what is there becomes a part of a k

NoParts    == [h \in {} |-> 0]
Extend(node, h, v) == [g \in DOMAIN node \cup {h} |-> IF g = h THEN v ELSE node[g]]
Parts(node, h) == IF h \in DOMAIN node THEN node[h] ELSE <<>>
With(p, h, v) == [p EXCEPT !.v = Extend(@, h, v)]
=============================================================================
