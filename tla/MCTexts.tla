------------------------------- MODULE MCTexts -------------------------------
(***************************************************************************)
(* Texts for the compiler: files written by hand, which between them use   *)
(* the whole grammar and make most of the mistakes it knows, and programs  *)
(* spelled with as few parentheses as their operators allow.               *)
(***************************************************************************)
EXTENDS Compiler

Numeral ==
  ("0" :> 0) @@ ("1" :> 1) @@ ("2" :> 2) @@ ("3" :> 3) @@ ("4" :> 4) @@ ("5" :> 5) @@ ("6" :> 6)
    @@ ("7" :> 7) @@ ("62" :> 62) @@ ("99" :> 99)
Quoted == ("'closed" :> "closed") @@ ("'main" :> "main") @@ ("'side" :> "side") @@ ("'tok" :> "tok")
Lexeme(w) ==
  IF w \in DOMAIN Numeral THEN <<"int", Numeral[w]>>
  ELSE IF w \in DOMAIN Quoted THEN <<"str", Quoted[w]>> ELSE <<w>>
Spelled(words) == [i \in DOMAIN words |-> Lexeme(words[i])]
Line_(words)   == Append(Spelled(words), <<"newline">>)
Lines_(lines)  == FlattenSeq([i \in DOMAIN lines |-> Line_(lines[i])])

\* Declarations of every kind and type.
Types_ == Lines_(<<
    <<"hybrid", "vault", "Types", "anchored_on", "[", "'main", ",", "'side", "]",
      "upgradeable_by", "guardians", "{">>,
    <<"symbol", ":", "'tok">>, <<"supply", ":", "3", "to", "owner">>,
    <<"struct", "Row", "{", "a", ":", "amount", ",", "b", ":", "[", "text", "]", "=", "1", "}">>,
    <<"credential", "Pass", "{", "who", ":", "address", "}">>,
    <<"Loose", "{", "x", ":", "bool", "}">>, <<"due", ":", "time">>,
    <<"public", "field", "wait", ":", "duration", "=", "2", "days">>,
    <<"field", "encrypted", "h", ":", "hash">>, <<"encrypted", "votes", ":", "amount">>,
    <<"state", ":", "choice", "=", "[", "open", ",", "'closed", "]">>, <<"k", ":", "pq_key">>,
    <<"raw", ":", "bytes">>, <<"sealed_", ":", "ciphertext", "<", "bool", ">">>,
    <<"rows", ":", "[", "Row", "]">>, <<"by", ":", "map", "<", "address", ",", "amount", ">">>,
    <<"q", ":", "priority_queue", "<", "amount", ",", "address", ",", "max", ">">>,
    <<"parts", ":", "shares", "(", "2", "of", "3", "among", "q", ")">>,
    <<"error", "Broken", "(", "code", ":", "amount", ",", "text", ":", "text", ")">>,
    <<"event", "Seen", "(", "who", ":", "address", "indexed", ",", "n", ":", "amount", ")">>,
    <<"}">>>>)
\* Statements.
Statements_ == Lines_(<<
    <<"module", "Stmts", "{">>, <<"@", "gas_budget", "(", "5", ",", "mode", ":", "1", ")">>,
    <<"action", "f", "(", "a", ":", "amount", ",", "b", ":", "address", ")", "when", "a", "<",
      "1", ",", "only", "b", "(", "1", ")", ",", "pq_signed", "(", "a", ",", "b", ",", "a", ")",
      ",">>,
    <<"{">>, <<"let", "t", ":", "amount", "=", "a">>,
    <<"x", ".", "y", "[", "2", "]", ".", "z", "*=", "(", "a", ")">>,
    <<"(", "x", ")", "[", "1", "]", "=", "[", "a", ",", "b", "]">>,
    <<"if", "a", "{", "return", "}", "else", "if", "b", "{", "}", "else", "{", "return", "a", ";",
      "}">>,
    <<"}">>, <<"action", "e", "(", ")", "{">>,
    <<"match", "a", "{", "1", "=>", "{", "}", ",", "2", "=>", "x", "=", "1">>,
    <<"3", "=>", "delete", "x", "}">>,
    <<"encrypted_when", "a", "{", "discard", "x", "[", "1", "]", "}", "otherwise", "{", "x", "-=",
      "1", "}">>,
    <<"for", "each", "i", "in", "xs", "{", "i", "%=", "2", "}">>, <<"}">>,
    <<"action", "g", "(", ")", "{">>,
    <<"try_action", "{", "go", "(", ")", "}", "catch", "_", "{", "}">>,
    <<"try_action", "{", "}", "catch", "e", "{", "x", "/=", "1", "}">>,
    <<"transfer", "a", "to", "b">>, <<"transfer", "a", "from", "b", "to", "caller">>,
    <<"append", "log", "{", "who", ":", "b", ",", "n", ":", "1", "}">>,
    <<"emit", "Seen", "(", "a", ",", "b", ")">>, <<"revert_with", "Broken">>, <<"}">>, <<"}">>>>)
\* Expressions, views and reveals.
Expressions_ == Lines_(<<
    <<"record", "Exprs", "{">>,
    <<"view", "a", "when", "1", ",", "given", "2", "{", "1", "+", "2", "*", "3", "-", "4", "/",
      "5", "%", "6", "}">>,
    <<"view", "b", "{", "a", "||", "b", "&&", "c", "==", "d", "<", "e", "|", "f", "}">>,
    <<"view", "o", "{", "e", "|", "f", "^", "g", "&", "h", "<<", "i", "+", "j", "}">>,
    <<"view", "c", "{", "~", "-", "!", "a", "!=", "b", "<=", "c", ">", "d", ">=", "e", "}">>,
    <<"view", "d", "{", "f", "(", "1", ",", "x", ")", "[", "2", "]", ".", "time", "[", "1", "..",
      "2", "]", "++", "'tok", "}">>,
    <<"view", "e", "{", "x", "in", "[", "1", ",", "true", ",", "false", ",", "3", "hours", "]",
      "}">>,
    <<"view", "g", "{", "encrypted", "(", "if", "a", "{", "b", "}", "else", "{", "match", "c",
      "{", "1", "=>", "2", ",", "3", "=>", "4", "}", "}", ")", "}">>,
    <<"view", "h", "(", "x", ":", "amount", ")", "returns", "[", "bool", "]", "verified_by", "(",
      "x", ")", "{", "all", "(", "y", "=>", "y", ">", "(">>,
    <<"1", ">>", "2", ")", ")", "}">>, <<"reveal", "x">>,
    <<"reveal", "y", "(", "a", ":", "bool", ")", "returns", "bool", "to", "(", "owner", ")",
      "only", "admin", ",", "vdf_locked", "for", "1", "{", "a", "}">>,
    <<"reveal", "z", "to", "parties">>, <<"when", "a", "{", "a", "}">>,
    <<"selective_disclosure", "s", "(", "x", ":", "amount", ")", "using", "circuit", "{", "x",
      "}">>,
    <<"}">>>>)
\* A file that formatting leaves alone but for its encrypted ciphertexts.
Whole_ == Lines_(<<
    <<"confidential", "registry", "Whole", "{">>, <<"field", "a", ":", "amount">>,
    <<"public", "b", ":", "address">>, <<"event", "Seen", "(", "a", ":", "amount", ")">>,
    <<"error", "Broken", "(", ")">>, <<"struct", "One", "{", "v", ":", "amount", "}">>,
    <<"action", "f", "(", "x", ":", "amount", ")", "only", "deployer", ",", "when", "x", "<", "1",
      "{">>,
    <<"let", "y", "=", "x", "+", "(", "2", "*", "x", ")">>,
    <<"if", "y", "==", "2", "{", "a", "=", "y", "}", "else", "{", "revert_with", "Broken", "(",
      ")", "}">>,
    <<"transfer", "x", "to", "b">>, <<"append", "s", "{", "v", ":", "1", "}">>,
    <<"emit", "Seen", "(", "-", "x", ")">>, <<"}">>,
    <<"view", "g", "(", "x", ":", "amount", ")", "returns", "amount", "given", "true", "{", "x",
      "[", "1", "]", "}">>,
    <<"reveal", "a", "to", "owner">>,
    <<"reveal", "h", "(", ")", "returns", "amount", "to", "caller", "when", "x", "{", "a", "}">>,
    <<"}">>>>)
\* Slots: two of them one, by way of a field that is not pinned.
Pinned_ == Lines_(<<
    <<"record", "Slots", "{">>, <<"a", ":", "amount">>,
    <<"@", "slot", "(", "5", ")", "b", ":", "amount">>, <<"c", ":", "amount">>,
    <<"@", "slot", "(", "1", ")">>, <<"field", "d", ":", "amount">>,
    <<"version", "2", "{", "a", ":", "amount", "}">>,
    <<"migrate", "from", "1", "to", "2", "{", "b", "=", "a", "}">>,
    <<"on_destroy", "{", "delete", "a", "}">>, <<"}">>>>)
\* Slots apart.
Mixed_ == Lines_(<<
    <<"record", "Slots", "{">>, <<"@", "slot", "(", "7", ")", "a", ":", "amount">>,
    <<"b", ":", "amount">>, <<"@", "slot", "(", "3", ")", "c", ":", "amount">>,
    <<"d", ":", "amount">>, <<"}">>>>)
\* The slot of the deployer.
Taken_ == Lines_(<<
    <<"record", "Slots", "{">>, <<"a", ":", "amount">>,
    <<"@", "slot", "(", "62", ")", "b", ":", "amount">>, <<"}">>>>)
\* Annotations that are none.
BadSlot_ == Lines_(<<
    <<"token", "Slots", "{">>,
    <<"@", "slot", "(", "5", ")", "@", "slot", "(", "6", ")", "a", ":", "amount">>,
    <<"@", "slot", "(", "99", ")", "b", ":", "amount">>,
    <<"@", "precompute", "c", ":", "amount">>,
    <<"@", "slot", "(", "i", ":", "1", ")", "d", ":", "amount">>, <<"}">>>>)
\* Errors the parser gets over, losing a declaration or a statement.
Broken_ == Lines_(<<
    <<"module", "Broken", "{">>, <<"a", ":", "amount">>,
    <<"action", "f", "(", ")", "{", "x", "=", ";", "y", "=", "1">>, <<"z", "+=", "1", "+", "}">>,
    <<"b", "amount">>, <<"@", "slot", "(", "1", ")", "view", "v", "{", "1", "}">>,
    <<"field", "c", ":", "encrypted">>,
    <<"d", ":", "map", "<", "address", ",", "map", "<", "address", ",", "amount", ">>">>,
    <<"reveal", "w", "to", "caller", "}">>>>)
\* Errors before the construct and behind it.
Outside_ == Lines_(<<
    <<"--", "header">>, <<"import", "a", ".", "b", "as", "c">>, <<"import">>,
    <<"external", "contract", "IOther", "{">>,
    <<"function", "transfer", "(", "address", "to", ",", "amount", ")", "view", "returns", "bool">>,
    <<"go">>, <<"function", "ask", "(", "amount", "token">>, <<"}">>, <<"external", "IOther">>,
    <<>>, <<"public", "board", "Lines", "{">>, <<"a", ":", "amount", ";", "b", ":", "time">>,
    <<"c", ":", "text", "//", "no">>, <<"}", "extra">>>>)
\* No construct.
Nothing_ == Lines_(<<
    <<"contract", "Nothing", "{", "}">>>>)
\* No end.
Open_ == Lines_(<<
    <<"ballot", "Open", "{">>, <<"owner", ":", "address">>, <<"tally", ":", "amount">>>>)
\* Too deep.
Deep(open, middle, close) ==
  FlattenSeq([i \in 1..MAX_PARSE_DEPTH |-> Spelled(open)]) \o Spelled(middle)
    \o FlattenSeq([i \in 1..MAX_PARSE_DEPTH |-> Spelled(close)])
Deep_ ==
  Line_(<<"module", "Deep", "{">>)
    \o Spelled(<<"view", "v", "{">>) \o Deep(<<"(">>, <<"1">>, <<")">>) \o Line_(<<"}">>)
    \o Spelled(<<"t", ":">>) \o Deep(<<"[">>, <<"bool">>, <<"]">>) \o Line_(<<>>)
    \o Spelled(<<"action", "f", "(", ")", "{">>)
    \o Deep(<<"if", "a", "{">>, <<"x", "=", "1">>, <<"}">>) \o Line_(<<"}">>)
    \o Spelled(<<"action", "g", "(", ")", "{", "delete", "x">>)
    \o Deep(<<".", "x">>, <<>>, <<>>) \o Line_(<<"}">>)
    \o Lines_(<<<<"w", ":", "amount">>, <<"}">>>>)
\* Too long a body.
Long_ ==
  Lines_(<<<<"module", "Long", "{">>, <<"action", "f", "(", ")", "{">>>>)
    \o FlattenSeq([i \in 1..MAX_BODY_STMTS |-> Line_(<<"a", "=", "1">>)])
    \o Lines_(<<<<"}">>, <<"w", ":", "amount">>, <<"}">>>>)
\* Too long a time.
Late_ == Lines_(<<
    <<"module", "Long", "{">>, <<"t", ":", "99", "weeks">>, <<"}">>>>)
\* A name taken twice, and one not taken yet.
Doubled_ == Lines_(<<
    <<"ballot", "Names", "{">>, <<"a", ":", "Later">>,
    <<"struct", "Later", "{", "x", ":", "amount", "}">>, <<"owner", ":", "address">>,
    <<"tally", ":", "amount">>, <<"event", "a", "(", "x", ":", "amount", ")">>, <<"}">>>>)
\* An event where a type belongs.
NotAType_ == Lines_(<<
    <<"counter", "Names", "{">>, <<"event", "e", "(", "x", ":", "amount", ")">>,
    <<"a", ":", "e">>, <<"version", "1", "{", "b", ":", "amount">>, <<"b", ":", "time", "}">>,
    <<"}">>>>)
\* Minus signs.
Minus_ == Lines_(<<
    <<"counter", "Minus", "{">>, <<"a", ":", "amount">>,
    <<"view", "v", "{", "f", "(", "-", "-", "a", ",">>, <<"1", ")", "}">>,
    <<"view", "w", "{", "a", "-", "-", "a", "}">>, <<"}">>>>)

Handwritten ==
  {Types_, Statements_, Expressions_, Whole_, Pinned_, Mixed_, Taken_, BadSlot_, Broken_, Outside_,
   Nothing_, Open_, Deep_, Long_, Late_, Doubled_, NotAType_, Minus_}

(***************************************************************************)
(* Spelling.  An operator's operands are put in parentheses when they bind *)
(* less strongly, on the right also when they bind as strongly.            *)
(***************************************************************************)
Strength(o) ==
  CASE o = "or" -> 1 [] o = "and" -> 2 [] o \in {"==", "!="} -> 3 [] o \in {"<", "<="} -> 4
    [] o \in {"+", "-"} -> 5 [] OTHER -> 6
Symbol(o) == IF o = "and" THEN "&&" ELSE IF o = "or" THEN "||" ELSE o
W(w)          == <<<<w>>>>
Parens(t)     == W("(") \o t \o W(")")
Block_(t)     == W("{") \o <<<<"newline">>>> \o t \o W("}")
RECURSIVE SpellExpr(_, _), SpellStmts(_)
Loose(t, strength, least) == IF strength < least THEN Parens(t) ELSE t
SpellExpr(e, least) ==
  CASE e.k = "int"  -> <<<<"int", e.n>>>>
    [] e.k = "bool" -> W(IF e.n = 1 THEN "true" ELSE "false")
    [] e.k = "id"   -> W(e.x)
    [] e.k = "bin"  -> Loose(SpellExpr(e.a, Strength(e.o)) \o W(Symbol(e.o))
                               \o SpellExpr(e.b, Strength(e.o) + 1), Strength(e.o), least)
    [] e.k = "not"  -> W("!") \o SpellExpr(e.a, 7)
    [] e.k = "cond" -> Loose(W("if") \o SpellExpr(e.c, 0) \o W("{") \o SpellExpr(e.a, 0) \o W("}")
                               \o W("else") \o W("{") \o SpellExpr(e.b, 0) \o W("}"), 0, least)
    [] e.k = "len"  -> SpellExpr(e.a, 7) \o W(".") \o W("length")
    [] e.k = "elem" -> SpellExpr(e.a, 7) \o W("[") \o SpellExpr(e.i, 0) \o W("]")
    [] e.k = "member" -> SpellExpr(e.a, 7) \o W(".") \o W("v")
    [] e.k = "enc"  -> W("encrypted") \o Parens(SpellExpr(e.a, 0))
    [] e.k = "call" -> W("IOther") \o W(".") \o W("at") \o Parens(SpellExpr(e.i, 0)) \o W(".")
                         \o W("ask") \o Parens(SpellExpr(e.a, 0))

RECURSIVE SpellType(_)
SpellType(t) ==
  CASE IsSealed(t) -> W("encrypted") \o SpellType(t[2])
    [] IsList(t)   -> W("[") \o SpellType(t[2]) \o W("]")
    [] IsMap(t)    -> W("map") \o W("<") \o SpellType(t[2]) \o W(",") \o SpellType(t[3]) \o W(">")
    [] IsStruct(t) -> W(IF IsSealed(t[2]) THEN "Hidden_" ELSE "Plain_")
    [] OTHER       -> W(t[1])

Assigned(o) ==
  CASE o = "=" -> "=" [] o = "+" -> "+=" [] o = "-" -> "-=" [] o = "*" -> "*="
    [] o = "/" -> "/=" [] o = "%" -> "%="
RECURSIVE SpellArms(_, _)
SpellArms(arms, otherwise) ==
  CASE arms = <<>> -> IF otherwise = <<>> THEN <<>>
                      ELSE W("else") \o Block_(SpellStmts(otherwise))
    [] OTHER -> W("if") \o SpellExpr(Head(arms).c, 0) \o Block_(SpellStmts(Head(arms).a))
                  \o (IF Len(arms) > 1 THEN W("else") ELSE <<>>)
                  \o SpellArms(Tail(arms), otherwise)
SpellMatch(arms) ==
  FlattenSeq([i \in DOMAIN arms |->
    SpellExpr(arms[i].c, 0) \o W("=>") \o Block_(SpellStmts(arms[i].a)) \o W(",")])
SpellStmt(s) ==
  CASE s.k = "let" -> W("let") \o W(s.x) \o (IF s.ty = Unknown THEN <<>> ELSE W(":") \o SpellType(s.ty))
                        \o W("=") \o SpellExpr(s.e, 0)
    [] s.k = "set"    -> SpellExpr(s.t, 0) \o W(Assigned(s.o)) \o SpellExpr(s.e, 0)
    [] s.k = "delete" -> W("delete") \o SpellExpr(s.t, 0)
    [] s.k = "eval"   -> SpellExpr(s.e, 0)
    [] s.k = "emit"   -> W("emit") \o W(s.ev) \o Parens(SpellExpr(s.e, 0))
    [] s.k = "append" -> W("append") \o SpellExpr(s.t, 0)
                           \o W("{") \o W("v") \o W(":") \o SpellExpr(s.e, 0) \o W("}")
    [] s.k = "revert" -> W("revert_with") \o W("Stop")
    [] s.k = "if"     -> SpellArms(s.arms, s.b)
    [] s.k = "match"  -> W("match") \o SpellExpr(s.e, 0) \o W("{") \o SpellMatch(s.arms) \o W("}")
    [] s.k = "for"    -> W("for") \o W("each") \o W(s.x) \o W("in") \o SpellExpr(s.t, 0)
                           \o Block_(SpellStmts(s.a))
    [] s.k = "return" -> W("return") \o SpellExpr(s.e, 0)
SpellStmts(ss) == FlattenSeq([i \in DOMAIN ss |-> Append(SpellStmt(ss[i]), <<"newline">>)])

SpellPrincipal(p) == IF p.who = "address" THEN Parens(SpellExpr(p.e, 0)) ELSE W(p.who)
SpellGuard(g) ==
  W(g.k) \o (IF g.k = "only" THEN SpellPrincipal(g) ELSE SpellExpr(g.e, 0))
\* The guards of a view are told apart by commas, like all others.
SpellGuards(gs) ==
  FlattenSeq([i \in DOMAIN gs |-> (IF i > 1 THEN W(",") ELSE <<>>) \o SpellGuard(gs[i])])
SpellArg(pr) == Parens(W(pr.x) \o W(":") \o SpellType(pr.ty))
SpellTo(pr)  == IF pr.to.who = "none" THEN <<>> ELSE W("to") \o SpellPrincipal(pr.to)
SpellProgram(pr) ==
  CASE pr.kind = "action" -> W("action") \o W("f") \o SpellArg(pr) \o SpellGuards(pr.guards)
                               \o Block_(SpellStmts(pr.body))
    [] pr.kind = "view"   -> W("view") \o W("f") \o SpellArg(pr) \o W("returns") \o SpellType(pr.ret)
                               \o SpellGuards(pr.guards) \o W("{") \o SpellExpr(pr.e, 0) \o W("}")
    [] pr.kind = "reveal" -> W("reveal") \o W("f") \o SpellArg(pr) \o W("returns")
                               \o SpellType(pr.ret) \o SpellTo(pr) \o SpellGuards(pr.guards)
                               \o W("{") \o SpellExpr(pr.e, 0) \o W("}")
    [] OTHER -> W("reveal") \o SpellExpr(pr.e, 0) \o SpellTo(pr)

(***************************************************************************)
(* A file declares what its program mentions.                              *)
(***************************************************************************)
Words_(t) == {t[i][1] : i \in DOMAIN t}
Fields_(t) == (Words_(t) \cap DOMAIN FieldType) \cup {"owner"}
Struct_(x, t) == W("struct") \o W(x) \o W("{") \o W("v") \o W(":") \o t \o W("}") \o <<<<"newline">>>>
Structs_(t) ==
  (IF "s" \in Words_(t) THEN Struct_("Plain_", W("amount")) ELSE <<>>)
    \o (IF "es" \in Words_(t) THEN Struct_("Hidden_", W("encrypted") \o W("amount")) ELSE <<>>)
Each(S, Of(_)) == FlattenSeq([i \in 1..Cardinality(S) |-> Of(SetToSeq(S)[i])])
Field_(f)  == Spelled(<<f, ":">>) \o SpellType(FieldType[f]) \o <<<<"newline">>>>
Event_(ev) == Spelled(<<"event", ev, "(", "n", ":">>) \o SpellType(EventType[ev])
                \o W(")") \o <<<<"newline">>>>
Other_(t) ==
  IF "IOther" \in Words_(t)
  THEN Lines_(<<<<"external", "contract", "IOther", "{">>,
                <<"function", "ask", "(", "amount", ")", "returns", "amount">>, <<"}">>>>)
  ELSE <<>>
Stop_(t) == IF "Stop" \in Words_(t) THEN Lines_(<<<<"error", "Stop", "(", ")">>>>) ELSE <<>>
Spell(pr) ==
  LET t == SpellProgram(pr) IN
    Other_(t) \o Line_(<<"module", "T", "{">>) \o Structs_(t) \o Stop_(t)
      \o Each(Fields_(t), Field_) \o Each(Words_(t) \cap DOMAIN EventType, Event_)
      \o t \o <<<<"newline">>>> \o Line_(<<"}">>)
=============================================================================
