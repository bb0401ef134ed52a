-------------------------------- MODULE Parser --------------------------------
(***************************************************************************)
(* The parser (crates/covenant-parser): the whole grammar of the language, *)
(* function by function.                                                   *)
(***************************************************************************)
EXTENDS Grammar

(***************************************************************************)
(* Types (parse_ty.rs).                                                    *)
(***************************************************************************)
parse_type_body(p) ==
  LET t == Peek(p) IN
  CASE t \in TypeWords \ {"ciphertext", "map", "priority_queue", "shares"} -> <<Node(t), Tok(t)>>
    [] t = "encrypted"  -> <<Node(t), Tok(t), Get("of", "type")>>
    [] t = "ciphertext" -> <<Node("encrypted"), Tok(t), Tok("<"), Get("of", "type"), Tok(">")>>
    [] t = "["          -> <<Node("list"), Tok("["), Get("of", "type"), Tok("]")>>
    [] t = "map"        -> <<Node(t), Tok(t), Tok("<"), Get("key", "type"), Tok(","),
                             Get("of", "type"), Tok(">")>>
    [] t = "priority_queue" ->
         <<Node(t), Tok(t), Tok("<"), Get("key", "type"), Tok(","), Get("of", "type"), Tok(","),
           Get("order", "ordering"), Tok(">")>>
    [] t = "shares" ->
         <<Node(t), Tok(t), Tok("("), Get("n", "int"), Word("of"), Get("m", "int"),
           Word("among"), Get("e", "expr"), Tok(")")>>
    [] t = "id"  -> <<Node("user"), Get("x", "ident")>>
    [] OTHER     -> <<Fail>>
parse_ordering(p) ==
  IF peek(p) \in {<<"id", "max">>, <<"id", "min">>} THEN expect_ident(p) ELSE Err(p)
looks_like_type(t) == t \in TypeWords \cup {"encrypted", "[", "id"}

parse_inline_choice_values == Listed("[", "values", "choice_value", "]")
literal(p) == [advance(p) EXCEPT !.v = peek(p)[2]]

(***************************************************************************)
(* Fields, structs and other plain declarations (parse_decl.rs).           *)
(***************************************************************************)
\* Annotations stand in front of a declaration; most kinds take none, and a
\* field only @slot.  Some kinds do not look at them.
annotated(p, kept) ==
  LET all == p.v.annotations IN
    [p EXCEPT !.errors = @ \/ SelectSeq(all, LAMBDA a : a.x \notin kept) # <<>>,
              !.v.annotations = SelectSeq(all, LAMBDA a : a.x \in kept)]
Plain       == <<"annotated", {}>>
SlotOnly    == <<"annotated", {"slot"}>>
Unannotated == None("annotations")

parse_annotation ==
  <<Node("annotation"), Tok("@"), Get("x", "ident")>> \o MaybeListed("args", "annotation_arg")
annotation_arg(p) ==
  IF at(p, "id") /\ peek_ahead(p) = ":"
  THEN <<Node("named"), Get("x", "ident"), Tok(":"), Get("e", "expr")>>
  ELSE <<Node("positional"), Get("e", "expr")>>

finish_field ==
  <<SlotOnly, Node("field"), Get("x", "ident"), Tok(":"), Get("ty", "type"),
    If({"="}, <<Tok("="), Then("initializer")>>), End>>
\* The values of a choice may follow where a value would.
initializer(p) ==
  IF p.v.ty.k = "choice" /\ at(p, "[") THEN parse_inline_choice_values ELSE <<Get("e", "expr")>>
parse_field_with_keyword ==
  <<Mark("explicit", "field"), If({"public", "encrypted"}, <<Get("privacy", "word")>>)>>
    \o finish_field
parse_field_with_privacy == <<Get("privacy", "word"), Mark("explicit", "field")>> \o finish_field

parse_metadata ==
  <<Plain, Node("metadata"), Get("x", "ident"), Tok(":"), Then("metadata_value"), End>>
metadata_value(p) ==
  IF at(p, "int") /\ peek_ahead(p) = "to"
  THEN <<Get("e", "expr"), Tok("to"), Get("to", "principal")>> ELSE <<Get("e", "expr")>>

struct_field ==
  <<Node("field"), Get("x", "ident"), Tok(":"), Get("ty", "type"),
    If({"="}, <<Tok("="), Get("e", "expr")>>), Eat(",")>>
parse_struct_body ==
  <<Tok("{"), Lines, Many("fields", "struct_field", {}, {"}", Eof[1]}, "", FALSE, {}), Tok("}")>>
parse_struct     == <<Plain, Node("struct"), Tok("struct"), Get("x", "ident")>> \o parse_struct_body
parse_credential ==
  <<Plain, Node("credential"), Tok("credential"), Get("x", "ident")>> \o parse_struct_body
unnamed_struct   == <<Plain, Node("struct"), Get("x", "ident")>> \o parse_struct_body

Argument_ == <<Node("arg"), Get("x", "ident"), Tok(":"), Get("ty", "type")>>
parse_arg_list == Listed("(", "args", "arg", ")")
event_arg == Argument_ \o <<Then("indexed")>>
indexed(p) == IF peek(p) = <<"id", "indexed">> THEN <<Get("indexed", "ident")>> ELSE <<>>
parse_error_decl ==
  <<Plain, Node("error"), Tok("error"), Get("x", "ident")>> \o parse_arg_list \o <<End>>
parse_event_decl ==
  <<Plain, Node("event"), Tok("event"), Get("x", "ident")>>
    \o Listed("(", "args", "event_arg", ")") \o <<End>>

(***************************************************************************)
(* Actions, views, reveals and the rest.                                   *)
(***************************************************************************)
GuardWords     == {"when", "only", "given"}
QualifierWords == {"verified_by", "pq_signed", "vdf_locked"}
guard(p) ==
  LET t == Peek(p) IN
  CASE t \in {"when", "given"} -> <<Node(t), Tok(t), Get("e", "expr")>>
    [] t = "only"        -> <<Node(t), Tok(t), Get("to", "principal")>>
    [] t = "verified_by" -> <<Node(t), Tok(t), Tok("("), Get("e", "expr"), Tok(")")>>
    [] t = "pq_signed"   -> <<Node(t), Tok(t), Tok("("), Get("msg", "expr"), Tok(","),
                              Get("sig", "expr"), Tok(","), Get("pk", "expr"), Tok(")")>>
    [] t = "vdf_locked"  -> <<Node(t), Tok(t), Tok("for"), Get("e", "expr")>>
\* Guards and qualifiers stand mixed; a comma may follow the last one.
parse_guards_and_qualifiers == <<Lines, Then("guards"), <<"sorted">>>>
guards == <<Many("guards", "guard", GuardWords \cup QualifierWords, {}, ",", FALSE, {})>>
sorted(p) ==
  LET Those(words) == SelectSeq(p.v.guards, LAMBDA g : g.k \in words) IN
    With(IF p.v.k = "action" THEN With(p, "quals", Those(QualifierWords)) ELSE p,
         "guards", Those(GuardWords))

Named == {"owner", "deployer", "admin", "caller", "guardians", "parties", "holders"}
parse_principal(p) ==
  CASE at(p, "id") /\ peek(p)[2] \in Named -> <<Node("named"), Get("x", "ident")>>
    [] at(p, "id") -> <<Node("predicate"), Get("x", "ident"), Then("principal_args")>>
    [] OTHER       -> <<Node("at"), Get("e", "expr")>>
principal_args(p) ==
  IF at(p, "(") THEN <<Node("of")>> \o Listed("(", "args", "expr", ")") ELSE <<>>
parse_reveal_target(p) ==
  IF peek(p) \in {<<"id", x>> : x \in {"owner", "caller", "parties"}}
  THEN <<Node("named"), Get("x", "ident")>> ELSE <<Node("at"), Get("e", "expr")>>

Answer == <<Tok("{"), Lines, Get("e", "expr"), Lines, Tok("}")>>
parse_action ==
  <<Node("action"), Tok("action"), Get("x", "ident")>> \o parse_arg_list
    \o parse_guards_and_qualifiers \o <<Then("function_body")>>
parse_view ==
  <<Plain, Node("view"), Tok("view"), Get("x", "ident")>> \o MaybeListed("args", "arg")
    \o <<If({"returns"}, <<Tok("returns"), Get("ret", "type")>>)>>
    \o parse_guards_and_qualifiers \o Answer
parse_reveal ==
  <<Plain, Node("reveal"), Tok("reveal"), Get("x", "ident")>> \o MaybeListed("args", "arg")
    \o <<If({"returns"}, <<Tok("returns"), Get("ret", "type")>>),
         If({"to"}, <<Tok("to"), Get("to", "reveal_target")>>), Then("reveal_body")>>
\* In one line, unless guards or a body follow, be it on a later line.
reveal_body(p) ==
  IF Peek(skip_newlines(p)) \in GuardWords \cup QualifierWords \cup {"{"}
  THEN parse_guards_and_qualifiers \o Answer ELSE <<End>>

parse_version_block ==
  <<Unannotated, Node("version"), Tok("version"), Get("n", "int"), Then("top_level_body")>>
parse_migrate_block ==
  <<Unannotated, Node("migrate"), Tok("migrate"), Tok("from"), Get("n", "int"), Tok("to"),
    Get("m", "int"), Then("function_body")>>
parse_on_destroy ==
  <<Unannotated, Node("on_destroy"), Tok("on_destroy"), Then("function_body")>>
parse_selective_disclosure ==
  <<Unannotated, Node("selective_disclosure"), Tok("selective_disclosure"), Get("x", "ident")>>
    \o parse_arg_list \o <<Tok("using"), Get("circuit", "ident")>> \o Answer

parse_ident_starting_decl(p) ==
  CASE peek_ahead(p) = ":" /\ looks_like_type(peek_ahead2(p)) -> finish_field
    [] peek_ahead(p) = ":" -> parse_metadata
    [] peek_ahead(p) = "{" -> unnamed_struct
    [] OTHER -> <<Plain, Fail>>
declaration(p) ==
  LET t == Peek(p) IN
  CASE t = "action" -> parse_action    [] t = "view"  -> parse_view
    [] t = "reveal" -> parse_reveal    [] t = "field" -> parse_field_with_keyword
    [] t = "struct" -> parse_struct    [] t = "credential" -> parse_credential
    [] t = "error"  -> parse_error_decl [] t = "event" -> parse_event_decl
    [] t = "version" -> parse_version_block [] t = "migrate" -> parse_migrate_block
    [] t = "on_destroy" -> parse_on_destroy
    [] t = "selective_disclosure" -> parse_selective_disclosure
    [] t \in {"public", "encrypted"} -> parse_field_with_privacy
    [] t = "id" \/ (t \in keyword_as_ident_text /\ peek_ahead(p) = ":") ->
         parse_ident_starting_decl(p)
    [] OTHER -> <<Plain, Fail>>
parse_top_level_decl == <<Many("annotations", "annotation", {"@"}, {}, "", FALSE, {}),
                          Then("declaration")>>
Decls_ == Many("decls", "top_level_decl", {}, {"}", Eof[1]}, "", FALSE, {NL[1], "}"})
parse_top_level_body == <<Tok("{"), Lines, Decls_, Tok("}")>>

(***************************************************************************)
(* Files (parse_file.rs).                                                  *)
(***************************************************************************)
parse_import ==
  <<Node("import"), Tok("import"), Some("path", "ident", "."),
    If({"as"}, <<Tok("as"), Get("alias", "ident")>>), End>>
parse_external_contract ==
  <<Node("external"), Tok("external"), Tok("contract"), Get("x", "ident"), Tok("{"), Lines,
    Many("functions", "external_function", {}, {"}", Eof[1]}, "", FALSE, {"function", "}"}),
    Tok("}")>>
parse_external_function ==
  <<Node("function"), Tok("function"), Get("x", "any_ident"), Tok("("),
    Many("args", "external_param", {}, {")", Eof[1]}, ",", FALSE, {}), Tok(")"),
    Mark("is_view", "view"), If({"returns"}, <<Tok("returns"), Get("ret", "type")>>), End>>
external_param == <<Node("param"), Get("ty", "type"), Then("param_name")>>
param_name(p) == IF Peek(p) \in {",", ")"} THEN <<>> ELSE <<Get("x", "any_ident")>>

expect_construct_keyword(p) ==
  IF Peek(p) \in Constructs THEN [advance(p) EXCEPT !.v = Peek(p)] ELSE Err(p)
parse_anchor_clause == <<Tok("anchored_on")>> \o Listed("[", "chains", "str", "]")
parse_upgradeable_clause == <<Tok("upgradeable_by"), Get("upgradeable_by", "principal")>>
\* A file up to its first declaration: the construct's own clauses are parts
\* of the file here, as are its declarations.
parse_top_level ==
  <<If(Privacies, <<Get("privacy", "word")>>), Get("keyword", "construct"), Get("x", "ident"),
    If({"anchored_on"}, parse_anchor_clause),
    If({"upgradeable_by"}, parse_upgradeable_clause), Tok("{"), Lines>>
File_ ==
  <<Node("file"), Lines,
    Many("imports", "import", {"import"}, {}, "", FALSE, Constructs \cup {NL[1], "import"}),
    Many("externals", "external_contract", {"external"}, {}, "", FALSE,
         Constructs \cup {"external"})>>
    \o parse_top_level

(***************************************************************************)
(* Statements (parse_stmt.rs).                                             *)
(***************************************************************************)
\* Every statement and every block counts towards the size of the body.
charge_body_stmt(p) ==
  IF p.stmts >= MAX_BODY_STMTS THEN [Err(p) EXCEPT !.stmts = MAX_BODY_STMTS + 1]
  ELSE [p EXCEPT !.stmts = @ + 1]
body_budget_blown(p) == p.stmts > MAX_BODY_STMTS
parse_function_body == <<<<"new_body">>, Get("body", "block")>>
parse_block_body ==
  <<Tok("{"), Lines, Many("stmts", "stmt", {}, {"}", Eof[1]}, "", FALSE, {NL[1], "}"}), Tok("}")>>

parse_let ==
  <<Node("let"), Tok("let"), Get("x", "ident"), If({":"}, <<Tok(":"), Get("ty", "type")>>),
    Tok("="), Get("e", "expr"), End>>
parse_match_stmt ==
  <<Node("match"), Tok("match"), Get("e", "expr"), Tok("{"), Lines,
    Many("arms", "match_arm", {}, {"}", Eof[1]}, "", FALSE, {}), Tok("}")>>
match_arm == <<Node("arm"), Get("c", "expr"), Tok("=>"), Then("match_body"), Eat(",")>>
\* A statement without braces is a block of one.
match_body(p) == IF at(p, "{") THEN <<Get("a", "block")>> ELSE <<Add("a", "stmt")>>
parse_if_stmt ==
  <<Node("if"), Tok("if"), Add("arms", "branch"), Then("else_part")>>
branch == <<Node("arm"), Get("c", "expr"), Get("a", "block")>>
else_part(p) ==
  CASE ~ at(p, "else") -> <<>>
    [] peek_ahead(p) = "if" ->
         <<Tok("else"), Tok("if"), Add("arms", "branch"), Then("else_part")>>
    [] OTHER -> <<Tok("else"), Get("b", "block")>>
parse_encrypted_when_stmt ==
  <<Node("encrypted_when"), Tok("encrypted_when"), Get("c", "expr"), Get("a", "block"),
    If({"otherwise"}, <<Tok("otherwise"), Get("b", "block")>>)>>
parse_for_each_stmt ==
  <<Node("for"), Tok("for"), Tok("each"), Get("x", "ident"), Tok("in"), Get("t", "expr"),
    Get("a", "block")>>
parse_try_catch_stmt ==
  <<Node("try_action"), Tok("try_action"), Get("a", "block"), Tok("catch"), Then("catch_name"),
    Get("b", "block")>>
catch_name(p) == IF at(p, "_") THEN <<Tok("_")>> ELSE <<Get("x", "ident")>>
parse_emit_stmt ==
  <<Node("emit"), Tok("emit"), Get("ev", "ident")>> \o Listed("(", "args", "expr", ")") \o <<End>>
parse_transfer_stmt ==
  <<Node("transfer"), Tok("transfer"), Get("e", "expr"),
    If({"from"}, <<Tok("from"), Get("from", "expr")>>), Tok("to"), Get("to", "expr"), End>>
parse_append_stmt ==
  <<Node("append"), Tok("append"), Get("x", "ident"), Tok("{"), Lines,
    Many("args", "field_value", {}, {"}", Eof[1]}, "", FALSE, {}), Tok("}"), End>>
field_value == <<Node("value"), Get("x", "ident"), Tok(":"), Get("e", "expr"), Eat(",")>>
parse_discard_stmt == <<Node("discard"), Tok("discard"), Get("t", "lvalue"), End>>
parse_delete_stmt  == <<Node("delete"), Tok("delete"), Get("t", "lvalue"), End>>
parse_return_stmt  == <<Node("return"), Tok("return"), Then("return_value"), End>>
return_value(p) == IF Peek(p) \in {NL[1], ";", "}", Eof[1]} THEN <<>> ELSE <<Get("e", "expr")>>
parse_revert_with_stmt ==
  <<Node("revert_with"), Tok("revert_with"), Get("x", "ident")>>
    \o MaybeListed("args", "expr") \o <<End>>

\* What an expression may be assigned to; parentheses do not count.
RECURSIVE IsLvalue(_), expr_to_lvalue(_)
IsLvalue(e) == e.k = "id" \/ (e.k \in {"dot", "index", "paren"} /\ IsLvalue(e.a))
expr_to_lvalue(e) ==
  CASE e.k = "paren" -> expr_to_lvalue(e.a)
    [] e.k = "id"    -> e
    [] OTHER         -> [e EXCEPT !.a = expr_to_lvalue(@)]
parse_expr_or_assign_stmt == <<Get("e", "expr"), Then("assignment")>>
AssignOps == {"=", "+=", "-=", "*=", "/=", "%="}
assignment(p) ==
  CASE Peek(p) \notin AssignOps -> <<Node("eval"), End>>
    [] IsLvalue(p.v.e) -> <<<<"assign">>, Node("set"), Get("o", "word"), Get("e", "expr"), End>>
    [] OTHER -> <<Get("o", "word"), Fail>>

parse_stmt(p) ==
  LET t == Peek(p) IN
  CASE t = "let"  -> parse_let            [] t = "match" -> parse_match_stmt
    [] t = "if"   -> parse_if_stmt        [] t = "encrypted_when" -> parse_encrypted_when_stmt
    [] t = "for"  -> parse_for_each_stmt  [] t = "try_action" -> parse_try_catch_stmt
    [] t = "emit" -> parse_emit_stmt      [] t = "transfer" -> parse_transfer_stmt
    [] t = "append" -> parse_append_stmt  [] t = "discard" -> parse_discard_stmt
    [] t = "delete" -> parse_delete_stmt  [] t = "return" -> parse_return_stmt
    [] t = "revert_with" -> parse_revert_with_stmt
    [] OTHER -> parse_expr_or_assign_stmt

(***************************************************************************)
(* Expressions (parse_expr.rs).                                            *)
(***************************************************************************)
BP_UNARY   == 23
BP_POSTFIX == 24
Levels == <<{"||"}, {"&&"}, {"==", "!="}, {"<", "<=", ">", ">=", "in"}, {"|"}, {"^"}, {"&"},
            {"<<", ">>"}, {"+", "-", "++"}, {"*", "/", "%"}>>
BinaryOps == UNION {Levels[i] : i \in DOMAIN Levels}
\* Mutant of bp: all binary operators bind alike.
FlatBp(op) == 3
\* Binds to the left with 3, 5, 7 ..., to the right with one more.
bp(op) == 1 + 2 * CHOOSE i \in DOMAIN Levels : op \in Levels[i]
Tails == {"(", ".", "["}
\* How strongly what comes next binds to what stands before it.
LeftBp(t) == IF t \in Tails THEN BP_POSTFIX ELSE IF t \in BinaryOps THEN bp(t) ELSE -1

parse_if_expr ==
  <<Node("cond"), Tok("if"), Get("c", "expr"), Tok("{"), Get("a", "expr"), Tok("}"), Tok("else"),
    Tok("{"), Get("b", "expr"), Tok("}")>>
parse_match_expr ==
  <<Node("choose"), Tok("match"), Get("e", "expr"), Tok("{"), Lines,
    Many("arms", "match_expr_arm", {}, {"}"}, "", FALSE, {}), Tok("}")>>
match_expr_arm == <<Node("arm"), Get("c", "expr"), Tok("=>"), Get("e", "expr"), Eat(",")>>
parse_primary(p) ==
  LET t == Peek(p) IN
  CASE t \in {"int", "hex", "str"} -> <<Node(t), Get("n", "literal")>>
    [] t \in {"true", "false"} -> <<Node("bool"), Get("n", "word")>>
    [] t = "dur" -> <<Node(t), Get("unit", "unit"), Get("n", "literal")>>
    [] t = "id" \/ t \in keyword_as_ident_text -> <<Node("id"), Get("x", "ident")>>
    [] t = "("  -> <<Node("paren"), Tok("("), Get("a", "expr"), Tok(")")>>
    [] t = "["  -> <<Node("array")>> \o Listed("[", "args", "expr", "]")
    [] t = "encrypted" -> <<Node("enc"), Tok(t), Tok("("), Get("a", "expr"), Tok(")")>>
    [] t = "if"    -> parse_if_expr
    [] t = "match" -> parse_match_expr
    [] OTHER -> <<Fail>>

\* What may follow an expression, which then becomes its part `a`.
parse_call_tail  == <<Wrap("apply", "a")>> \o Listed("(", "args", "expr", ")")
parse_field_tail == <<Wrap("dot", "a"), Tok("."), Get("x", "any_ident")>>
parse_index_tail == <<Wrap("index", "a"), Tok("["), Get("i", "expr"), Then("slice_end"), Tok("]")>>
slice_end(p) == IF at(p, "..") THEN <<Node("slice"), Tok(".."), Get("to", "expr")>> ELSE <<>>
parse_tail(t) ==
  CASE t = "(" -> parse_call_tail [] t = "." -> parse_field_tail [] OTHER -> parse_index_tail

(***************************************************************************)
(* The functions by name: what each does from where the parser is, and the *)
(* steps taken one after the other until one fails.                        *)
(***************************************************************************)
Steps(p, rule) ==
  CASE rule = "type_body" -> parse_type_body(p)
    [] rule = "primary" -> parse_primary(p)      [] rule = "stmt_body" -> parse_stmt(p)
    [] rule = "assignment" -> assignment(p)      [] rule = "slice_end" -> slice_end(p)
    [] rule = "block_body" -> parse_block_body   [] rule = "function_body" -> parse_function_body
    [] rule = "branch" -> branch                 [] rule = "else_part" -> else_part(p)
    [] rule = "match_arm" -> match_arm           [] rule = "match_body" -> match_body(p)
    [] rule = "match_expr_arm" -> match_expr_arm [] rule = "catch_name" -> catch_name(p)
    [] rule = "field_value" -> field_value       [] rule = "return_value" -> return_value(p)
    [] rule = "annotation" -> parse_annotation   [] rule = "annotation_arg" -> annotation_arg(p)
    [] rule = "initializer" -> initializer(p)    [] rule = "metadata_value" -> metadata_value(p)
    [] rule = "struct_field" -> struct_field     [] rule = "arg" -> Argument_
    [] rule = "event_arg" -> event_arg           [] rule = "indexed" -> indexed(p)
    [] rule = "guard" -> guard(p)                [] rule = "guards" -> guards
    [] rule = "principal" -> parse_principal(p)  [] rule = "principal_args" -> principal_args(p)
    [] rule = "reveal_target" -> parse_reveal_target(p)
    [] rule = "reveal_body" -> reveal_body(p)    [] rule = "declaration" -> declaration(p)
    [] rule = "top_level_decl" -> parse_top_level_decl
    [] rule = "top_level_body" -> parse_top_level_body
    [] rule = "import" -> parse_import
    [] rule = "external_contract" -> parse_external_contract
    [] rule = "external_function" -> parse_external_function
    [] rule = "external_param" -> external_param [] rule = "param_name" -> param_name(p)

\* The rules that take a single token.
Leaf(p, rule) ==
  CASE rule = "ident"     -> expect_ident(p)
    [] rule = "any_ident" -> expect_ident_or_any_keyword(p)
    [] rule = "word"      -> [advance(p) EXCEPT !.v = Peek(p)]
    [] rule \in {"int", "str"} -> IF at(p, rule) THEN literal(p) ELSE Err(p)
    [] rule = "literal"   -> literal(p)
    [] rule = "unit"      -> [p EXCEPT !.v = peek(p)[3]]
    [] rule = "choice_value" -> IF Peek(p) \in {"str", "id"} THEN literal(p) ELSE Err(p)
    [] rule = "ordering"  -> parse_ordering(p)
    [] rule = "construct" -> expect_construct_keyword(p)
Leaves == {"ident", "any_ident", "word", "int", "str", "literal", "unit", "choice_value",
           "ordering", "construct"}

RECURSIVE Run(_, _), Parse(_, _), Item(_, _), Items(_, _), climb(_, _), parse_expr_bp(_, _)
Fresh(p) == [p EXCEPT !.v = NoParts]
\* Into nested constructs, and at their end back to the depth before.
Within(p, rule) == Run(p, IF p.ok THEN Steps(p, rule) ELSE <<>>)
parse_type(p) == [Within(enter_type_depth(p), "type_body") EXCEPT !.types = p.types]
Stmts_(q) == IF q.ok THEN [q EXCEPT !.v = @.stmts] ELSE q
Charged(p) == IF p.ok THEN charge_body_stmt(p) ELSE p
parse_block(p) ==
  [Stmts_(Run(Charged(enter_depth(p)), parse_block_body)) EXCEPT !.nest = p.nest]
counted_stmt(p) == Within(skip_newlines(charge_body_stmt(p)), "stmt_body")

\* The operand q becomes part of a node, or what went wrong in it is passed on.
Prefixed(o, q)   == IF q.ok THEN [q EXCEPT !.v = [k |-> "unary", o |-> o, a |-> @]] ELSE q
Infixed(o, a, q) == IF q.ok THEN [q EXCEPT !.v = [k |-> "bin", o |-> o, a |-> a, b |-> @]] ELSE q
Lambda_(x, q)    == IF q.ok THEN [q EXCEPT !.v = [k |-> "lambda", x |-> x, e |-> @]] ELSE q
parse_prefix(p) ==
  CASE ~ p.ok -> p
    [] Peek(p) \in {"!", "-", "~"} -> Prefixed(Peek(p), parse_expr_bp(advance(p), BP_UNARY))
    [] OTHER -> Within(p, "primary")
parse_expr_bp(p, min) ==
  IF p.ok THEN [climb(parse_prefix(Fresh(enter_depth(p))), min) EXCEPT !.nest = p.nest] ELSE p
\* One operator or tail after the other, as long as they bind strongly enough.
\* A name before `=>` is a lambda's parameter.
Extended(p, t) ==
  CASE t = "=>"    -> Lambda_(p.v.x, parse_expr_bp(advance(enter_chain_depth(p)), 0))
    [] t \in Tails -> Run(enter_chain_depth(p), parse_tail(t))
    [] OTHER       -> Infixed(t, p.v, parse_expr_bp(advance(enter_chain_depth(p)), bp(t) + 1))
GoesOn(p, t, min) ==
  \/ t = "=>" /\ min = 0 /\ p.v.k = "id"
  \/ LeftBp(t) >= min /\ LeftBp(t) >= 0
climb(p, min) ==
  IF p.ok /\ GoesOn(p, Peek(p), min) THEN climb(Extended(p, Peek(p)), min) ELSE p

\* Names, their fields and elements, for the statements that take no expression.
RECURSIVE parse_lvalue_body(_)
lvalue_tail(p) ==
  IF at(p, ".") THEN <<Wrap("dot", "a"), Tok("."), Get("x", "ident")>>
  ELSE <<Wrap("index", "a"), Tok("["), Get("i", "expr"), Tok("]")>>
parse_lvalue_body(p) ==
  IF p.ok /\ Peek(p) \in {".", "["}
  THEN parse_lvalue_body(Run(enter_chain_depth(p), lvalue_tail(p))) ELSE p
parse_lvalue(p) ==
  [parse_lvalue_body(Run(p, <<Node("id"), Get("x", "ident")>>)) EXCEPT !.nest = p.nest]

Parse(p, rule) ==
  CASE rule \in Leaves -> Leaf(p, rule)
    [] rule = "type"   -> parse_type(Fresh(p))
    [] rule = "expr"   -> parse_expr_bp(p, 0)
    [] rule = "block"  -> parse_block(Fresh(p))
    [] rule = "stmt"   -> counted_stmt(Fresh(p))
    [] rule = "lvalue" -> parse_lvalue(Fresh(p))
    [] OTHER           -> Run(Fresh(p), Steps(p, rule))

More(p, m) == IF m.first # {} THEN Peek(p) \in m.first ELSE Peek(p) \notin m.last
\* One item, or what is left of the text behind it when it fails and the loop
\* goes on all the same.
Collected(p, m, q) ==
  CASE ~ q.ok /\ (m.sync = {} \/ (m.rule = "stmt" /\ body_budget_blown(q))) -> q
    [] ~ q.ok     -> skip_newlines(recover_to([q EXCEPT !.v = p.v], m.sync))
    [] m.sep = "" -> skip_newlines(With([q EXCEPT !.v = p.v], m.h, Append(Parts(p.v, m.h), q.v)))
    [] OTHER      -> With([q EXCEPT !.v = p.v], m.h, Append(Parts(p.v, m.h), q.v))
One(p, m) == Collected(p, m, Parse(p, m.rule))
\* What stands behind an item decides whether another one must, or may, follow.
Next_(r, m) ==
  CASE m.sep = ""  -> Items(r, m)
    [] ~ r.ok \/ ~ at(r, m.sep) -> r
    [] m.strict -> Item(advance(r), m)
    [] OTHER    -> Items(skip_newlines(advance(r)), m)
Item(p, m)  == Next_(One(p, m), m)
Items(p, m) == IF p.ok /\ More(p, m) THEN Item(p, m) ELSE p

Got(p, h, q) == IF q.ok THEN With([q EXCEPT !.v = p.v], h, q.v) ELSE q
Step(p, s) ==
  CASE s[1] = "node" -> With(p, "k", s[2])
    [] s[1] = "wrap" -> [p EXCEPT !.v = [h \in {"k", s[3]} |-> IF h = "k" THEN s[2] ELSE p.v]]
    [] s[1] = "tok"  -> expect(p, s[2])
    [] s[1] = "word" -> IF peek(p) = <<"id", s[2]>> THEN advance(p) ELSE Err(p)
    [] s[1] = "eat"  -> IF at(p, s[2]) THEN advance(p) ELSE p
    [] s[1] = "mark" -> IF at(p, s[3]) THEN With(advance(p), s[2], s[3]) ELSE p
    [] s[1] = "lines" -> skip_newlines(p)
    [] s[1] = "end"  -> expect_stmt_terminator(p)
    [] s[1] = "get"  -> Got(p, s[2], Parse(p, s[3]))
    [] s[1] = "if"   -> IF Peek(p) \in s[2] THEN Run(p, s[3]) ELSE p
    [] s[1] = "then" -> Run(p, Steps(p, s[2]))
    [] s[1] = "many" -> Items(With(p, s[2].h, Parts(p.v, s[2].h)), s[2])
    [] s[1] = "annotated" -> annotated(p, s[2])
    [] s[1] = "none"      -> With(p, s[2], <<>>)
    [] s[1] = "sorted"    -> sorted(p)
    [] s[1] = "assign"    -> With(p, "t", expr_to_lvalue(p.v.e))
    [] s[1] = "new_body"  -> [p EXCEPT !.stmts = 0]
    [] s[1] = "fail"      -> Err(p)
\* In halves, which keeps the recursion flat.
Run(p, steps) ==
  LET m == Len(steps) \div 2 IN
  CASE ~ p.ok \/ steps = <<>> -> p
    [] m = 0 -> Step(p, steps[1])
    [] OTHER -> Run(Run(p, SubSeq(steps, 1, m)), SubSeq(steps, m + 1, Len(steps)))

(***************************************************************************)
(* The declarations of a file, one after the other.  There is a file as    *)
(* soon as its construct could be made out, with whatever was skipped on   *)
(* the way missing.                                                        *)
(***************************************************************************)
begin_file(toks) == With(Run(Parser(toks), File_), "decls", <<>>)
more_decls(p)    == p.ok /\ More(p, Decls_[2])
parse_decl(p)    == One(p, Decls_[2])
end_file(p) ==
  LET q == Run(p, <<Tok("}"), Lines>>) IN [q EXCEPT !.errors = @ \/ ~ at(q, Eof[1])]
=============================================================================
