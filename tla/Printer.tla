------------------------------- MODULE Printer -------------------------------
(***************************************************************************)
(* The printer (crates/covenant-parser/src/printer.rs): what `covenant     *)
(* fmt` writes for a file that was parsed.  A text is a sequence of        *)
(* lexemes again: indentation and empty lines leave no trace in it, but    *)
(* two characters printed side by side may be one lexeme.                  *)
(***************************************************************************)
EXTENDS Parser

Word_(w)    == <<<<w>>>>
Words(ws)   == [i \in DOMAIN ws |-> <<ws[i]>>]
Has(n, h)   == h \in DOMAIN n
If_(c, t)   == IF c THEN t ELSE <<>>

\* Texts one after the other, in halves.
RECURSIVE Joined(_, _, _, _)
Joined(texts, sep, i, j) ==
  LET m == (i + j) \div 2 IN
  CASE i > j -> <<>>
    [] i = j -> texts[i]
    [] OTHER -> Joined(texts, sep, i, m) \o sep \o Joined(texts, sep, m + 1, j)
Join(texts, sep)  == Joined(texts, sep, 1, Len(texts))
Inside(open, texts, close) == Word_(open) \o Join(texts, Word_(",")) \o Word_(close)
Line(t)           == Append(t, NL)
Braces(t)         == Word_("{") \o t \o Word_("}")
Block(lines)      == Braces(<<NL>> \o lines)

(***************************************************************************)
(* Types and expressions.                                                  *)
(***************************************************************************)
\* `>` after `>` reads `>>`, and `-` before `-` begins a comment.
Close(t) == IF Last(t) = <<">">> THEN Append(Front(t), <<">>">>) ELSE Append(t, <<">">>)
Angle(w, texts) == Words(<<w, "<">>) \o Close(Join(texts, Word_(",")))
Negated(t) ==
  IF Head(t) \in {<<"-">>, <<"--">>} THEN Word_("--") \o Tail(t) ELSE Word_("-") \o t

binary_op_str(o) == IF o = "&&" THEN "and" ELSE IF o = "||" THEN "or" ELSE o
literal_str(e) ==
  CASE e.k = "bool" -> Word_(e.n)
    [] e.k = "dur"  -> <<<<"int", e.n \div UnitSeconds[e.unit]>>, <<e.unit>>>>
    [] OTHER        -> <<<<e.k, e.n>>>>

RECURSIVE expr_str(_), type_str(_), lvalue_str(_)
Exprs(es) == [i \in DOMAIN es |-> expr_str(es[i])]
Unary(o, t) ==
  CASE o = "!" -> Word_("not") \o t
    [] o = "-" -> Negated(t)
    [] OTHER   -> Word_(o) \o t
expr_str(e) ==
  CASE e.k \in {"int", "hex", "str", "bool", "dur"} -> literal_str(e)
    [] e.k = "id"     -> Word_(e.x)
    [] e.k = "bin"    -> expr_str(e.a) \o Word_(binary_op_str(e.o)) \o expr_str(e.b)
    [] e.k = "unary"  -> Unary(e.o, expr_str(e.a))
    [] e.k = "apply"  -> expr_str(e.a) \o Inside("(", Exprs(e.args), ")")
    [] e.k = "dot"    -> expr_str(e.a) \o Words(<<".", e.x>>)
    [] e.k = "index"  -> expr_str(e.a) \o Inside("[", <<expr_str(e.i)>>, "]")
    [] e.k = "slice"  -> expr_str(e.a) \o Word_("[") \o expr_str(e.i) \o Word_("..")
                           \o expr_str(e.to) \o Word_("]")
    [] e.k = "array"  -> Inside("[", Exprs(e.args), "]")
    [] e.k = "paren"  -> Inside("(", <<expr_str(e.a)>>, ")")
    [] e.k = "cond"   -> Word_("if") \o expr_str(e.c) \o Braces(expr_str(e.a))
                           \o Word_("else") \o Braces(expr_str(e.b))
    [] e.k = "choose" ->
         Word_("match") \o expr_str(e.e)
           \o Inside("{", [i \in DOMAIN e.arms |-> expr_str(e.arms[i].c) \o Word_("=>")
                                                     \o expr_str(e.arms[i].e)], "}")
    [] e.k = "enc"    -> Word_("encrypted") \o Inside("(", <<expr_str(e.a)>>, ")")
    [] e.k = "lambda" -> Words(<<"|", e.x, "|">>) \o expr_str(e.e)

\* A list of choices keeps its brackets, every other list loses them.
type_str(t) ==
  CASE t.k = "user"      -> Word_(t.x)
    [] t.k = "encrypted" -> Angle("encrypted", <<type_str(t.of)>>)
    [] t.k = "list" -> IF t.of.k = "choice" THEN Inside("[", <<type_str(t.of)>>, "]")
                       ELSE Angle("list", <<type_str(t.of)>>)
    [] t.k = "map"  -> Angle("map", <<type_str(t.key), type_str(t.of)>>)
    [] t.k = "priority_queue" -> Angle(t.k, <<type_str(t.key), type_str(t.of), Word_(t.order)>>)
    [] t.k = "shares" -> Words(<<"shares", "(">>) \o <<<<"int", t.n>>, <<"/">>, <<"int", t.m>>>>
                           \o Word_(",") \o expr_str(t.e) \o Word_(")")
    [] OTHER          -> Word_(t.k)
\* A field's choice comes with its values.
field_type_str(f) ==
  IF Has(f, "values") /\ f.values # <<>>
  THEN Words(<<"choice", "<">>)
         \o Close(Join([i \in DOMAIN f.values |-> Word_(f.values[i])], Word_("|")))
  ELSE type_str(f.ty)

lvalue_str(t) ==
  CASE t.k = "id"  -> Word_(t.x)
    [] t.k = "dot" -> lvalue_str(t.a) \o Words(<<".", t.x>>)
    [] OTHER       -> lvalue_str(t.a) \o Inside("[", <<expr_str(t.i)>>, "]")

(***************************************************************************)
(* Statements, each on lines of its own.                                   *)
(***************************************************************************)
RECURSIVE stmt_str(_)
Stmts(ss) == Join([i \in DOMAIN ss |-> stmt_str(ss[i])], <<>>)
Else(n, w) == If_(Has(n, "b"), Word_(w) \o Block(Stmts(Parts(n, "b"))))
If_str(s) ==
  Join([i \in DOMAIN s.arms |-> Word_("if") \o expr_str(s.arms[i].c) \o Block(Stmts(s.arms[i].a))],
       Word_("else"))
Match_str(s) ==
  Word_("match") \o expr_str(s.e)
    \o Block(Join([i \in DOMAIN s.arms |->
                     Line(expr_str(s.arms[i].c) \o Word_("=>") \o Block(Stmts(s.arms[i].a)))], <<>>))
Values_str(args) ==
  Join([i \in DOMAIN args |-> Line(Words(<<args[i].x, ":">>) \o expr_str(args[i].e))], <<>>)
stmt_body(s) ==
  CASE s.k = "let"    -> Words(<<"let", s.x>>)
                           \o If_(Has(s, "ty"), Word_(":") \o type_str(s.ty))
                           \o Word_("=") \o expr_str(s.e)
    [] s.k = "set"    -> lvalue_str(s.t) \o Word_(s.o) \o expr_str(s.e)
    [] s.k = "eval"   -> expr_str(s.e)
    [] s.k = "match"  -> Match_str(s)
    [] s.k = "if"     -> If_str(s) \o Else(s, "else")
    [] s.k = "encrypted_when" -> Word_("encrypted_when") \o expr_str(s.c) \o Block(Stmts(s.a))
                                   \o Else(s, "otherwise")
    [] s.k = "for"    -> Words(<<"for", s.x, "in">>) \o expr_str(s.t) \o Block(Stmts(s.a))
    [] s.k = "try_action" -> Word_("try_action") \o Block(Stmts(s.a)) \o Word_("catch")
                               \o If_(Has(s, "x"), Word_(s.x)) \o Block(Stmts(s.b))
    [] s.k = "emit"   -> Words(<<"emit", s.ev>>) \o Inside("(", Exprs(s.args), ")")
    [] s.k = "transfer" -> Word_("transfer") \o expr_str(s.e)
                             \o If_(Has(s, "from"), Word_("from") \o expr_str(s.from))
                             \o Word_("to") \o expr_str(s.to)
    [] s.k = "append" -> Words(<<"append", s.x>>) \o Block(Values_str(s.args))
    [] s.k \in {"discard", "delete"} -> Word_(s.k) \o lvalue_str(s.t)
    [] s.k = "return" -> Word_("return") \o If_(Has(s, "e"), expr_str(s.e))
    [] s.k = "revert_with" -> Words(<<"revert_with", s.x>>)
                                \o Inside("(", Exprs(Parts(s, "args")), ")")
stmt_str(s) == Line(stmt_body(s))

(***************************************************************************)
(* Declarations.                                                           *)
(***************************************************************************)
principal_str(p) ==
  CASE p.k = "at" -> expr_str(p.e)
    [] p.k = "of" -> Word_(p.x) \o Inside("(", Exprs(p.args), ")")
    [] OTHER      -> Word_(p.x)
guard_str(g) ==
  Word_(g.k) \o (IF g.k = "only" THEN principal_str(g.to) ELSE expr_str(g.e))
qualifier_str(q) ==
  CASE q.k = "verified_by" -> Word_(q.k) \o expr_str(q.e)
    [] q.k = "pq_signed"   -> Word_(q.k) \o Inside("(", Exprs(<<q.msg, q.sig, q.pk>>), ")")
    [] OTHER               -> Word_(q.k) \o Inside("(", <<expr_str(q.e)>>, ")")
\* Mutant of Guards_str: the first guard only.
FirstGuard_str(gs, sep) == IF gs = <<>> THEN <<>> ELSE guard_str(Head(gs))
Guards_str(gs, sep) == Join([i \in DOMAIN gs |-> guard_str(gs[i])], sep)
annotation_arg_str(a) ==
  If_(a.k = "named", Words(<<IF Has(a, "x") THEN a.x ELSE "-", ":">>)) \o expr_str(a.e)
annotation_str(a) ==
  Words(<<"@", a.x>>)
    \o If_(Parts(a, "args") # <<>>,
           Inside("(", [i \in DOMAIN Parts(a, "args") |-> annotation_arg_str(a.args[i])], ")"))

Typed_str(a)  == Words(<<a.x, ":">>) \o type_str(a.ty)
fmt_args(n)   == LET args == Parts(n, "args") IN
                   Inside("(", [i \in DOMAIN args |-> Typed_str(args[i])], ")")
event_arg_str(a) == If_(Has(a, "indexed"), Word_("indexed")) \o Typed_str(a)
Returns(n)    == If_(Has(n, "ret"), Word_("returns") \o type_str(n.ret))
To_(n)        == If_(Has(n, "to"), Word_("to") \o principal_str(n.to))

\* What stands in front of a field is not printed, @slot least of all.
print_field_decl(f) ==
  If_(Has(f, "privacy"), Word_(f.privacy)) \o If_(Has(f, "explicit"), Word_("field"))
    \o Words(<<f.x, ":">>) \o field_type_str(f)
    \o If_(Has(f, "e"), Word_("=") \o expr_str(f.e))
print_struct_decl(s) ==
  Words(<<s.k, s.x>>)
    \o Block(Join([i \in DOMAIN s.fields |-> Line(print_field_decl(s.fields[i]))], <<>>))
print_action_decl(a) ==
  Join([i \in DOMAIN a.annotations |-> Line(annotation_str(a.annotations[i]))], <<>>)
    \o Words(<<"action", a.x>>) \o fmt_args(a) \o Guards_str(a.guards, Word_(","))
    \o Join([i \in DOMAIN a.quals |-> qualifier_str(a.quals[i])], <<>>) \o Block(Stmts(a.body))
print_view_decl(v) ==
  Words(<<"view", v.x>>) \o fmt_args(v) \o Returns(v) \o Guards_str(v.guards, <<>>)
    \o Braces(expr_str(v.e))
\* The short form leaves out what a reveal returns.
print_reveal_decl(r) ==
  IF Parts(r, "args") = <<>> /\ ~ Has(r, "e") THEN Words(<<"reveal", r.x>>) \o To_(r)
  ELSE Words(<<"reveal", r.x>>) \o fmt_args(r) \o Returns(r) \o To_(r)
         \o Guards_str(Parts(r, "guards"), Word_(",")) \o If_(Has(r, "e"), Braces(expr_str(r.e)))
print_metadata(m) == Words(<<m.x, ":">>) \o expr_str(m.e) \o To_(m)

RECURSIVE print_top_level_decl(_)
Decls(ds) == Join([i \in DOMAIN ds |-> print_top_level_decl(ds[i])], <<>>)
decl_str(d) ==
  CASE d.k = "metadata" -> print_metadata(d)
    [] d.k = "field"    -> print_field_decl(d)
    [] d.k \in {"struct", "credential"} -> print_struct_decl(d)
    [] d.k = "error"    -> Words(<<"error", d.x>>) \o fmt_args(d)
    [] d.k = "event"    -> Words(<<"event", d.x>>)
                             \o Inside("(", [i \in DOMAIN d.args |-> event_arg_str(d.args[i])], ")")
    [] d.k = "action"   -> print_action_decl(d)
    [] d.k = "view"     -> print_view_decl(d)
    [] d.k = "reveal"   -> print_reveal_decl(d)
    [] d.k = "version"  -> <<<<"version">>, <<"int", d.n>>>> \o Block(Decls(d.decls))
    [] d.k = "migrate"  -> Words(<<"migrate", "from">>) \o <<<<"int", d.n>>, <<"to">>, <<"int", d.m>>>>
                             \o Block(Stmts(d.body))
    [] d.k = "on_destroy" -> Word_("on_destroy") \o Block(Stmts(d.body))
    [] d.k = "selective_disclosure" ->
         Words(<<d.k, d.x>>) \o fmt_args(d) \o Words(<<"using", d.circuit>>) \o Braces(expr_str(d.e))
print_top_level_decl(d) == Line(decl_str(d))

print_import(i) ==
  Line(Word_("import") \o Join([j \in DOMAIN i.path |-> Word_(i.path[j])], Word_("::"))
         \o If_(Has(i, "alias"), Word_("as") \o Word_(i.alias)))
external_param_str(a) == type_str(a.ty) \o If_(Has(a, "x"), Word_(a.x))
print_external_function(f) ==
  Line(Words(<<"function", f.x>>)
         \o Inside("(", [i \in DOMAIN f.args |-> external_param_str(f.args[i])], ")")
         \o If_(Has(f, "is_view"), Word_("view")) \o Returns(f))
print_external_contract(c) ==
  Line(Words(<<"external", "contract", c.x>>)
         \o Block(Join([i \in DOMAIN c.functions |-> print_external_function(c.functions[i])], <<>>)))
print_top_level(f) ==
  If_(Has(f, "privacy"), Word_(f.privacy)) \o Words(<<f.keyword, f.x>>)
    \o If_(Has(f, "chains"), Word_("anchored_on") \o Join([i \in DOMAIN f.chains |-> Word_(f.chains[i])], Word_(",")))
    \o If_(Has(f, "upgradeable_by"), Word_("upgradeable_by") \o principal_str(f.upgradeable_by))
    \o Block(Decls(f.decls))
pretty_print(f) ==
  Join([i \in DOMAIN f.imports |-> print_import(f.imports[i])], <<>>)
    \o Join([i \in DOMAIN f.externals |-> print_external_contract(f.externals[i])], <<>>)
    \o Line(print_top_level(f))
=============================================================================
