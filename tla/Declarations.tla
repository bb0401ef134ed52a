---------------------------- MODULE Declarations ----------------------------
(***************************************************************************)
(* What a parsed file declares: its names (resolver.rs, first pass) and    *)
(* the types of its fields and events (checker.rs, first two passes).  A   *)
(* declaration is a node of the parser's; expressions are not looked into, *)
(* and a version's declarations only for their names.                      *)
(***************************************************************************)
EXTENDS CovenantSource, StorageLayout

Declared(file, kinds) == SelectSeq(file.decls, LAMBDA d : d.k \in kinds)
Behaviours == {"action", "view", "reveal"}

(***************************************************************************)
(* Names.  `scope` maps a name to the kind of what it is bound to; `ok`    *)
(* says whether no name was declared twice.  Only a field may take the     *)
(* place of a name of the language.                                        *)
(***************************************************************************)
lang_idents(keyword) ==
  {"deployer", "this", "zero_address", "owner"} \cup
    CASE keyword = "bridge"   -> {"this_chain", "other_chain"}
      [] keyword = "ceremony" -> {"phase", "opens_at", "closes_at"}
      [] keyword = "ballot"   -> {"opens_at", "closes_at", "opened_at", "tally"}
      [] keyword \in {"market", "vault"} -> {"opens_at", "closes_at"}
      [] keyword = "board"    -> {"posts"}
      [] OTHER                -> {}

Bind(names, x, kind, free) ==
  IF free THEN [names EXCEPT !.scope = (x :> kind) @@ @] ELSE [names EXCEPT !.ok = FALSE]
register_field(names, x) ==
  Bind(names, x, "field", x \in DOMAIN names.scope => names.scope[x] = "lang")
register_named(names, x, kind) == Bind(names, x, kind, x \notin DOMAIN names.scope)

\* A reveal in one line names a field and declares nothing; a version has a
\* scope of its own.
Named_ == {"struct", "credential", "error", "event", "action", "view", "selective_disclosure"}
RECURSIVE pass1_register_decls(_, _)
register_decl(names, d) ==
  CASE d.k = "field" -> register_field(names, d.x)
    [] d.k \in Named_ \/ (d.k = "reveal" /\ "e" \in DOMAIN d) -> register_named(names, d.x, d.k)
    [] d.k = "version" ->
         LET own == pass1_register_decls([names EXCEPT !.scope = <<>>], d.decls)
         IN [names EXCEPT !.ok = own.ok]
    [] OTHER -> names
pass1_register_decls(names, decls) == FoldLeft(register_decl, names, decls)

register_external_contracts(names, externals) ==
  FoldLeft(LAMBDA acc, c : register_named(acc, c.x, "external"), names, externals)
Names(file) ==
  LET seeded == [scope |-> [x \in lang_idents(file.keyword) |-> "lang"], ok |-> TRUE]
  IN pass1_register_decls(register_external_contracts(seeded, file.externals), file.decls)

(***************************************************************************)
(* Types.  A name in a type must be a struct's; of the arguments of an     *)
(* action, view or reveal none may hide it.                                *)
(***************************************************************************)
RECURSIVE UserTypes(_), lower_type(_, _)
UserTypes(t) ==
  CASE t.k = "user" -> {t.x}
    [] t.k \in {"encrypted", "list"} -> UserTypes(t.of)
    [] t.k \in {"map", "priority_queue"} -> UserTypes(t.key) \cup UserTypes(t.of)
    [] OTHER -> {}
TypesOf(d) ==
  {d[h] : h \in DOMAIN d \cap {"ty", "ret"}}
    \cup {Maybe(d, "args")[i].ty : i \in DOMAIN Maybe(d, "args")}
    \cup {Maybe(d, "fields")[i].ty : i \in DOMAIN Maybe(d, "fields")}
walk_types(scope, d) ==
  LET hidden == IF d.k \in Behaviours \cup {"selective_disclosure"}
                THEN {Maybe(d, "args")[i].x : i \in DOMAIN Maybe(d, "args")} ELSE {}
  IN \A t \in TypesOf(d) : \A x \in UserTypes(t) :
       x \in DOMAIN scope \ hidden /\ scope[x] \in {"struct", "credential"}

\* A struct that is declared further down is not known yet.
lower_type(structs, t) ==
  CASE t.k = "user" -> IF t.x \in DOMAIN structs THEN structs[t.x] ELSE Unknown
    [] t.k = "encrypted" -> Sealed(lower_type(structs, t.of))
    [] t.k = "list" -> ListOf(lower_type(structs, t.of))
    [] t.k = "map"  -> MapOf(lower_type(structs, t.key), lower_type(structs, t.of))
    [] t.k = "priority_queue" ->
         <<t.k, lower_type(structs, t.key), lower_type(structs, t.of), t.order>>
    [] t.k = "shares" -> <<t.k, t.n, t.m>>
    [] OTHER -> <<t.k>>
\* A struct is what its only member is, or the sequence of what its members are.
register_struct(structs, d) ==
  LET members == [i \in DOMAIN d.fields |-> lower_type(structs, d.fields[i].ty)]
  IN (d.x :> StructOf(IF Len(members) = 1 THEN members[1] ELSE members)) @@ structs
register_nominal_types(file) ==
  FoldLeft(register_struct, <<>>, Declared(file, {"struct", "credential"}))

\* Without a word of its own a field follows its construct.
wrap_ciphertext(t) == IF IsSealed(t) THEN t ELSE Sealed(t)
construct_encrypted(file) ==
  "privacy" \in DOMAIN file /\ file.privacy \in {"encrypted", "sealed", "confidential"}
apply_construct_privacy(file, f, t) ==
  IF Maybe(f, "privacy") = "encrypted" \/ (Maybe(f, "privacy") = <<>> /\ construct_encrypted(file))
  THEN wrap_ciphertext(t) ELSE t

ByName(decls, Of(_)) ==
  [x \in {decls[i].x : i \in DOMAIN decls} |->
     Of(decls[CHOOSE i \in DOMAIN decls : decls[i].x = x])]
FieldTypes(structs, file) ==
  ByName(Declared(file, {"field"}),
         LAMBDA f : apply_construct_privacy(file, f, lower_type(structs, f.ty)))
EventTypes(structs, file) ==
  ByName(Declared(file, {"event"}),
         LAMBDA ev : [i \in DOMAIN ev.args |-> lower_type(structs, ev.args[i].ty)])

(***************************************************************************)
(* What some phase of the compiler refuses of a file.                      *)
(***************************************************************************)
known_annotations == {"precompute", "batch_up_to", "prove_offchain", "gas_budget"}
check_annotations(d) ==
  d.k = "action" => \A i \in DOMAIN d.annotations : d.annotations[i].x \in known_annotations
declarations_ok(file) ==
  LET names  == Names(file)
      fields == Declared(file, {"field"})
  IN /\ file.imports = <<>> /\ names.ok
     /\ \A d \in Range(file.decls) : walk_types(names.scope, d) /\ check_annotations(d)
     /\ \A f \in Range(fields) : slots_valid(f)
     /\ ~ detect_slot_collisions(fields)
=============================================================================
