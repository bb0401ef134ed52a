------------------------------ MODULE FrontEnd ------------------------------
(***************************************************************************)
(* From a text to a program: the driver's first phases (covenant-driver/   *)
(* src/lib.rs) cut the text into tokens and parse it, one declaration      *)
(* after the other; what they report ends the compilation.  `covenant fmt` *)
(* (covenant-cli/src/commands/fmt.rs) instead prints what was parsed back  *)
(* into the file, whatever was reported, and the file is read again.       *)
(***************************************************************************)
EXTENDS Syntax

CONSTANTS Files,               \* texts, each with the program it was written for
          MaxSeconds, MAX_PARSE_DEPTH, MAX_BODY_STMTS
Text == INSTANCE Printer

VARIABLES prog,                \* the declaration the text was written for
          text,                \* the file
          parser,              \* the parser, then what it has built
          before,              \* what had been parsed when the file was formatted
          stage                \* what happens next
front == <<prog, text, parser, before, stage>>

NoProgram == <<>>
NoText    == <<>>
NoFile    == <<>>
Formatted == before # NoFile

InitText ==
  /\ \E f \in Files : text = f.text /\ prog = f.prog
  /\ parser = NoFile /\ before = NoFile /\ stage = "text"

\* The lexer goes on after an error, and so does the parser on its tokens.
Begun(lexed) == LET p == Text!begin_file(lexed.toks) IN [p EXCEPT !.errors = @ \/ ~ lexed.ok]
Read ==
  /\ stage = "text" /\ stage' = "declarations"
  /\ parser' = Begun(Text!tokenize(text))
  /\ UNCHANGED <<prog, text, before>>

ParseDecl ==
  /\ stage = "declarations" /\ Text!more_decls(parser)
  /\ parser' = Text!parse_decl(parser)
  /\ UNCHANGED <<prog, text, before, stage>>

\* There is no file when the construct or its end could not be found.
Parsed(p) == [file |-> IF p.ok THEN p.v ELSE NoFile, errors |-> p.errors]
EndFile ==
  /\ stage = "declarations" /\ ~ Text!more_decls(parser)
  /\ parser' = Parsed(Text!end_file(parser)) /\ stage' = "parsed"
  /\ UNCHANGED <<prog, text, before>>

\* format_source looks at no diagnostics.
Format ==
  /\ stage = "parsed" /\ ~ Formatted /\ parser.file # NoFile
  /\ text' = Text!pretty_print(parser.file) /\ before' = parser.file
  /\ parser' = NoFile /\ stage' = "text"
  /\ UNCHANGED prog

Acceptable == ~ parser.errors /\ declarations_ok(parser.file)
Close == text' = NoText /\ parser' = NoFile /\ before' = NoFile
Refuse ==
  /\ stage = "parsed" /\ ~ Acceptable /\ stage' = "rejected"
  /\ Close /\ UNCHANGED prog
\* Files without a program declare things only.
Declare ==
  /\ stage = "parsed" /\ Acceptable /\ prog = NoProgram /\ stage' = "declared"
  /\ Close /\ UNCHANGED prog

(***************************************************************************)
(* Properties.                                                             *)
(***************************************************************************)
\* What fmt is known to leave out: @slot, and what a one-line reveal returns.
Unprinted(d) ==
  IF d.k = "field" THEN [d EXCEPT !.annotations = <<>>]
  ELSE IF d.k = "reveal" /\ "e" \notin DOMAIN d
       THEN [h \in DOMAIN d \ {"ret"} |-> d[h]] ELSE d
Printed(file) == [file EXCEPT !.decls = [i \in DOMAIN @ |-> Unprinted(@[i])]]
\* `!(a)` is printed `not (a)`, which reads as a call of `not`.
CallsNot(t) == \E i \in 1..Len(t) - 1 : t[i] = <<"not">> /\ t[i + 1] = <<"(">>

\* A formatted file that still parses says what it said before: the same
\* declarations in the same order, with the same types, guards, statements and
\* expressions (pretty_print; format_source writes whatever it returns back
\* over the source).
FormattingIsHonest ==
  stage = "parsed" /\ Formatted /\ ~ parser.errors /\ ~ CallsNot(text) =>
    Printed(parser.file) = Printed(before)

\* An accepted file never has two fields in one storage slot, nor one in the
\* slots of the deployer and of the reentrancy lock, however @slot and the
\* fields without it are mixed (slot_for_global against detect_slot_collisions).
FieldsKeepApart ==
  stage = "parsed" /\ Acceptable => KeptApart(Declared(parser.file, {"field"}))
=============================================================================
