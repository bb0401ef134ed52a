-------------------------------- MODULE Lexer --------------------------------
(***************************************************************************)
(* Tokens (crates/covenant-lexer).  A text is the sequence of the lexemes  *)
(* the scanner cuts it into: <<w>> is the word or symbol w, <<"int", n>>,  *)
(* <<"hex", b>> and <<"str", s>> are literals.  A token looks the same,    *)
(* except that a word which is no keyword becomes <<"id", w>>, and an      *)
(* integer with a unit of time <<"dur", seconds, unit>>.                   *)
(***************************************************************************)
EXTENDS Integers, Sequences, SequencesExt, TLC

CONSTANT MaxSeconds            \* the longest duration, 2^64 - 1

NL  == <<"newline">>
Eof == <<"eof">>

Constructs == {"module", "record", "token", "ballot", "counter", "board", "market", "vault",
               "registry", "bridge", "ceremony", "nft", "test"}
Privacies  == {"public", "private", "encrypted", "sealed", "hybrid", "confidential"}
TypeWords  == {"amount", "time", "duration", "hash", "text", "address", "choice", "pq_key",
               "bytes", "bool", "ciphertext", "map", "priority_queue", "shares"}
Keywords ==
  Constructs \cup Privacies \cup TypeWords
    \cup {"true", "false", "_", "action", "view", "reveal", "when", "only", "given",
          "field", "event", "error", "struct", "credential", "version",
          "match", "let", "return", "for", "each", "in", "if", "else", "encrypted_when",
          "otherwise", "try_action", "catch", "revert_with",
          "on_destroy", "migrate", "from", "to", "anchored_on", "upgradeable_by",
          "selective_disclosure", "using", "as", "returns", "import",
          "emit", "transfer", "append", "discard", "delete",
          "verified_by", "pq_signed", "vdf_locked", "external", "contract", "function"}
Punctuation ==
  {"(", ")", "[", "]", "{", "}", ",", ";", "::", ":", "..", ".", "->", "=>", "@",
   "++", "+=", "+", "-=", "-", "*=", "*", "/=", "/", "%=", "%", "==", "=", "!=", "!",
   "<=", "<<", "<", ">=", ">>", ">", "&&", "&", "||", "|", "^", "~"}
Forbidden == {"//", "/*", "cr", "unexpected"}    \* E003, E004, E008, no lexeme at all

\* Seconds per unit.
UnitSeconds ==
  [second |-> 1, seconds |-> 1, minute |-> 60, minutes |-> 60, hour |-> 3600, hours |-> 3600,
   day |-> 86400, days |-> 86400, week |-> 604800, weeks |-> 604800]
UnitName(w) ==
  CASE w \in {"second", "seconds"} -> "seconds" [] w \in {"minute", "minutes"} -> "minutes"
    [] w \in {"hour", "hours"} -> "hours" [] w \in {"day", "days"} -> "days"
    [] OTHER -> "weeks"

resolve_keyword(w) == IF w \in Keywords \cup Punctuation THEN <<w>> ELSE <<"id", w>>

\* A comment lasts to the end of the line.
InComment(text, i) == \E j \in 1..i : text[j] = <<"--">> /\ \A k \in j..i : text[k] # NL

\* An integer and the unit right behind it are one literal, counted in seconds
\* here and nowhere else.
Fuses(code, i) ==
  i \in 2..Len(code) /\ code[i - 1][1] = "int" /\ code[i][1] \in DOMAIN UnitSeconds
Fused(n, unit) ==
  IF n * UnitSeconds[unit] > MaxSeconds THEN <<"invalid">>
  ELSE <<"dur", n * UnitSeconds[unit], UnitName(unit)>>
Token_(code, i) ==
  CASE code[i] = NL              -> NL
    [] code[i][1] \in Forbidden  -> <<"invalid">>
    [] Fuses(code, i)            -> Fused(code[i - 1][2], code[i][1])
    [] Len(code[i]) = 2          -> code[i]
    [] OTHER                     -> resolve_keyword(code[i][1])

\* Of several ends of lines one is left.
Filter(s, Keep(_)) ==
  LET kept == SelectSeq([i \in DOMAIN s |-> i], Keep) IN [k \in DOMAIN kept |-> s[kept[k]]]
tokenize(text) ==
  LET code == Filter(text, LAMBDA i : ~ InComment(text, i))
      all  == [i \in DOMAIN code |-> Token_(code, i)]
      toks == Filter(all, LAMBDA i : /\ ~ Fuses(code, i + 1)
                                     /\ ~ (i > 1 /\ all[i] = NL /\ all[i - 1] = NL))
  IN [toks |-> Append(toks, Eof), ok |-> <<"invalid">> \notin Range(toks)]
=============================================================================
