----------------------------- MODULE ConfigScan -----------------------------
(***************************************************************************)
(* parseSstConfig: the search of sst.config.ts for DevCommand declarations *)
(* without a parser of TypeScript.  A text is a sequence of the characters *)
(* the brace scanner tells apart and of whole phrases the regular          *)
(* expressions look for.  The scan is checked against a lexer that reads   *)
(* every text once, character by character, from its beginning.            *)
(***************************************************************************)
EXTENDS Integers, Sequences, FiniteSetsExt

CONSTANT Corpora   \* families of texts: [begin : text, pieces : set of texts, most : Nat]

\* "open" and "close" are the braces, "q" and "t" two of the three quotes, "e" a
\* backslash, "n" a line feed; the phrases are `new sst.x.DevCommand('N', ',
\* `dev: ', `command: 'c',' and `autostart: false,'.
Phrases == {"new", "dev", "command", "off"}
Quotes == {"q", "t"}
Symbols == {"open", "close", "e", "/", "*", "n"} \cup Quotes \cup Phrases

ASSUME CorporaAssumption ==
  \A corpus \in Corpora :
    corpus.begin \in Seq(Symbols) /\ corpus.pieces \subseteq Seq(Symbols) /\ corpus.most \in Nat

VARIABLES
  corpus,   \* the family of the text
  pieces,   \* how many pieces it has
  source    \* the text of sst.config.ts

configVars == <<corpus, pieces, source>>

ConfigInit == corpus \in Corpora /\ pieces = 0 /\ source = corpus.begin

Write(piece) ==
  /\ pieces < corpus.most
  /\ pieces' = pieces + 1
  /\ source' = source \o piece
  /\ UNCHANGED corpus

ConfigNext == \E piece \in corpus.pieces : Write(piece)

ConfigSpec == ConfigInit /\ [][ConfigNext]_configVars

-----------------------------------------------------------------------------
(* extractBalancedBraces.  Positions count from 1; 0 stands for null.      *)

Symbol(text, i) == IF i \in DOMAIN text THEN text[i] ELSE "end"
FirstOf(S, otherwise) == IF S = {} THEN otherwise ELSE Min(S)
Past(text) == Len(text) + 1

\* Each skip begins at the opening symbol and ends after the closing one (for
\* a line comment: at the line feed).
SkipLine(text, i) == FirstOf({j \in (i + 2)..Len(text) : text[j] = "n"}, Past(text))

\* Mutant: the search for the end begins inside the opening symbol.
SkipBlockOverlapping(text, i) ==
  FirstOf({j \in (i + 1)..Len(text) : text[j] = "*" /\ Symbol(text, j + 1) = "/"}, Past(text)) + 2

SkipBlock(text, i) ==
  FirstOf({j \in (i + 2)..Len(text) : text[j] = "*" /\ Symbol(text, j + 1) = "/"}, Past(text)) + 2

\* One turn of the loop in a string: it stops at the quote that opened it.
InString(text, quote, j) ==
  CASE Symbol(text, j) \in {quote, "end"} -> j
    [] Symbol(text, j) = "e" -> j + 2
    [] OTHER -> j + 1

SkipString(text, i) ==
  LET at[n \in 0..Len(text)] == IF n = 0 THEN i + 1 ELSE InString(text, text[i], at[n - 1])
      stop == at[Len(text)]
  IN IF Symbol(text, stop) = text[i] THEN stop + 1 ELSE stop

\* One turn of the while loop; end is the position of the brace it looks for.
Turn(text, w) ==
  LET symbol == Symbol(text, w.at)
      next == Symbol(text, w.at + 1)
  IN IF w.end # 0 \/ symbol = "end" THEN w ELSE
     CASE symbol = "/" /\ next = "/" -> [w EXCEPT !.at = SkipLine(text, w.at)]
       [] symbol = "/" /\ next = "*" -> [w EXCEPT !.at = SkipBlock(text, w.at)]
       [] symbol \in Quotes -> [w EXCEPT !.at = SkipString(text, w.at)]
       [] symbol = "open" -> [w EXCEPT !.at = @ + 1, !.depth = @ + 1]
       [] symbol = "close" -> [w EXCEPT !.at = @ + 1, !.depth = @ - 1,
                                    !.end = IF w.depth = 1 THEN w.at ELSE 0]
       [] OTHER -> [w EXCEPT !.at = @ + 1]

\* The position of the brace that closes the one at start.  (Every turn goes on
\* by a symbol at least.)
Balanced(text, start) ==
  LET walk[n \in 0..Len(text)] ==
        IF n = 0 THEN [at |-> start, depth |-> 0, end |-> 0] ELSE Turn(text, walk[n - 1])
  IN walk[Len(text)].end

-----------------------------------------------------------------------------
(* extractDevCommands and its field extractors.                            *)

\* The contents of the first `dev: {', wherever it stands; <<>> is null (an
\* empty block has no command either).
DevBlock(options) ==
  LET key == FirstOf({k \in DOMAIN options : options[k] = "dev" /\ Symbol(options, k + 1) = "open"}, 0)
      end == IF key = 0 THEN 0 ELSE Balanced(options, key + 1)
  IN IF end = 0 THEN <<>> ELSE SubSeq(options, key + 2, end - 1)

HasField(block, phrase) == \E k \in DOMAIN block : block[k] = phrase

\* Mutant: a block comment or a string with a brace in it ends the options.
OptionsCounting(text, i) ==
  LET depth(j) == Cardinality({k \in (i + 1)..j : text[k] = "open"})
                    - Cardinality({k \in (i + 1)..j : text[k] = "close"})
      end == FirstOf({j \in (i + 1)..Len(text) : depth(j) = 0}, 0)
  IN IF Symbol(text, i + 1) = "open" THEN SubSeq(text, i + 1, end) ELSE <<>>

\* The options of the declaration at i with their braces; <<>> if it has none
\* or they are unbalanced.
Options(text, i) ==
  LET end == Balanced(text, i + 1)
  IN IF Symbol(text, i + 1) = "open" THEN SubSeq(text, i + 1, end) ELSE <<>>

\* What is registered: every match of the regular expression with a command in
\* its dev block.  The search goes on right after the name, so a declaration
\* that is skipped, or that others stand in, hides none of them.
Specs(text) ==
  {[at |-> i, autostart |-> ~HasField(DevBlock(Options(text, i)), "off")] :
     i \in {j \in DOMAIN text :
              text[j] = "new" /\ HasField(DevBlock(Options(text, j)), "command")}}

-----------------------------------------------------------------------------
(* The reference: a lexer.                                                 *)

\* A slash may begin a comment; a star may end one.  The mode in a string is
\* its quote; after a backslash in it, one of its own.
Begin(symbol) ==
  CASE symbol \in Quotes -> symbol [] symbol = "/" -> "slash" [] OTHER -> "code"

Escape == [quote \in Quotes |-> IF quote = "q" THEN "escapeQ" ELSE "escapeT"]

NextMode(mode, symbol) ==
  CASE mode = "code" -> Begin(symbol)
    [] mode = "slash" ->
         IF symbol = "/" THEN "line" ELSE IF symbol = "*" THEN "block" ELSE Begin(symbol)
    [] mode = "line" -> IF symbol = "n" THEN "code" ELSE "line"
    [] mode = "block" -> IF symbol = "*" THEN "star" ELSE "block"
    [] mode = "star" ->
         IF symbol = "/" THEN "code" ELSE IF symbol = "*" THEN "star" ELSE "block"
    [] mode \in Quotes ->
         IF symbol = mode THEN "code" ELSE IF symbol = "e" THEN Escape[mode] ELSE mode
    [] mode = "escapeQ" -> "q"
    [] mode = "escapeT" -> "t"

\* The mode and the depth in braces in which a symbol stands.
IsCode(l) == l.mode \in {"code", "slash"}

Lex(l, symbol) ==
  [mode |-> NextMode(l.mode, symbol),
   depth |-> CASE IsCode(l) /\ symbol = "open" -> l.depth + 1
               [] IsCode(l) /\ symbol = "close" -> l.depth - 1
               [] OTHER -> l.depth]

\* What every symbol from start on is, in a text that is code there.
Lexer(text, start) ==
  LET l[k \in start..Past(text)] ==
        IF k = start THEN [mode |-> "code", depth |-> 0] ELSE Lex(l[k - 1], text[k - 1])
  IN l

\* The brace that closes the one at start.
Closing(text, start) ==
  LET l == Lexer(text, start)
  IN FirstOf({k \in start..Len(text) : text[k] = "close" /\ IsCode(l[k]) /\ l[k].depth = 1}, 0)

-----------------------------------------------------------------------------
\* Braces are balanced by the index-skipping scanner as by the lexer, whatever
\* strings, escapes and comments stand between them, and there is no block if
\* they are not ("tracking brace depth, skipping over string literals and
\* line/block comments", sst-config-parser.ts).  Of TypeScript neither knows the
\* expressions in a template or regular expressions: `${' is text to both, a
\* quote in /"/ opens a string.
BracesAreExact ==
  \A i \in DOMAIN source : source[i] = "open" => Balanced(source, i) = Closing(source, i)

\* The declaration at i has balanced options whose phrases are all code and in
\* their place: one dev block at most, and in it what belongs there.  (A phrase
\* in a comment or a string, or a second `dev', may be taken for the real one.)
WellFormed(i) ==
  LET l == Lexer(source, i + 1)
      end == Closing(source, i + 1)
      here == {k \in (i + 1)..end : source[k] \in Phrases}
  IN /\ Symbol(source, i + 1) = "open" /\ end # 0
     /\ \A k \in here :
          /\ IsCode(l[k])
          /\ \/ source[k] = "dev" /\ Symbol(source, k + 1) = "open" /\ l[k].depth = 1
             \/ source[k] \in {"command", "off"} /\ l[k].depth = 2
     /\ \A j, k \in here : source[j] = "dev" /\ source[k] = "dev" => j = k
     /\ \A k \in here : source[k] # "dev" =>
          \E j \in here : source[j] = "dev" /\ k \in j..Closing(source, j + 1)

\* Among well-formed declarations exactly those with a command are registered,
\* each with its own autostart, whatever strings and comments its options hold
\* and whatever malformed text stands before and after it.
DeclarationsAreExact ==
  \A i \in DOMAIN source :
    source[i] = "new" /\ WellFormed(i) =>
      LET has(phrase) == \E k \in (i + 1)..Closing(source, i + 1) : source[k] = phrase
      IN {s \in Specs(source) : s.at = i} =
           IF has("command") THEN {[at |-> i, autostart |-> ~has("off")]} ELSE {}
=============================================================================
