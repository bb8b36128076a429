------------------------- MODULE ConfigScanProofs -------------------------
(***************************************************************************)
(* The scanner of sst.config.ts skips by index; the lexer reads symbol by  *)
(* symbol.  For every text: what a skip jumps over holds no code, so the   *)
(* scanner is at code whenever it looks, at the depth the lexer gives, and *)
(* it has passed no closing brace.  Options cut out of a text are lexed as *)
(* they are in it.  Functions over positions are given by their steps, and *)
(* a least counterexample stands for an induction.                         *)
(***************************************************************************)
EXTENDS ConfigScan, SequenceTheorems, WellFoundedInduction, TLAPS

\* Every set of naturals has a least element.
LEMMA LeastNatural ==
  ASSUME NEW T, T \subseteq Nat, T # {}
  PROVE  \E n \in T : \A m \in T : n <= m
<1>1. PICK n \in T : \A m \in T : ~(<<m, n>> \in OpToRel(<, Nat))
  BY WFMin, NatLessThanWellFounded, Zenon
<1>2. \A m \in T : ~(m < n)
  BY <1>1, Zenon DEF OpToRel
<1>3. \A m \in T : n <= m
  BY <1>2, SMT
<1> QED  BY <1>3

-----------------------------------------------------------------------------
(* sst.config.ts: the scanner that skips against the lexer that does not.  *)

LEMMA FirstOfIsFirst ==
  ASSUME NEW S, S \subseteq Nat, NEW otherwise
  PROVE  /\ S = {} => FirstOf(S, otherwise) = otherwise
         /\ S # {} => FirstOf(S, otherwise) \in S /\ \A m \in S : FirstOf(S, otherwise) <= m
<1>1. ASSUME S # {}
      PROVE  FirstOf(S, otherwise) \in S /\ \A m \in S : FirstOf(S, otherwise) <= m
  <2>1. \E n \in S : \A m \in S : n <= m
    BY <1>1, LeastNatural
  <2>2. FirstOf(S, otherwise) = CHOOSE n \in S : \A m \in S : n <= m
    BY <1>1, Zenon DEF FirstOf, Min
  <2> QED  BY <2>1, <2>2, Zenon
<1> QED  BY <1>1, Zenon DEF FirstOf

\* There is a lexer: h lists what it makes of the symbols from start on.
LexerSteps(text, start, m, h) ==
  h = [k \in start..m |-> IF k = start THEN [mode |-> "code", depth |-> 0] ELSE Lex(h[k - 1], text[k - 1])]

LEMMA LexerStepsExist ==
  ASSUME NEW text, NEW start \in Nat, NEW m \in Nat, start <= m
  PROVE  \E h : LexerSteps(text, start, m, h)
<1> DEFINE Missing == {e \in Nat : start <= e /\ ~\E h : LexerSteps(text, start, e, h)}
<1>1. ASSUME NEW e \in Nat, start <= e, NEW h, LexerSteps(text, start, e, h)
      PROVE  \E g : LexerSteps(text, start, e + 1, g)
  <2> DEFINE g == [k \in start..(e + 1) |-> IF k <= e THEN h[k] ELSE Lex(h[e], text[e])]
             First == [mode |-> "code", depth |-> 0]
  <2>h. \A k \in start..e : h[k] = IF k = start THEN First ELSE Lex(h[k - 1], text[k - 1])
    BY <1>1, Zenon DEF LexerSteps
  <2> HIDE DEF First
  <2>1. \A k \in start..(e + 1) : g[k] = IF k = start THEN First ELSE Lex(g[k - 1], text[k - 1])
    <3> SUFFICES ASSUME NEW k \in start..(e + 1)
                 PROVE  g[k] = IF k = start THEN First ELSE Lex(g[k - 1], text[k - 1])
      OBVIOUS
    <3>1. CASE k = start
      <4>1. k \in start..e /\ k <= e
        BY <1>1, <3>1, SMT
      <4> QED  BY <2>h, <3>1, <4>1
    <3>2. CASE k \in (start + 1)..e
      <4>1. k \in start..e /\ k - 1 \in start..(e + 1) /\ k \in start..(e + 1) /\ k # start /\ k <= e /\ k - 1 <= e
        BY <3>2, SMT
      <4>2. g[k] = h[k] /\ g[k - 1] = h[k - 1]
        BY <4>1
      <4>3. h[k] = Lex(h[k - 1], text[k - 1])
        BY <2>h, <4>1
      <4> QED  BY <4>1, <4>2, <4>3
    <3>3. CASE k = e + 1
      <4>1. k # start /\ k - 1 = e /\ ~(k <= e) /\ e \in start..(e + 1) /\ e <= e
        BY <1>1, <3>3, SMT
      <4>2. g[k] = Lex(h[e], text[e]) /\ g[e] = h[e]
        BY <4>1
      <4> QED  BY <4>1, <4>2
    <3> QED  BY <3>1, <3>2, <3>3, SMT
  <2>2. LexerSteps(text, start, e + 1, g)
    BY <2>1, Zenon DEF LexerSteps, First
  <2> QED  BY <2>2
<1>2. \E h : LexerSteps(text, start, start, h)
  <2> DEFINE g == [k \in start..start |-> [mode |-> "code", depth |-> 0]]
  <2>1. \A k \in start..start : k = start
    BY SMT
  <2>2. LexerSteps(text, start, start, g)
    BY <2>1 DEF LexerSteps
  <2> QED  BY <2>2
<1>3. ASSUME Missing # {}
      PROVE  FALSE
  <2>1. PICK e \in Missing : \A k \in Missing : e <= k
    BY <1>3, LeastNatural
  <2>2. e # start /\ e \in Nat /\ start <= e
    BY <1>2, <2>1
  <2>3. e - 1 \in Nat /\ start <= e - 1 /\ ~(e <= e - 1) /\ (e - 1) + 1 = e
    BY <2>2, SMT
  <2>4. \E h : LexerSteps(text, start, e - 1, h)
    BY <2>1, <2>3
  <2>5. \E h : LexerSteps(text, start, e, h)
    BY <1>1, <2>3, <2>4
  <2> QED  BY <2>1, <2>5
<1> QED  BY <1>3

Modes == {"code", "slash", "line", "block", "star", "q", "t", "escapeQ", "escapeT"}
Lexemes == [mode : Modes, depth : Int]

\* l is what the lexer makes of the text from start on.
Reading(text, start, l) ==
  /\ text \in Seq(Symbols) /\ start \in 1..Len(text)
  /\ l[start].mode = "code" /\ l[start].depth = 0
  /\ \A k \in start..Past(text) : l[k] \in Lexemes
  /\ \A k \in start..Len(text) : l[k + 1] = Lex(l[k], text[k])

LEMMA LexIsLexeme ==
  ASSUME NEW l \in Lexemes, NEW symbol
  PROVE  Lex(l, symbol) \in Lexemes
<1>1. NextMode(l.mode, symbol) \in Modes
  BY DEF Lexemes, Modes, NextMode, Begin, Quotes, Escape
<1>2. l.depth \in Int /\ l.depth + 1 \in Int /\ l.depth - 1 \in Int
  BY DEF Lexemes
<1>3. PICK d : Lex(l, symbol) = [mode |-> NextMode(l.mode, symbol), depth |-> d] /\ d \in Int
  <2>1. CASE IsCode(l) /\ symbol = "open"
    BY <1>2, <2>1 DEF Lex
  <2>2. CASE IsCode(l) /\ symbol = "close"
    BY <1>2, <2>2 DEF Lex
  <2>3. CASE ~(IsCode(l) /\ symbol = "open") /\ ~(IsCode(l) /\ symbol = "close")
    BY <1>2, <2>3 DEF Lex
  <2> QED  BY <2>1, <2>2, <2>3
<1> QED  BY <1>1, <1>3 DEF Lexemes

LEMMA LexerReads ==
  ASSUME NEW text \in Seq(Symbols), NEW start \in 1..Len(text)
  PROVE  Reading(text, start, Lexer(text, start))
<1>1. Len(text) \in Nat /\ Past(text) = Len(text) + 1 /\ start \in Nat /\ start <= Past(text) /\ Past(text) \in Nat
  BY DEF Past
<1> DEFINE l == CHOOSE h : LexerSteps(text, start, Past(text), h)
<1>2. LexerSteps(text, start, Past(text), l)
  BY <1>1, LexerStepsExist
<1>3. Lexer(text, start) = l
  BY Zenon DEF Lexer, LexerSteps
<1> HIDE DEF l
<1>4. l[start] = [mode |-> "code", depth |-> 0]
  <2>1. start \in start..Past(text)
    BY <1>1, SMT
  <2> QED  BY <1>2, <2>1, Zenon DEF LexerSteps
<1>5. ASSUME NEW k \in start..Len(text)
      PROVE  l[k + 1] = Lex(l[k], text[k])
  <2>1. k + 1 \in start..Past(text) /\ k + 1 # start /\ (k + 1) - 1 = k
    BY <1>1, SMT
  <2>2. l[k + 1] = Lex(l[(k + 1) - 1], text[(k + 1) - 1])
    BY <1>2, <2>1, Zenon DEF LexerSteps
  <2> QED  BY <2>1, <2>2, Zenon
<1>6. \A k \in start..Past(text) : l[k] \in Lexemes
  <2> DEFINE Bad == {k \in start..Past(text) : l[k] \notin Lexemes}
  <2>1. ASSUME Bad # {}
        PROVE  FALSE
    <3>1. Bad \subseteq Nat
      BY <1>1, SMT
    <3>2. PICK k \in Bad : \A j \in Bad : k <= j
      BY <2>1, <3>1, LeastNatural
    <3>s. [mode |-> "code", depth |-> 0] \in Lexemes
      BY DEF Lexemes, Modes
    <3>3. k # start
      BY <1>4, <3>2, <3>s
    <3>4. k \in start..Past(text)
      BY <3>2
    <3>5. k - 1 \in start..Len(text) /\ k - 1 \in start..Past(text) /\ (k - 1) + 1 = k /\ ~(k <= k - 1)
      BY <1>1, <3>3, <3>4, SMT
    <3>6. l[k - 1] \in Lexemes
      BY <3>2, <3>5
    <3>7. l[k] = Lex(l[k - 1], text[k - 1])
      BY <1>5, <3>5, Zenon
    <3> QED  BY <3>2, <3>6, <3>7, LexIsLexeme
  <2> QED  BY <2>1
<1>7. l[start].mode = "code" /\ l[start].depth = 0
  BY <1>4
<1> QED  BY <1>3, <1>5, <1>6, <1>7, Zenon DEF Reading
CodeModes == {"code", "slash"}

\* In code a symbol begins what it begins; in a string it is its quote's, and
\* what a backslash hides returns to the string.
LEMMA FromCodeMode ==
  ASSUME NEW symbol
  PROVE  NextMode("code", symbol) = Begin(symbol) /\ "code" \in CodeModes
BY DEF NextMode, CodeModes, Quotes

LEMMA InQuotes ==
  ASSUME NEW quote \in Quotes
  PROVE  /\ quote \notin CodeModes /\ Escape[quote] \notin CodeModes
         /\ quote \notin {"open", "close", "e", "/", "*", "end"} /\ Begin(quote) = quote
         /\ \A symbol : NextMode(quote, symbol) =
              IF symbol = quote THEN "code" ELSE IF symbol = "e" THEN Escape[quote] ELSE quote
         /\ \A symbol : NextMode(Escape[quote], symbol) = quote
<1>1. CASE quote = "q"
  BY <1>1 DEF Quotes, Escape, NextMode, Begin, CodeModes
<1>2. CASE quote = "t"
  BY <1>2 DEF Quotes, Escape, NextMode, Begin, CodeModes
<1> QED  BY <1>1, <1>2 DEF Quotes

\* The same in two functions: m says in which mode each symbol stands, d how deep.
Reads(text, start, m, d) ==
  /\ text \in Seq(Symbols) /\ start \in 1..Len(text)
  /\ m[start] = "code" /\ d[start] = 0
  /\ \A k \in start..Past(text) : m[k] \in Modes /\ d[k] \in Int
  /\ \A k \in start..Len(text) : m[k + 1] = NextMode(m[k], text[k])
  /\ \A k \in start..Len(text) :
       d[k + 1] = IF m[k] \in CodeModes /\ text[k] = "open" THEN d[k] + 1 ELSE
                  IF m[k] \in CodeModes /\ text[k] = "close" THEN d[k] - 1 ELSE d[k]

LEMMA LexerModes ==
  ASSUME NEW text \in Seq(Symbols), NEW start \in 1..Len(text)
  PROVE  \E m, d :
           /\ Reads(text, start, m, d)
           /\ \A k \in start..Past(text) : m[k] = Lexer(text, start)[k].mode /\ d[k] = Lexer(text, start)[k].depth
<1> DEFINE l == Lexer(text, start)
           m == [k \in start..Past(text) |-> l[k].mode]
           d == [k \in start..Past(text) |-> l[k].depth]
<1>1. Reading(text, start, l)
  BY LexerReads, Zenon
<1> HIDE DEF l
<1>2. Len(text) \in Nat /\ start \in start..Past(text) /\ \A k \in start..Len(text) : k \in start..Past(text) /\ k + 1 \in start..Past(text)
  BY SMT DEF Past
<1>3. \A k \in start..Past(text) : m[k] = l[k].mode /\ d[k] = l[k].depth
  OBVIOUS
<1>4. m[start] = "code" /\ d[start] = 0
  BY <1>1, <1>2, <1>3, Zenon DEF Reading
<1>5. \A k \in start..Past(text) : m[k] \in Modes /\ d[k] \in Int
  <2> SUFFICES ASSUME NEW k \in start..Past(text)
               PROVE  m[k] \in Modes /\ d[k] \in Int
    OBVIOUS
  <2>1. l[k] \in Lexemes
    BY <1>1, Zenon DEF Reading
  <2>2. l[k].mode \in Modes /\ l[k].depth \in Int
    BY <2>1, Zenon DEF Lexemes
  <2> QED  BY <1>3, <2>2, Zenon
<1> HIDE DEF m, d
<1>6. ASSUME NEW k \in start..Len(text)
      PROVE  /\ m[k + 1] = NextMode(m[k], text[k])
             /\ d[k + 1] = IF m[k] \in CodeModes /\ text[k] = "open" THEN d[k] + 1 ELSE
                           IF m[k] \in CodeModes /\ text[k] = "close" THEN d[k] - 1 ELSE d[k]
  <2>1. k \in start..Past(text) /\ k + 1 \in start..Past(text)
    BY <1>2
  <2>2. m[k] = l[k].mode /\ d[k] = l[k].depth /\ m[k + 1] = l[k + 1].mode /\ d[k + 1] = l[k + 1].depth
    BY <1>3, <2>1, Zenon
  <2>3. l[k + 1] = Lex(l[k], text[k])
    BY <1>1, Zenon DEF Reading
  <2>4. Lex(l[k], text[k]).mode = NextMode(m[k], text[k])
    BY <2>2, Zenon DEF Lex
  <2>5. Lex(l[k], text[k]).depth = IF m[k] \in CodeModes /\ text[k] = "open" THEN d[k] + 1 ELSE
                                   IF m[k] \in CodeModes /\ text[k] = "close" THEN d[k] - 1 ELSE d[k]
    BY <2>2 DEF Lex, IsCode, CodeModes
  <2> QED  BY <2>2, <2>3, <2>4, <2>5, Zenon
<1>7. Reads(text, start, m, d)
  BY <1>4, <1>5, <1>6, Zenon DEF Reads
<1>8. \A k \in start..Past(text) : m[k] = Lexer(text, start)[k].mode /\ d[k] = Lexer(text, start)[k].depth
  BY <1>3, Zenon DEF l
<1> QED  BY <1>7, <1>8, Zenon

LEMMA SymbolAt ==
  ASSUME NEW text \in Seq(Symbols), NEW k \in Nat, k > 0
  PROVE  /\ Symbol(text, k) = IF k <= Len(text) THEN text[k] ELSE "end"
         /\ Symbol(text, k) = "end" <=> ~(k <= Len(text))
         /\ k <= Len(text) => text[k] \in Symbols
<1>1. DOMAIN text = 1..Len(text) /\ Len(text) \in Nat
  OBVIOUS
<1>2. k \in DOMAIN text <=> k <= Len(text)
  BY <1>1, SMT
<1>3. ASSUME k <= Len(text)
      PROVE  text[k] \in Symbols /\ text[k] # "end"
  <2>1. k \in 1..Len(text)
    BY <1>1, <1>3, SMT
  <2>2. text[k] \in Symbols
    BY <2>1, ElementOfSeq, Zenon
  <2> QED  BY <2>2 DEF Symbols, Phrases, Quotes
<1> QED  BY <1>2, <1>3, Zenon DEF Symbol

\* Position k is where the lexer has no string and no comment open, as far as
\* the symbol there can tell.
AtCode(text, m, k) ==
  /\ NextMode(m[k], text[k]) = Begin(text[k])
  /\ text[k] \in {"open", "close"} => m[k] \in CodeModes

Closes(text, m, d, k) == text[k] = "close" /\ m[k] \in CodeModes /\ d[k] = 1

\* From code at p the scanner goes on to q: no brace it looks for lies between,
\* and it is at code again (or at the end), depth levels deep.
Leads(text, m, d, p, q, depth) ==
  /\ q \in Nat /\ p < q
  /\ \A k \in p..(q - 1) : k <= Len(text) => ~Closes(text, m, d, k)
  /\ q <= Len(text) => AtCode(text, m, q) /\ d[q] = depth

LEMMA ReadsWhere ==
  ASSUME NEW text, NEW start, NEW m, NEW d, Reads(text, start, m, d)
  PROVE  /\ text \in Seq(Symbols) /\ Len(text) \in Nat /\ Past(text) = Len(text) + 1
         /\ start \in Nat /\ start > 0 /\ start <= Len(text)
<1>1. text \in Seq(Symbols) /\ start \in 1..Len(text)
  BY Zenon DEF Reads
<1> QED  BY <1>1 DEF Past

\* A stretch of symbols in modes that are not code keeps the depth and closes
\* nothing.
LEMMA Stretch ==
  ASSUME NEW text, NEW start, NEW m, NEW d, Reads(text, start, m, d),
         NEW p \in Nat, start <= p, NEW q \in Nat, p <= q, q <= Past(text),
         \A k \in p..(q - 1) : m[k] \notin CodeModes
  PROVE  d[q] = d[p] /\ \A k \in p..(q - 1) : ~Closes(text, m, d, k)
<1> DEFINE Bad == {k \in p..q : d[k] # d[p]}
<1>1. Len(text) \in Nat /\ Past(text) = Len(text) + 1 /\ start \in Nat
  BY ReadsWhere
<1>2. ASSUME Bad # {}
      PROVE  FALSE
  <2>1. Bad \subseteq Nat
    BY SMT
  <2>2. PICK k \in Bad : \A j \in Bad : k <= j
    BY <1>2, <2>1, LeastNatural
  <2>3. k # p /\ k \in p..q
    BY <2>2
  <2>4. k - 1 \in p..q /\ k - 1 \in p..(q - 1) /\ ~(k <= k - 1) /\ (k - 1) + 1 = k /\ k - 1 \in start..Len(text)
    BY <1>1, <2>3, SMT
  <2>5. d[k - 1] = d[p]
    BY <2>2, <2>4
  <2>6. m[k - 1] \notin CodeModes
    BY <2>4
  <2>7. d[(k - 1) + 1] = d[k - 1]
    BY <2>4, <2>6, Zenon DEF Reads
  <2> QED  BY <2>2, <2>4, <2>5, <2>7
<1>3. q \in p..q
  BY SMT
<1>4. d[q] = d[p]
  BY <1>2, <1>3
<1> QED  BY <1>4, Zenon DEF Closes

\* What one symbol makes of code.
LEMMA FromCode ==
  ASSUME NEW text, NEW start, NEW m, NEW d, Reads(text, start, m, d),
         NEW p \in start..Len(text), AtCode(text, m, p)
  PROVE  /\ m[p + 1] = Begin(text[p])
         /\ d[p + 1] = IF text[p] = "open" THEN d[p] + 1 ELSE IF text[p] = "close" THEN d[p] - 1 ELSE d[p]
<1>1. m[p + 1] = NextMode(m[p], text[p])
  BY Zenon DEF Reads
<1>2. d[p + 1] = IF m[p] \in CodeModes /\ text[p] = "open" THEN d[p] + 1 ELSE
                 IF m[p] \in CodeModes /\ text[p] = "close" THEN d[p] - 1 ELSE d[p]
  BY Zenon DEF Reads
<1>3. /\ NextMode(m[p], text[p]) = Begin(text[p])
      /\ text[p] \in {"open", "close"} => m[p] \in CodeModes
  BY Zenon DEF AtCode
<1> QED  BY <1>1, <1>2, <1>3

\* The two symbols that open a comment.
LEMMA CommentOpens ==
  ASSUME NEW text, NEW start, NEW m, NEW d, Reads(text, start, m, d),
         NEW p \in start..Len(text), AtCode(text, m, p), p + 1 <= Len(text),
         text[p] = "/", text[p + 1] \in {"/", "*"}
  PROVE  /\ m[p + 2] = IF text[p + 1] = "/" THEN "line" ELSE "block"
         /\ d[p + 2] = d[p]
         /\ ~Closes(text, m, d, p) /\ ~Closes(text, m, d, p + 1)
<1>1. Len(text) \in Nat /\ start \in Nat /\ p + 1 \in start..Len(text) /\ (p + 1) + 1 = p + 2
  BY ReadsWhere, SMT
<1>2. m[p + 1] = Begin("/") /\ d[p + 1] = d[p]
  BY FromCode
<1>3. m[p + 1] = "slash"
  BY <1>2 DEF Begin, Quotes
<1>4. m[p + 2] = NextMode("slash", text[p + 1]) /\ d[p + 2] = d[p + 1]
  <2>1. m[(p + 1) + 1] = NextMode(m[p + 1], text[p + 1])
    BY <1>1, Zenon DEF Reads
  <2>2. d[(p + 1) + 1] = IF m[p + 1] \in CodeModes /\ text[p + 1] = "open" THEN d[p + 1] + 1 ELSE
                         IF m[p + 1] \in CodeModes /\ text[p + 1] = "close" THEN d[p + 1] - 1 ELSE d[p + 1]
    BY <1>1, Zenon DEF Reads
  <2> QED  BY <1>1, <1>3, <2>1, <2>2
<1>5. NextMode("slash", text[p + 1]) = IF text[p + 1] = "/" THEN "line" ELSE "block"
  BY DEF NextMode, Quotes
<1>6. ~Closes(text, m, d, p) /\ ~Closes(text, m, d, p + 1)
  BY DEF Closes
<1> QED  BY <1>2, <1>4, <1>5, <1>6

LEMMA SkipLineLeads ==
  ASSUME NEW text, NEW start, NEW m, NEW d, Reads(text, start, m, d),
         NEW p \in start..Len(text), AtCode(text, m, p),
         p + 1 <= Len(text), text[p] = "/", text[p + 1] = "/"
  PROVE  Leads(text, m, d, p, SkipLine(text, p), d[p])
<1> DEFINE n == Len(text)
           Ends == {j \in (p + 2)..n : text[j] = "n"}
           q == SkipLine(text, p)
<1>1. n \in Nat /\ start \in Nat /\ start > 0 /\ p \in Nat /\ p > 0 /\ Past(text) = n + 1
  BY ReadsWhere, SMT
<1>2. /\ q \in (p + 2)..(n + 1)
      /\ \A j \in (p + 2)..(q - 1) : text[j] # "n"
      /\ q <= n => text[q] = "n"
  <2>1. Ends \subseteq Nat
    BY <1>1, SMT
  <2>2. CASE Ends = {}
    <3>1. q = n + 1
      BY <1>1, <2>1, <2>2, FirstOfIsFirst, Zenon DEF SkipLine
    <3>2. n + 1 \in (p + 2)..(n + 1) /\ (n + 1) - 1 = n /\ ~(n + 1 <= n)
      BY <1>1, SMT
    <3> QED  BY <2>2, <3>1, <3>2
  <2>3. CASE Ends # {}
    <3>1. q \in Ends /\ \A j \in Ends : q <= j
      BY <2>1, <2>3, FirstOfIsFirst, Zenon DEF SkipLine
    <3> HIDE DEF q
    <3>2. q \in (p + 2)..(n + 1)
      BY <1>1, <3>1, SMT
    <3>3. \A j \in (p + 2)..(q - 1) : j \in (p + 2)..n /\ ~(q <= j)
      BY <1>1, <3>1, SMT
    <3> QED  BY <3>1, <3>2, <3>3, Zenon
  <2> QED  BY <2>2, <2>3
<1> HIDE DEF q
<1>3. m[p + 2] = "line" /\ d[p + 2] = d[p] /\ ~Closes(text, m, d, p) /\ ~Closes(text, m, d, p + 1)
  BY CommentOpens
<1>4. \A k \in (p + 2)..q : m[k] = "line"
  <2> DEFINE Bad == {k \in (p + 2)..q : m[k] # "line"}
  <2>1. ASSUME Bad # {}
        PROVE  FALSE
    <3>1. Bad \subseteq Nat
      BY <1>1, SMT
    <3>2. PICK k \in Bad : \A j \in Bad : k <= j
      BY <2>1, <3>1, LeastNatural
    <3>3. k # p + 2 /\ k \in (p + 2)..q
      BY <1>3, <3>2
    <3>4. k - 1 \in (p + 2)..q /\ k - 1 \in (p + 2)..(q - 1) /\ ~(k <= k - 1) /\ (k - 1) + 1 = k
          /\ k - 1 \in start..n
      BY <1>1, <1>2, <3>3, SMT
    <3>5. m[k - 1] = "line" /\ text[k - 1] # "n"
      BY <1>2, <3>2, <3>4
    <3>6. m[(k - 1) + 1] = NextMode(m[k - 1], text[k - 1])
      BY <3>4, Zenon DEF Reads
    <3>7. m[k] = "line"
      BY <3>4, <3>5, <3>6 DEF NextMode, Quotes
    <3> QED  BY <3>2, <3>7
  <2> QED  BY <2>1
<1>5. d[q] = d[p + 2] /\ \A k \in (p + 2)..(q - 1) : ~Closes(text, m, d, k)
  <2>1. p + 2 \in Nat /\ start <= p + 2 /\ q \in Nat /\ p + 2 <= q /\ q <= Past(text)
    BY <1>1, <1>2, SMT
  <2>2. \A k \in (p + 2)..(q - 1) : k \in (p + 2)..q
    BY <1>1, <1>2, SMT
  <2>3. "line" \notin CodeModes
    BY DEF CodeModes
  <2>4. \A k \in (p + 2)..(q - 1) : m[k] \notin CodeModes
    BY <1>4, <2>2, <2>3
  <2> QED  BY <2>1, <2>4, Stretch
<1>6. \A k \in p..(q - 1) : k = p \/ k = p + 1 \/ k \in (p + 2)..(q - 1)
  BY <1>1, <1>2, SMT
<1>7. \A k \in p..(q - 1) : ~Closes(text, m, d, k)
  BY <1>3, <1>5, <1>6, Zenon
<1>8. ASSUME q <= n
      PROVE  AtCode(text, m, q) /\ d[q] = d[p]
  <2>1. q \in (p + 2)..q /\ text[q] = "n"
    BY <1>1, <1>2, <1>8, SMT
  <2>2. m[q] = "line"
    BY <1>4, <2>1
  <2>3. NextMode("line", "n") = Begin("n") /\ "n" \notin {"open", "close"}
    BY DEF NextMode, Quotes, Begin
  <2> QED  BY <1>3, <1>5, <2>1, <2>2, <2>3, Zenon DEF AtCode
<1>9. q \in Nat /\ p < q
  BY <1>1, <1>2, SMT
<1> QED  BY <1>7, <1>8, <1>9, Zenon DEF Leads, q

LEMMA SkipBlockLeads ==
  ASSUME NEW text, NEW start, NEW m, NEW d, Reads(text, start, m, d),
         NEW p \in start..Len(text), AtCode(text, m, p),
         p + 1 <= Len(text), text[p] = "/", text[p + 1] = "*"
  PROVE  Leads(text, m, d, p, SkipBlock(text, p), d[p])
<1> DEFINE n == Len(text)
           Ends == {j \in (p + 2)..n : text[j] = "*" /\ Symbol(text, j + 1) = "/"}
           e == FirstOf(Ends, Past(text))
           q == SkipBlock(text, p)
<1>1. n \in Nat /\ start \in Nat /\ start > 0 /\ p \in Nat /\ p > 0 /\ Past(text) = n + 1
  BY ReadsWhere, SMT
<1>s. \A j \in (p + 2)..n : Symbol(text, j + 1) = "/" <=> j + 1 <= n /\ text[j + 1] = "/"
  <2> SUFFICES ASSUME NEW j \in (p + 2)..n
               PROVE  Symbol(text, j + 1) = "/" <=> j + 1 <= n /\ text[j + 1] = "/"
    OBVIOUS
  <2>1. j + 1 \in Nat /\ j + 1 > 0 /\ text \in Seq(Symbols)
    BY <1>1, ReadsWhere, SMT
  <2>2. Symbol(text, j + 1) = IF j + 1 <= n THEN text[j + 1] ELSE "end"
    BY <2>1, SymbolAt, Zenon
  <2> QED  BY <2>2
<1>2. /\ e \in (p + 2)..(n + 1)
      /\ \A j \in (p + 2)..(e - 1) : ~(text[j] = "*" /\ j + 1 <= n /\ text[j + 1] = "/")
      /\ e <= n => text[e] = "*" /\ e + 1 <= n /\ text[e + 1] = "/"
  <2>1. Ends \subseteq Nat
    BY <1>1, SMT
  <2>2. CASE Ends = {}
    <3>1. e = n + 1
      BY <1>1, <2>1, <2>2, FirstOfIsFirst, Zenon
    <3>2. n + 1 \in (p + 2)..(n + 1) /\ (n + 1) - 1 = n /\ ~(n + 1 <= n)
      BY <1>1, SMT
    <3>3. \A j \in (p + 2)..n : ~(text[j] = "*" /\ j + 1 <= n /\ text[j + 1] = "/")
      BY <1>s, <2>2, Zenon
    <3> QED  BY <3>1, <3>2, <3>3
  <2>3. CASE Ends # {}
    <3>1. e \in Ends /\ \A j \in Ends : e <= j
      BY <2>1, <2>3, FirstOfIsFirst, Zenon
    <3> HIDE DEF e
    <3>2. e \in (p + 2)..n /\ e \in (p + 2)..(n + 1)
      BY <1>1, <3>1, SMT
    <3>3. \A j \in (p + 2)..(e - 1) : j \in (p + 2)..n /\ ~(e <= j)
      BY <1>1, <3>2, SMT
    <3>4. \A j \in (p + 2)..(e - 1) : ~(text[j] = "*" /\ j + 1 <= n /\ text[j + 1] = "/")
      BY <1>s, <3>1, <3>3, Zenon
    <3> QED  BY <1>s, <3>1, <3>2, <3>4, Zenon
  <2> QED  BY <2>2, <2>3, Zenon
<1>q. q = e + 2
  BY Zenon DEF SkipBlock
<1> HIDE DEF e, q, Ends
<1>3. m[p + 2] = "block" /\ d[p + 2] = d[p] /\ ~Closes(text, m, d, p) /\ ~Closes(text, m, d, p + 1)
  <2>1. m[p + 2] = IF text[p + 1] = "/" THEN "line" ELSE "block"
    BY CommentOpens
  <2> QED  BY <2>1, CommentOpens
<1> DEFINE Inside(k) == m[k] = "block" \/ (m[k] = "star" /\ k > p + 2 /\ text[k - 1] = "*")
<1>4. \A k \in (p + 2)..e : Inside(k)
  <2> DEFINE Bad == {k \in (p + 2)..e : ~Inside(k)}
  <2>1. ASSUME Bad # {}
        PROVE  FALSE
    <3>1. Bad \subseteq Nat
      BY <1>1, SMT
    <3>2. PICK k \in Bad : \A j \in Bad : k <= j
      BY <2>1, <3>1, LeastNatural
    <3>3. k # p + 2 /\ k \in (p + 2)..e
      BY <1>3, <3>2
    <3>4. /\ k - 1 \in (p + 2)..e /\ k - 1 \in (p + 2)..(e - 1) /\ ~(k <= k - 1) /\ (k - 1) + 1 = k
          /\ k - 1 \in start..n /\ k > p + 2
      BY <1>1, <1>2, <3>3, SMT
    <3>5. Inside(k - 1)
      BY <3>2, <3>4
    <3>6. m[k] = NextMode(m[k - 1], text[k - 1])
      <4>1. m[(k - 1) + 1] = NextMode(m[k - 1], text[k - 1])
        BY <3>4, Zenon DEF Reads
      <4> QED  BY <3>4, <4>1
    <3>7. CASE m[k - 1] = "block"
      <4>1. m[k] = IF text[k - 1] = "*" THEN "star" ELSE "block"
        BY <3>6, <3>7 DEF NextMode, Quotes
      <4> QED  BY <3>2, <3>4, <4>1
    <3>8. CASE m[k - 1] = "star"
      <4>1. k - 1 > p + 2 /\ text[(k - 1) - 1] = "*"
        BY <3>5, <3>8
      <4>2. (k - 1) - 1 \in (p + 2)..(e - 1) /\ ((k - 1) - 1) + 1 = k - 1 /\ k - 1 <= n
        BY <1>1, <1>2, <3>4, <4>1, SMT
      <4>3. text[k - 1] # "/"
        BY <1>2, <4>1, <4>2
      <4>4. m[k] = IF text[k - 1] = "*" THEN "star" ELSE "block"
        BY <3>6, <3>8, <4>3 DEF NextMode, Quotes
      <4> QED  BY <3>2, <3>4, <4>4
    <3> QED  BY <3>5, <3>7, <3>8
  <2> QED  BY <2>1
<1>5. ASSUME e <= n
      PROVE  m[e + 1] = "star" /\ m[e + 2] = "code"
  <2>1. e \in (p + 2)..e /\ e \in start..n /\ e + 1 \in start..n /\ (e + 1) + 1 = e + 2
    BY <1>1, <1>2, <1>5, SMT
  <2>2. Inside(e) /\ text[e] = "*" /\ text[e + 1] = "/"
    BY <1>2, <1>4, <1>5, <2>1
  <2>3. m[e + 1] = NextMode(m[e], "*")
    BY <2>1, <2>2, Zenon DEF Reads
  <2>4. m[e + 1] = "star"
    BY <2>2, <2>3 DEF NextMode, Quotes
  <2>5. m[(e + 1) + 1] = NextMode("star", "/")
    BY <2>1, <2>2, <2>4, Zenon DEF Reads
  <2>6. NextMode("star", "/") = "code"
    BY DEF NextMode, Quotes
  <2> QED  BY <2>1, <2>4, <2>5, <2>6
<1> DEFINE z == IF e <= n THEN e + 2 ELSE n + 1
<1>6. /\ p + 2 \in Nat /\ start <= p + 2 /\ z \in Nat /\ p + 2 <= z /\ z <= Past(text)
      /\ \A k \in (p + 2)..(z - 1) : k \in (p + 2)..e \/ (e <= n /\ k = e + 1)
  BY <1>1, <1>2, SMT
<1>7. \A k \in (p + 2)..(z - 1) : m[k] \notin CodeModes
  <2>1. "block" \notin CodeModes /\ "star" \notin CodeModes
    BY DEF CodeModes
  <2>2. \A k \in (p + 2)..(z - 1) : m[k] = "block" \/ m[k] = "star"
    BY <1>4, <1>5, <1>6
  <2> QED  BY <2>1, <2>2
<1> HIDE DEF z, Inside
<1>8. d[z] = d[p + 2] /\ \A k \in (p + 2)..(z - 1) : ~Closes(text, m, d, k)
  BY <1>6, <1>7, Stretch
<1>9. ASSUME NEW k \in p..(q - 1), k <= Len(text)
      PROVE  ~Closes(text, m, d, k)
  <2>1. k = p \/ k = p + 1 \/ k \in (p + 2)..(z - 1)
    BY <1>1, <1>2, <1>q, <1>9, SMT DEF z
  <2> QED  BY <1>3, <1>8, <2>1, Zenon
<1>10. ASSUME q <= Len(text)
       PROVE  AtCode(text, m, q) /\ d[q] = d[p]
  <2>1. e <= n /\ z = q
    BY <1>1, <1>2, <1>q, <1>10, SMT DEF z
  <2>2. m[q] = "code" /\ d[q] = d[p]
    BY <1>3, <1>5, <1>8, <1>q, <2>1
  <2>3. NextMode("code", text[q]) = Begin(text[q]) /\ "code" \in CodeModes
    BY FromCodeMode
  <2> QED  BY <2>2, <2>3, Zenon DEF AtCode
<1>11. q \in Nat /\ p < q
  BY <1>1, <1>2, <1>q, SMT
<1> QED  BY <1>9, <1>10, <1>11, Zenon DEF Leads, q

\* A function can be iterated as often as one likes.
Iterates(f, x, m, h) == h = [n \in 0..m |-> IF n = 0 THEN x ELSE f[h[n - 1]]]

LEMMA IteratesExist ==
  ASSUME NEW f, NEW x, NEW m \in Nat
  PROVE  \E h : Iterates(f, x, m, h)
<1> DEFINE Missing == {e \in Nat : ~\E h : Iterates(f, x, e, h)}
<1>1. ASSUME NEW e \in Nat, NEW h, Iterates(f, x, e, h)
      PROVE  \E g : Iterates(f, x, e + 1, g)
  <2> DEFINE g == [n \in 0..(e + 1) |-> IF n <= e THEN h[n] ELSE f[h[e]]]
  <2>h. \A n \in 0..e : h[n] = IF n = 0 THEN x ELSE f[h[n - 1]]
    BY <1>1, Zenon DEF Iterates
  <2>1. \A n \in 0..(e + 1) : g[n] = IF n = 0 THEN x ELSE f[g[n - 1]]
    <3> SUFFICES ASSUME NEW n \in 0..(e + 1)
                 PROVE  g[n] = IF n = 0 THEN x ELSE f[g[n - 1]]
      OBVIOUS
    <3>1. CASE n = 0
      <4>1. n \in 0..e /\ n <= e
        BY <3>1, SMT
      <4> QED  BY <2>h, <3>1, <4>1
    <3>2. CASE n \in 1..e
      <4>1. n \in 0..e /\ n - 1 \in 0..(e + 1) /\ n # 0 /\ n <= e /\ n - 1 <= e
        BY <3>2, SMT
      <4>2. g[n] = h[n] /\ g[n - 1] = h[n - 1]
        BY <4>1
      <4> QED  BY <2>h, <4>1, <4>2
    <3>3. CASE n = e + 1
      <4>1. n # 0 /\ n - 1 = e /\ ~(n <= e) /\ e \in 0..(e + 1) /\ e <= e
        BY <3>3, SMT
      <4>2. g[n] = f[h[e]] /\ g[e] = h[e]
        BY <4>1
      <4> QED  BY <4>1, <4>2
    <3> QED  BY <3>1, <3>2, <3>3, SMT
  <2>2. Iterates(f, x, e + 1, g)
    BY <2>1, Zenon DEF Iterates
  <2> QED  BY <2>2
<1>2. \E h : Iterates(f, x, 0, h)
  <2> DEFINE g == [n \in 0..0 |-> x]
  <2>1. \A n \in 0..0 : n = 0
    BY SMT
  <2>2. Iterates(f, x, 0, g)
    BY <2>1 DEF Iterates
  <2> QED  BY <2>2
<1>3. ASSUME Missing # {}
      PROVE  FALSE
  <2>1. PICK e \in Missing : \A k \in Missing : e <= k
    BY <1>3, LeastNatural
  <2>2. e # 0 /\ e \in Nat
    BY <1>2, <2>1
  <2>3. e - 1 \in Nat /\ ~(e <= e - 1) /\ (e - 1) + 1 = e
    BY <2>2, SMT
  <2>4. \E h : Iterates(f, x, e - 1, h)
    BY <2>1, <2>3
  <2>5. \E h : Iterates(f, x, e, h)
    BY <1>1, <2>3, <2>4
  <2> QED  BY <2>1, <2>5
<1> QED  BY <1>3

\* The turns of the loop in a string, and where it stops.
StringTurns(text, i, at) ==
  at = [n \in 0..Len(text) |-> IF n = 0 THEN i + 1 ELSE InString(text, text[i], at[n - 1])]

LEMMA InStringSteps ==
  ASSUME NEW text \in Seq(Symbols), NEW quote \in Quotes, NEW j \in Nat, j > 0
  PROVE  /\ InString(text, quote, j) \in Nat /\ InString(text, quote, j) > 0
         /\ j > Len(text) \/ text[j] = quote => InString(text, quote, j) = j
         /\ j <= Len(text) /\ text[j] = "e" => InString(text, quote, j) = j + 2
         /\ j <= Len(text) /\ text[j] # quote /\ text[j] # "e" => InString(text, quote, j) = j + 1
<1>1. Symbol(text, j) = IF j <= Len(text) THEN text[j] ELSE "end"
  BY SymbolAt, Zenon
<1>2. Len(text) \in Nat /\ (j <= Len(text) => text[j] # "end")
  <2>1. j <= Len(text) => text[j] \in Symbols
    BY SymbolAt, Zenon
  <2> QED  BY <2>1 DEF Symbols, Phrases, Quotes
<1>3. CASE j > Len(text)
  BY <1>1, <1>2, <1>3 DEF InString, Quotes
<1>4. CASE j <= Len(text) /\ text[j] = quote
  BY <1>1, <1>2, <1>4 DEF InString, Quotes
<1>5. CASE j <= Len(text) /\ text[j] = "e"
  BY <1>1, <1>2, <1>5 DEF InString, Quotes
<1>6. CASE j <= Len(text) /\ text[j] \notin {quote, "e"}
  BY <1>1, <1>2, <1>6 DEF InString, Quotes
<1> QED  BY <1>2, <1>3, <1>4, <1>5, <1>6

LEMMA StringTurnsExist ==
  ASSUME NEW text \in Seq(Symbols), NEW i \in Nat, text[i] \in Quotes
  PROVE  \E at : /\ StringTurns(text, i, at)
                 /\ \A n \in 0..Len(text) : at[n] \in Nat /\ at[n] > 0
<1> DEFINE f == [j \in Nat \ {0} |-> InString(text, text[i], j)]
<1>0. Len(text) \in Nat
  OBVIOUS
<1>1. PICK at : Iterates(f, i + 1, Len(text), at)
  BY <1>0, IteratesExist, Zenon
<1>2. \A n \in 0..Len(text) : at[n] = IF n = 0 THEN i + 1 ELSE f[at[n - 1]]
  BY <1>1, Zenon DEF Iterates
<1>f. \A j \in Nat \ {0} : f[j] = InString(text, text[i], j)
  OBVIOUS
<1> HIDE DEF f
<1> DEFINE Bad == {n \in 0..Len(text) : at[n] \notin Nat \ {0}}
<1>3. ASSUME Bad # {}
      PROVE  FALSE
  <2>1. Bad \subseteq Nat
    BY <1>0, SMT
  <2>2. PICK n \in Bad : \A k \in Bad : n <= k
    BY <1>3, <2>1, LeastNatural
  <2>3. n # 0 /\ n \in 0..Len(text)
    BY <1>2, <2>2
  <2>4. n - 1 \in 0..Len(text) /\ ~(n <= n - 1)
    BY <1>0, <2>3, SMT
  <2>5. at[n - 1] \in Nat \ {0}
    BY <2>2, <2>4
  <2>6. at[n] = InString(text, text[i], at[n - 1])
    BY <1>2, <1>f, <2>3, <2>5
  <2>7. PICK j : j = at[n - 1]
    OBVIOUS
  <2>8. InString(text, text[i], j) \in Nat \ {0}
    BY <2>5, <2>7, InStringSteps
  <2> QED  BY <2>2, <2>6, <2>7, <2>8
<1>4. \A n \in 0..Len(text) : at[n] = IF n = 0 THEN i + 1 ELSE InString(text, text[i], at[n - 1])
  <2> SUFFICES ASSUME NEW n \in 0..Len(text), n # 0
               PROVE  at[n] = InString(text, text[i], at[n - 1])
    BY <1>2
  <2>1. n - 1 \in 0..Len(text)
    BY <1>0, SMT
  <2> QED  BY <1>2, <1>3, <1>f, <2>1
<1>5. at = [n \in 0..Len(text) |-> at[n]]
  BY <1>1, Zenon DEF Iterates
<1>6. StringTurns(text, i, at)
  BY <1>4, <1>5, Zenon DEF StringTurns
<1> QED  BY <1>3, <1>6

\* The loop has come to j in the string that opens at p.
InsideString(text, m, quote, p, j) ==
  /\ j \in Nat /\ p < j
  /\ \A k \in (p + 1)..(j - 1) : k <= Len(text) => m[k] \notin CodeModes
  /\ j <= Len(text) + 1 => m[j] = quote

LEMMA StringTurn ==
  ASSUME NEW text, NEW start, NEW m, NEW d, Reads(text, start, m, d),
         NEW p \in start..Len(text), NEW quote \in Quotes, NEW j, InsideString(text, m, quote, p, j)
  PROVE  InsideString(text, m, quote, p, InString(text, quote, j))
<1> DEFINE n == Len(text)
           i == InString(text, quote, j)
<1>1. n \in Nat /\ start \in Nat /\ start > 0 /\ p \in Nat /\ p > 0 /\ text \in Seq(Symbols)
  BY ReadsWhere, SMT
<1>2. /\ j \in Nat /\ p < j /\ j > 0
      /\ \A k \in (p + 1)..(j - 1) : k <= n => m[k] \notin CodeModes
      /\ j <= n + 1 => m[j] = quote
  BY <1>1, SMT DEF InsideString
<1>3. /\ j > n \/ text[j] = quote => i = j
      /\ j <= n /\ text[j] = "e" => i = j + 2
      /\ j <= n /\ text[j] # quote /\ text[j] # "e" => i = j + 1
  BY <1>1, <1>2, InStringSteps
<1> HIDE DEF i
<1>4. CASE j > n \/ text[j] = quote
  <2>1. i = j
    BY <1>1, <1>2, <1>3, <1>4
  <2> QED  BY <2>1, Zenon DEF i
<1>5. ASSUME j <= n
      PROVE  m[j] = quote /\ m[j] \notin CodeModes /\ m[j + 1] = NextMode(quote, text[j])
  <2>1. j \in start..Len(text) /\ m[j] = quote
    BY <1>1, <1>2, <1>5, SMT
  <2>2. m[j + 1] = NextMode(m[j], text[j])
    BY <2>1, Zenon DEF Reads
  <2>3. quote \notin CodeModes
    BY InQuotes
  <2> QED  BY <2>1, <2>2, <2>3
<1>6. CASE j <= n /\ text[j] = "e"
  <2>1. i = j + 2
    <3>1. ~(j > n)
      BY <1>1, <1>2, <1>6, SMT
    <3> QED  BY <1>3, <1>6
  <2>2. m[j + 1] = Escape[quote]
    BY <1>5, <1>6, InQuotes
  <2>3. Escape[quote] \notin CodeModes
    BY InQuotes
  <2>4. \A k \in (p + 1)..(i - 1) : k \in (p + 1)..(j - 1) \/ k = j \/ k = j + 1
    BY <1>1, <1>2, <2>1, SMT
  <2>5. \A k \in (p + 1)..(i - 1) : k <= n => m[k] \notin CodeModes
    BY <1>2, <1>5, <1>6, <2>2, <2>3, <2>4
  <2>6. ASSUME i <= n + 1
        PROVE  m[i] = quote
    <3>1. j + 1 \in start..Len(text) /\ (j + 1) + 1 = i
      BY <1>1, <1>2, <2>1, <2>6, SMT
    <3>2. m[(j + 1) + 1] = NextMode(m[j + 1], text[j + 1])
      BY <3>1, Zenon DEF Reads
    <3>3. NextMode(Escape[quote], text[j + 1]) = quote
      BY InQuotes
    <3> QED  BY <2>2, <3>1, <3>2, <3>3
  <2>7. i \in Nat /\ p < i
    BY <1>1, <1>2, <2>1, SMT
  <2> QED  BY <2>5, <2>6, <2>7, Zenon DEF InsideString, i
<1>7. CASE j <= n /\ text[j] # quote /\ text[j] # "e"
  <2>1. i = j + 1
    <3>1. ~(j > n)
      BY <1>1, <1>2, <1>7, SMT
    <3> QED  BY <1>3, <1>7, <3>1
  <2>2. m[i] = quote
    BY <1>5, <1>7, <2>1, InQuotes
  <2>4. \A k \in (p + 1)..(i - 1) : k \in (p + 1)..(j - 1) \/ k = j
    BY <1>1, <1>2, <2>1, SMT
  <2>5. \A k \in (p + 1)..(i - 1) : k <= n => m[k] \notin CodeModes
    BY <1>2, <1>5, <1>7, <2>4
  <2>7. i \in Nat /\ p < i
    BY <1>1, <1>2, <2>1, SMT
  <2> QED  BY <2>2, <2>5, <2>7, Zenon DEF InsideString, i
<1> QED  BY <1>1, <1>2, <1>4, <1>6, <1>7

\* A turn goes on by a character at least, or is at the end of the string.
LEMMA StringTurnGoes ==
  ASSUME NEW text \in Seq(Symbols), NEW quote \in Quotes, NEW j \in Nat, j > 0,
         NEW p \in Nat, NEW k \in Nat,
         j >= p + 1 + (k - 1) \/ j > Len(text) \/ text[j] = quote
  PROVE  LET i == InString(text, quote, j)
         IN  i >= p + 1 + k \/ i > Len(text) \/ text[i] = quote
<1>1. Len(text) \in Nat
  OBVIOUS
<1>2. CASE j > Len(text) \/ text[j] = quote
  BY <1>2, InStringSteps
<1>3. CASE j <= Len(text) /\ text[j] # quote
  <2>1. InString(text, quote, j) = j + 1 \/ InString(text, quote, j) = j + 2
    BY <1>3, InStringSteps
  <2> QED  BY <1>1, <1>3, <2>1
<1> QED  BY <1>1, <1>2, <1>3

LEMMA SkipStringLeads ==
  ASSUME NEW text, NEW start, NEW m, NEW d, Reads(text, start, m, d),
         NEW p \in start..Len(text), AtCode(text, m, p),
         NEW quote \in Quotes, text[p] = quote
  PROVE  Leads(text, m, d, p, SkipString(text, p), d[p])
<1> DEFINE n == Len(text)
           at == CHOOSE h : StringTurns(text, p, h)
           stop == at[n]
           q == SkipString(text, p)
<1>1. n \in Nat /\ start \in Nat /\ start > 0 /\ p \in Nat /\ p > 0 /\ Past(text) = n + 1 /\ text \in Seq(Symbols)
  BY ReadsWhere, SMT
<1>2. StringTurns(text, p, at)
  BY <1>1, StringTurnsExist, Zenon
<1>3. q = IF Symbol(text, stop) = quote THEN stop + 1 ELSE stop
  BY DEF SkipString, StringTurns
<1> HIDE DEF at, q
<1>4. \A k \in 0..n : at[k] = IF k = 0 THEN p + 1 ELSE InString(text, quote, at[k - 1])
  BY <1>2, Zenon DEF StringTurns
<1>5. m[p + 1] = quote /\ d[p + 1] = d[p] /\ ~Closes(text, m, d, p)
  <2>1. m[p + 1] = Begin(text[p])
    BY FromCode
  <2>2. d[p + 1] = d[p]
    BY FromCode, InQuotes
  <2>3. ~Closes(text, m, d, p)
    BY InQuotes DEF Closes
  <2> QED  BY <2>1, <2>2, <2>3, InQuotes
<1>6. InsideString(text, m, quote, p, p + 1)
  BY <1>1, <1>5, SMT DEF InsideString
<1> DEFINE Goes(k) == InsideString(text, m, quote, p, at[k]) /\ (at[k] >= p + 1 + k \/ at[k] > n \/ text[at[k]] = quote)
<1>7. ASSUME NEW k \in 0..n, k # 0, Goes(k - 1)
      PROVE  Goes(k)
  <2>1. PICK j : j = at[k - 1]
    OBVIOUS
  <2>2. InsideString(text, m, quote, p, j)
    BY <1>7, <2>1, Zenon
  <2>3. at[k] = InString(text, quote, j)
    BY <1>4, <1>7, <2>1, Zenon
  <2>4. InsideString(text, m, quote, p, at[k])
    BY <2>2, <2>3, StringTurn, Zenon
  <2>5. j \in Nat /\ j > 0
    BY <1>1, <2>2, SMT DEF InsideString
  <2>7. j >= p + 1 + (k - 1) \/ j > n \/ text[j] = quote
    BY <1>7, <2>1, Zenon
  <2>8. at[k] >= p + 1 + k \/ at[k] > n \/ text[at[k]] = quote
    BY <1>1, <1>7, <2>3, <2>5, <2>7, StringTurnGoes
  <2> QED  BY <2>4, <2>8, Zenon
<1>8. Goes(0)
  BY <1>1, <1>4, <1>6
<1> HIDE DEF Goes
<1>9. \A k \in 0..n : Goes(k)
  <2> DEFINE Bad == {k \in 0..n : ~Goes(k)}
  <2>1. ASSUME Bad # {}
        PROVE  FALSE
    <3>1. Bad \subseteq Nat
      BY <1>1, SMT
    <3>2. PICK k \in Bad : \A j \in Bad : k <= j
      BY <2>1, <3>1, LeastNatural
    <3>3. k # 0 /\ k \in 0..n
      BY <1>8, <3>2, Zenon
    <3>4. k - 1 \in 0..n /\ ~(k <= k - 1)
      BY <1>1, <3>3, SMT
    <3>5. Goes(k - 1)
      BY <3>2, <3>4, Zenon
    <3> QED  BY <1>7, <3>2, <3>3, <3>5, Zenon
  <2> QED  BY <2>1
<1>10. /\ stop \in Nat /\ p < stop
       /\ \A k \in (p + 1)..(stop - 1) : k <= n => m[k] \notin CodeModes
       /\ stop <= n + 1 => m[stop] = quote
       /\ stop > n \/ text[stop] = quote
  <2>1. n \in 0..n
    BY <1>1, SMT
  <2>2. Goes(n)
    BY <1>9, <2>1, Zenon
  <2>3. InsideString(text, m, quote, p, stop)
    BY <2>2, Zenon DEF Goes
  <2>4. stop >= p + 1 + n \/ stop > n \/ text[stop] = quote
    BY <2>2, Zenon DEF Goes
  <2>5. stop \in Nat /\ p < stop
    BY <2>3, Zenon DEF InsideString
  <2>6. stop > n \/ text[stop] = quote
    BY <1>1, <2>4, <2>5, SMT
  <2> QED  BY <2>3, <2>6, Zenon DEF InsideString
<1> HIDE DEF stop
<1>11. q = IF stop <= n THEN stop + 1 ELSE stop
  <2>1. Symbol(text, stop) = IF stop <= n THEN text[stop] ELSE "end"
    <3>1. stop > 0
      BY <1>1, <1>10, SMT
    <3> QED  BY <1>1, <1>10, <3>1, SymbolAt, Zenon
  <2> QED  BY <1>1, <1>3, <1>10, <2>1, InQuotes
<1>12. ASSUME stop <= n
       PROVE  m[q] = "code" /\ m[stop] = quote
  <2>1. stop \in start..Len(text) /\ q = stop + 1 /\ text[stop] = quote /\ m[stop] = quote
    BY <1>1, <1>10, <1>11, <1>12, SMT
  <2>2. m[stop + 1] = NextMode(quote, quote)
    BY <2>1, Zenon DEF Reads
  <2> QED  BY <2>1, <2>2, InQuotes
<1> DEFINE z == IF stop <= n THEN q ELSE n + 1
<1>13. /\ p + 1 \in Nat /\ start <= p + 1 /\ z \in Nat /\ p + 1 <= z /\ z <= Past(text)
       /\ \A k \in (p + 1)..(z - 1) : (k \in (p + 1)..(stop - 1) /\ k <= n) \/ (stop <= n /\ k = stop)
  BY <1>1, <1>10, <1>11, SMT
<1>14. \A k \in (p + 1)..(z - 1) : m[k] \notin CodeModes
  <2>1. quote \notin CodeModes
    BY InQuotes
  <2> QED  BY <1>10, <1>12, <1>13, <2>1
<1> HIDE DEF z
<1>15. d[z] = d[p + 1] /\ \A k \in (p + 1)..(z - 1) : ~Closes(text, m, d, k)
  BY <1>13, <1>14, Stretch
<1>16. ASSUME NEW k \in p..(q - 1), k <= Len(text)
       PROVE  ~Closes(text, m, d, k)
  <2>1. k = p \/ k \in (p + 1)..(z - 1)
    BY <1>1, <1>10, <1>11, <1>16, SMT DEF z
  <2> QED  BY <1>5, <1>15, <2>1, Zenon
<1>17. ASSUME q <= Len(text)
       PROVE  AtCode(text, m, q) /\ d[q] = d[p]
  <2>1. stop <= n /\ z = q
    BY <1>1, <1>10, <1>11, <1>17, SMT DEF z
  <2>2. m[q] = "code" /\ d[q] = d[p]
    BY <1>5, <1>12, <1>15, <2>1
  <2>3. NextMode("code", text[q]) = Begin(text[q]) /\ "code" \in CodeModes
    BY FromCodeMode
  <2> QED  BY <2>2, <2>3, Zenon DEF AtCode
<1>18. q \in Nat /\ p < q
  BY <1>1, <1>10, <1>11, SMT
<1> QED  BY <1>16, <1>17, <1>18, Zenon DEF Leads, q

Walks == [at : Nat \ {0}, depth : Int, end : Nat]

\* What a turn of the scanner has seen: no brace that closes the one at start
\* before it is, and code where it is; or that very brace.
Seen(text, start, m, d, w) ==
  /\ w.end = 0 =>
       /\ start <= w.at
       /\ \A k \in start..(w.at - 1) : k <= Len(text) => ~Closes(text, m, d, k)
       /\ w.at <= Len(text) => AtCode(text, m, w.at) /\ d[w.at] = w.depth
  /\ w.end # 0 =>
       /\ w.end \in start..Len(text) /\ Closes(text, m, d, w.end)
       /\ \A k \in start..(w.end - 1) : ~Closes(text, m, d, k)

LEMMA Advances ==
  ASSUME NEW text, NEW start, NEW m, NEW d, Reads(text, start, m, d),
         NEW w \in Walks, Seen(text, start, m, d, w), w.end = 0, w.at <= Len(text),
         NEW q, NEW depth \in Int, Leads(text, m, d, w.at, q, depth),
         NEW v, v = [at |-> q, depth |-> depth, end |-> 0]
  PROVE  v \in Walks /\ v.end = 0 /\ v.at > w.at /\ Seen(text, start, m, d, v)
<1> DEFINE p == w.at
<1>1. p \in Nat /\ p > 0
  BY DEF Walks
<1>2. start \in Nat /\ Len(text) \in Nat
  BY ReadsWhere
<1>3. start <= p /\ \A k \in start..(p - 1) : k <= Len(text) => ~Closes(text, m, d, k)
  BY Zenon DEF Seen
<1> HIDE DEF p
<1>4. q \in Nat /\ p < q
  BY Zenon DEF Leads, p
<1>5. \A k \in p..(q - 1) : k <= Len(text) => ~Closes(text, m, d, k)
  BY Zenon DEF Leads, p
<1>6. q <= Len(text) => AtCode(text, m, q) /\ d[q] = depth
  BY Zenon DEF Leads
<1>7. \A k \in start..(q - 1) : k \in start..(p - 1) \/ k \in p..(q - 1)
  BY <1>1, <1>2, <1>4, SMT
<1>8. \A k \in start..(q - 1) : k <= Len(text) => ~Closes(text, m, d, k)
  BY <1>3, <1>5, <1>7, Zenon
<1>9. v.at = q /\ v.depth = depth /\ v.end = 0
  OBVIOUS
<1>10. start <= q /\ q > 0
  BY <1>1, <1>2, <1>3, <1>4, SMT
<1>11. Seen(text, start, m, d, v)
  BY <1>6, <1>8, <1>9, <1>10, Zenon DEF Seen
<1>12. v \in Walks
  BY <1>4, <1>10 DEF Walks
<1> QED  BY <1>4, <1>9, <1>11, <1>12 DEF p

\* A symbol that opens nothing is passed.
LEMMA PassLeads ==
  ASSUME NEW text, NEW start, NEW m, NEW d, Reads(text, start, m, d),
         NEW p \in start..Len(text), AtCode(text, m, p),
         text[p] \notin Quotes, ~Closes(text, m, d, p),
         text[p] = "/" => ~(p + 1 <= Len(text) /\ text[p + 1] \in {"/", "*"})
  PROVE  Leads(text, m, d, p, p + 1, d[p + 1])
<1>1. p \in Nat /\ start \in Nat /\ Len(text) \in Nat
  BY ReadsWhere, SMT
<1>2. \A k \in p..((p + 1) - 1) : k = p
  BY <1>1, SMT
<1>3. ASSUME p + 1 <= Len(text)
      PROVE  AtCode(text, m, p + 1)
  <2>1. m[p + 1] = Begin(text[p])
    BY FromCode
  <2>2. CASE text[p] = "/"
    <3>1. m[p + 1] = "slash" /\ text[p + 1] \notin {"/", "*"}
      BY <1>3, <2>1, <2>2 DEF Begin, Quotes
    <3>2. NextMode("slash", text[p + 1]) = Begin(text[p + 1])
      BY <3>1 DEF NextMode, Quotes
    <3> QED  BY <3>1, <3>2 DEF AtCode, CodeModes
  <2>3. CASE text[p] # "/"
    <3>1. m[p + 1] = "code"
      BY <2>1, <2>3 DEF Begin, Quotes
    <3>2. NextMode("code", text[p + 1]) = Begin(text[p + 1])
      BY DEF NextMode, Quotes
    <3> QED  BY <3>1, <3>2 DEF AtCode, CodeModes
  <2> QED  BY <2>2, <2>3
<1>4. p + 1 \in Nat /\ p < p + 1
  BY <1>1, SMT
<1> QED  BY <1>2, <1>3, <1>4, Zenon DEF Leads

LEMMA TurnSees ==
  ASSUME NEW text, NEW start, NEW m, NEW d, Reads(text, start, m, d),
         NEW w \in Walks, Seen(text, start, m, d, w)
  PROVE  /\ Turn(text, w) \in Walks /\ Seen(text, start, m, d, Turn(text, w))
         /\ w.end # 0 \/ w.at > Len(text) => Turn(text, w) = w
         /\ w.end = 0 /\ w.at <= Len(text) => Turn(text, w).end # 0 \/ Turn(text, w).at > w.at
<1> DEFINE n == Len(text)
           p == w.at
           v == Turn(text, w)
           next == Symbol(text, p + 1)
<1>1. n \in Nat /\ start \in Nat /\ start > 0 /\ text \in Seq(Symbols)
  BY ReadsWhere
<1>2. p \in Nat /\ p > 0 /\ w.depth \in Int /\ w.end \in Nat /\ w = [at |-> p, depth |-> w.depth, end |-> w.end]
  BY DEF Walks
<1>3. /\ Symbol(text, p) = IF p <= n THEN text[p] ELSE "end"
      /\ Symbol(text, p) = "end" <=> ~(p <= n)
      /\ p + 1 \in Nat /\ next = IF p + 1 <= n THEN text[p + 1] ELSE "end"
  <2>1. p + 1 \in Nat /\ p + 1 > 0
    BY <1>2, SMT
  <2> QED  BY <1>1, <1>2, <2>1, SymbolAt, Zenon
<1>4. CASE w.end # 0 \/ ~(p <= n)
  <2>1. v = w
    BY <1>3, <1>4, Zenon DEF Turn
  <2>2. ~(w.end = 0 /\ w.at <= Len(text))
    BY <1>4
  <2> QED  BY <2>1, <2>2, Zenon
<1>5. ASSUME w.end = 0, p <= n
      PROVE  /\ v \in Walks /\ Seen(text, start, m, d, v)
             /\ v.end # 0 \/ v.at > p
  <2>1. p \in start..n /\ AtCode(text, m, p) /\ d[p] = w.depth
    <3>1. start <= p /\ AtCode(text, m, p) /\ d[p] = w.depth
      BY <1>5, Zenon DEF Seen
    <3> QED  BY <1>1, <1>2, <1>5, <3>1, SMT
  <2> DEFINE symbol == text[p]
  <2>2. Symbol(text, p) = symbol /\ symbol # "end"
    BY <1>3, <1>5
  <2>3. v = CASE symbol = "/" /\ next = "/" -> [w EXCEPT !.at = SkipLine(text, p)]
              [] symbol = "/" /\ next = "*" -> [w EXCEPT !.at = SkipBlock(text, p)]
              [] symbol \in Quotes -> [w EXCEPT !.at = SkipString(text, p)]
              [] symbol = "open" -> [w EXCEPT !.at = @ + 1, !.depth = @ + 1]
              [] symbol = "close" -> [w EXCEPT !.at = @ + 1, !.depth = @ - 1,
                                               !.end = IF w.depth = 1 THEN p ELSE 0]
              [] OTHER -> [w EXCEPT !.at = @ + 1]
    BY <1>5, <2>2, Zenon DEF Turn
  <2>4. \A q : w.end = 0 => [w EXCEPT !.at = q] = [at |-> q, depth |-> w.depth, end |-> 0]
    BY <1>2
  <2> HIDE DEF v, symbol, next
  <2>5. CASE symbol = "/" /\ next = "/"
    <3>1. v = [at |-> SkipLine(text, p), depth |-> w.depth, end |-> 0]
      BY <1>5, <2>3, <2>4, <2>5 DEF Quotes
    <3>2. Leads(text, m, d, p, SkipLine(text, p), w.depth)
      <4>1. p + 1 <= Len(text) /\ text[p] = "/" /\ text[p + 1] = "/"
        BY <1>3, <2>5 DEF symbol
      <4> QED  BY <2>1, <4>1, SkipLineLeads, Zenon
    <3> QED  BY <1>2, <1>5, <3>1, <3>2, Advances, Zenon
  <2>6. CASE symbol = "/" /\ next = "*"
    <3>1. v = [at |-> SkipBlock(text, p), depth |-> w.depth, end |-> 0]
      BY <1>5, <2>3, <2>4, <2>6 DEF Quotes
    <3>2. Leads(text, m, d, p, SkipBlock(text, p), w.depth)
      <4>1. p + 1 <= Len(text) /\ text[p] = "/" /\ text[p + 1] = "*"
        BY <1>3, <2>6 DEF symbol
      <4> QED  BY <2>1, <4>1, SkipBlockLeads, Zenon
    <3> QED  BY <1>2, <1>5, <3>1, <3>2, Advances, Zenon
  <2>7. CASE symbol \in Quotes
    <3>1. v = [at |-> SkipString(text, p), depth |-> w.depth, end |-> 0]
      BY <1>5, <2>3, <2>4, <2>7 DEF Quotes
    <3>2. Leads(text, m, d, p, SkipString(text, p), w.depth)
      BY <2>1, <2>7, SkipStringLeads, Zenon DEF symbol
    <3> QED  BY <1>2, <1>5, <3>1, <3>2, Advances, Zenon
  <2>8. CASE symbol = "close" /\ w.depth = 1
    <3>1. v.end = p /\ v = [at |-> p + 1, depth |-> 0, end |-> p]
      <4>1. v = [w EXCEPT !.at = @ + 1, !.depth = @ - 1, !.end = IF w.depth = 1 THEN p ELSE 0]
        BY <2>3, <2>8
      <4>2. v = [at |-> p + 1, depth |-> w.depth - 1, end |-> p]
        BY <1>2, <2>8, <4>1
      <4> QED  BY <2>8, <4>2
    <3>2. Closes(text, m, d, p)
      <4>1. m[p] \in CodeModes
        BY <2>1, <2>8, Zenon DEF AtCode, symbol
      <4> QED  BY <2>1, <2>8, <4>1, Zenon DEF Closes, symbol
    <3>3. \A k \in start..(p - 1) : k <= n
      BY <1>1, <1>2, <1>5, SMT
    <3>4. \A k \in start..(p - 1) : ~Closes(text, m, d, k)
      BY <1>5, <3>3, Zenon DEF Seen
    <3>5. p # 0
      BY <1>2
    <3>6. Seen(text, start, m, d, v)
      BY <2>1, <3>1, <3>2, <3>4, <3>5, Zenon DEF Seen
    <3>7. v \in Walks
      BY <1>2, <3>1 DEF Walks
    <3> QED  BY <3>1, <3>5, <3>6, <3>7, Zenon
  <2>9. CASE /\ symbol \notin Quotes /\ ~(symbol = "/" /\ next \in {"/", "*"})
             /\ ~(symbol = "close" /\ w.depth = 1)
    <3>1. v = [at |-> p + 1, depth |-> d[p + 1], end |-> 0]
      <4>1. d[p + 1] = IF symbol = "open" THEN w.depth + 1 ELSE IF symbol = "close" THEN w.depth - 1 ELSE w.depth
        <5>1. d[p + 1] = IF text[p] = "open" THEN d[p] + 1 ELSE IF text[p] = "close" THEN d[p] - 1 ELSE d[p]
          BY <2>1, FromCode
        <5> QED  BY <2>1, <5>1 DEF symbol
      <4> QED  BY <1>2, <1>5, <2>3, <2>9, <4>1
    <3>2. Leads(text, m, d, p, p + 1, d[p + 1])
      <4>1. ~Closes(text, m, d, p)
        BY <2>1, <2>9, Zenon DEF Closes, symbol
      <4>2. text[p] \notin Quotes /\ (text[p] = "/" => ~(p + 1 <= Len(text) /\ text[p + 1] \in {"/", "*"}))
        BY <1>3, <2>9 DEF symbol
      <4> QED  BY <2>1, <4>1, <4>2, PassLeads, Zenon
    <3>3. d[p + 1] \in Int
      <4>1. p + 1 \in start..Past(text)
        BY <1>1, <2>1, SMT DEF Past
      <4> QED  BY <4>1, Zenon DEF Reads
    <3> QED  BY <1>2, <1>5, <3>1, <3>2, <3>3, Advances, Zenon
  <2> QED  BY <2>5, <2>6, <2>7, <2>8, <2>9
<1>6. w.at > Len(text) <=> ~(p <= n)
  BY <1>1, <1>2, SMT
<1>7. CASE w.end = 0 /\ p <= n
  BY <1>5, <1>6, <1>7, Zenon
<1> QED  BY <1>4, <1>6, <1>7, Zenon

\* The turns of the scanner from start on.
ScannerTurns(text, start, walk) ==
  walk = [n \in 0..Len(text) |->
            IF n = 0 THEN [at |-> start, depth |-> 0, end |-> 0] ELSE Turn(text, walk[n - 1])]

LEMMA WalkExists ==
  ASSUME NEW text \in Seq(Symbols), NEW start \in 1..Len(text), NEW m, NEW d, Reads(text, start, m, d)
  PROVE  \E walk :
           /\ ScannerTurns(text, start, walk)
           /\ \A n \in 0..Len(text) :
                /\ walk[n] \in Walks /\ Seen(text, start, m, d, walk[n])
                /\ walk[n].end # 0 \/ walk[n].at > Len(text) \/ walk[n].at >= start + n
<1> DEFINE first == [at |-> start, depth |-> 0, end |-> 0]
           f == [w \in Walks |-> Turn(text, w)]
           Good(w) == w \in Walks /\ Seen(text, start, m, d, w)
           Gone(w, n) == w.end # 0 \/ w.at > Len(text) \/ w.at >= start + n
<1>0. Len(text) \in Nat /\ start \in Nat /\ start > 0 /\ start <= Len(text)
  BY SMT
<1>1. PICK walk : Iterates(f, first, Len(text), walk)
  BY <1>0, IteratesExist, Zenon
<1>2. \A n \in 0..Len(text) : walk[n] = IF n = 0 THEN first ELSE f[walk[n - 1]]
  BY <1>1, Zenon DEF Iterates
<1>f. \A w \in Walks : f[w] = Turn(text, w)
  OBVIOUS
<1>3. Good(first) /\ Gone(first, 0)
  <2>1. first \in Walks /\ first.end = 0 /\ first.at = start /\ first.depth = 0
    BY <1>0 DEF Walks
  <2>2. AtCode(text, m, start) /\ d[start] = 0
    <3>1. m[start] = "code" /\ d[start] = 0
      BY Zenon DEF Reads
    <3>2. NextMode("code", text[start]) = Begin(text[start]) /\ "code" \in CodeModes
      BY FromCodeMode
    <3> QED  BY <3>1, <3>2, Zenon DEF AtCode
  <2>3. start <= start /\ \A k \in start..(start - 1) : FALSE
    BY <1>0, SMT
  <2>4. Seen(text, start, m, d, first)
    BY <2>1, <2>2, <2>3, Zenon DEF Seen
  <2> QED  BY <1>0, <2>1, <2>4, SMT
<1> HIDE DEF f, first
<1>4. ASSUME NEW w, NEW n \in Nat, Good(w), Gone(w, n)
      PROVE  Good(Turn(text, w)) /\ Gone(Turn(text, w), n + 1)
  <2>1. /\ Turn(text, w) \in Walks /\ Seen(text, start, m, d, Turn(text, w))
        /\ w.end # 0 \/ w.at > Len(text) => Turn(text, w) = w
        /\ w.end = 0 /\ w.at <= Len(text) => Turn(text, w).end # 0 \/ Turn(text, w).at > w.at
    BY <1>4, TurnSees, Zenon
  <2>2. PICK v : v = Turn(text, w)
    OBVIOUS
  <2>3. v \in Walks /\ w \in Walks
    BY <1>4, <2>1, <2>2
  <2>4. v.at \in Nat /\ w.at \in Nat
    BY <2>3 DEF Walks
  <2>5. Gone(v, n + 1)
    <3>1. CASE w.end # 0 \/ w.at > Len(text)
      BY <2>1, <2>2, <3>1
    <3>2. CASE w.end = 0 /\ w.at <= Len(text)
      <4>1. w.at >= start + n
        BY <1>0, <1>4, <2>4, <3>2, SMT
      <4>2. v.end # 0 \/ v.at > w.at
        BY <2>1, <2>2, <3>2, Zenon
      <4> QED  BY <1>0, <2>4, <4>1, <4>2, SMT
    <3> QED  BY <1>0, <2>4, <3>1, <3>2, SMT
  <2> QED  BY <2>1, <2>2, <2>5, Zenon
<1> HIDE DEF Good, Gone
<1> DEFINE Bad == {n \in 0..Len(text) : ~(Good(walk[n]) /\ Gone(walk[n], n))}
<1>5. ASSUME Bad # {}
      PROVE  FALSE
  <2>1. Bad \subseteq Nat
    BY <1>0, SMT
  <2>2. PICK n \in Bad : \A k \in Bad : n <= k
    BY <1>5, <2>1, LeastNatural
  <2>3. n # 0 /\ n \in 0..Len(text)
    BY <1>2, <1>3, <2>2, Zenon
  <2>4. n - 1 \in 0..Len(text) /\ n - 1 \in Nat /\ ~(n <= n - 1) /\ (n - 1) + 1 = n
    BY <1>0, <2>3, SMT
  <2>5. Good(walk[n - 1]) /\ Gone(walk[n - 1], n - 1)
    BY <2>2, <2>4, Zenon
  <2>6. walk[n - 1] \in Walks
    BY <2>5, Zenon DEF Good
  <2>7. walk[n] = Turn(text, walk[n - 1])
    BY <1>2, <1>f, <2>3, <2>6, Zenon
  <2>8. Good(Turn(text, walk[n - 1])) /\ Gone(Turn(text, walk[n - 1]), (n - 1) + 1)
    BY <1>4, <2>4, <2>5, Zenon
  <2> QED  BY <2>2, <2>4, <2>7, <2>8, Zenon
<1>6. \A n \in 0..Len(text) : walk[n] = IF n = 0 THEN first ELSE Turn(text, walk[n - 1])
  <2> SUFFICES ASSUME NEW n \in 0..Len(text), n # 0
               PROVE  walk[n] = Turn(text, walk[n - 1])
    BY <1>2
  <2>1. n - 1 \in 0..Len(text)
    BY <1>0, SMT
  <2>2. Good(walk[n - 1])
    BY <1>5, <2>1, Zenon
  <2>3. walk[n - 1] \in Walks
    BY <2>2, Zenon DEF Good
  <2> QED  BY <1>2, <1>f, <2>3, Zenon
<1>7. walk = [n \in 0..Len(text) |-> walk[n]]
  BY <1>1, Zenon DEF Iterates
<1>8. ScannerTurns(text, start, walk)
  BY <1>6, <1>7, Zenon DEF ScannerTurns, first
<1>9. \A n \in 0..Len(text) : Good(walk[n]) /\ Gone(walk[n], n)
  BY <1>5, Zenon
<1> QED  BY <1>8, <1>9, Zenon DEF first, Good, Gone

\* There is only one such walk.
LEMMA OneWalk ==
  ASSUME NEW text \in Seq(Symbols), NEW start, NEW g, NEW h,
         ScannerTurns(text, start, g), ScannerTurns(text, start, h)
  PROVE  \A k \in 0..Len(text) : g[k] = h[k]
<1> DEFINE n == Len(text)
           first == [at |-> start, depth |-> 0, end |-> 0]
<1>0. n \in Nat
  OBVIOUS
<1>1. \A k \in 0..n : g[k] = IF k = 0 THEN first ELSE Turn(text, g[k - 1])
  BY Zenon DEF ScannerTurns
<1>3. \A k \in 0..n : h[k] = IF k = 0 THEN first ELSE Turn(text, h[k - 1])
  BY Zenon DEF ScannerTurns
<1> HIDE DEF first, n
<1> DEFINE Bad == {k \in 0..n : g[k] # h[k]}
<1>2. ASSUME Bad # {}
      PROVE  FALSE
  <2>1. Bad \subseteq Nat
    BY <1>0, SMT
  <2>2. PICK k \in Bad : \A j \in Bad : k <= j
    BY <1>2, <2>1, LeastNatural
  <2>3. k # 0 /\ k \in 0..n
    BY <1>1, <1>3, <2>2, Zenon
  <2>4. k - 1 \in 0..n /\ ~(k <= k - 1)
    BY <1>0, <2>3, SMT
  <2>5. g[k - 1] = h[k - 1]
    BY <2>2, <2>4
  <2> QED  BY <1>1, <1>3, <2>2, <2>3, <2>5, Zenon
<1> QED  BY <1>2, Zenon DEF n

\* The brace the lexer says closes the one at start, in terms of m and d.
LEMMA ClosingCloses ==
  ASSUME NEW text \in Seq(Symbols), NEW start \in 1..Len(text), NEW m, NEW d,
         \A k \in start..Past(text) : m[k] = Lexer(text, start)[k].mode /\ d[k] = Lexer(text, start)[k].depth
  PROVE  Closing(text, start) = FirstOf({k \in start..Len(text) : Closes(text, m, d, k)}, 0)
<1> DEFINE n == Len(text)
           S == {k \in start..n : Closes(text, m, d, k)}
           l == Lexer(text, start)
<1>0. n \in Nat /\ start \in Nat
  BY SMT
<1>1. \A k \in start..n : Closes(text, m, d, k) <=> text[k] = "close" /\ IsCode(l[k]) /\ l[k].depth = 1
  <2> SUFFICES ASSUME NEW k \in start..n
               PROVE  Closes(text, m, d, k) <=> text[k] = "close" /\ IsCode(l[k]) /\ l[k].depth = 1
    OBVIOUS
  <2>1. k \in start..Past(text)
    BY <1>0, SMT DEF Past
  <2>2. m[k] = l[k].mode /\ d[k] = l[k].depth
    BY <2>1, Zenon
  <2> QED  BY <2>2, Zenon DEF Closes, IsCode, CodeModes
<1>2. S = {k \in start..n : text[k] = "close" /\ IsCode(l[k]) /\ l[k].depth = 1}
  BY <1>1, Zenon
<1> QED  BY <1>2, Zenon DEF Closing

\* The scanner finds the brace that the lexer says closes the one it begins at.
LEMMA BalancedIsClosing ==
  ASSUME NEW text \in Seq(Symbols), NEW start \in 1..Len(text)
  PROVE  Balanced(text, start) = Closing(text, start)
<1>1. PICK m, d :
        /\ Reads(text, start, m, d)
        /\ \A k \in start..Past(text) : m[k] = Lexer(text, start)[k].mode /\ d[k] = Lexer(text, start)[k].depth
  BY LexerModes, Zenon
<1> DEFINE n == Len(text)
           walk == CHOOSE h : ScannerTurns(text, start, h)
           S == {k \in start..n : Closes(text, m, d, k)}
           l == Lexer(text, start)
<1>2. n \in Nat /\ start \in Nat /\ start > 0 /\ start <= n /\ n \in 0..n
  BY SMT
<1>3. Balanced(text, start) = walk[n].end
  BY Zenon DEF Balanced, ScannerTurns
<1>4. Closing(text, start) = FirstOf(S, 0)
  BY <1>1, ClosingCloses, Zenon
<1>5. PICK h : /\ ScannerTurns(text, start, h)
               /\ \A k \in 0..n :
                    /\ h[k] \in Walks /\ Seen(text, start, m, d, h[k])
                    /\ h[k].end # 0 \/ h[k].at > n \/ h[k].at >= start + k
  BY <1>1, WalkExists, Zenon
<1>6. ScannerTurns(text, start, walk)
  BY <1>5, Zenon
<1> HIDE DEF walk
<1>15. \A k \in 0..n : walk[k] = h[k]
  <2>1. ScannerTurns(text, start, walk) /\ ScannerTurns(text, start, h)
    BY <1>5, <1>6, Zenon
  <2> QED  BY <2>1, OneWalk
<1>7. walk[n] = h[n]
  BY <1>2, <1>15, Zenon
<1>8. PICK w : w = h[n]
  OBVIOUS
<1>9. w \in Walks /\ Seen(text, start, m, d, w) /\ (w.end # 0 \/ w.at > n \/ w.at >= start + n)
  BY <1>2, <1>5, <1>8, Zenon
<1>10. Balanced(text, start) = w.end
  BY <1>3, <1>7, <1>8, Zenon
<1>11. w.at \in Nat /\ w.end \in Nat
  BY <1>9 DEF Walks
<1>12. S \subseteq Nat
  BY <1>2, SMT
<1>13. CASE w.end = 0
  <2>1. w.at > n
    BY <1>2, <1>9, <1>11, <1>13, SMT
  <2>2. \A k \in start..n : k \in start..(w.at - 1) /\ k <= Len(text)
    BY <1>2, <1>11, <2>1, SMT
  <2>3. \A k \in start..(w.at - 1) : k <= Len(text) => ~Closes(text, m, d, k)
    BY <1>9, <1>13, Zenon DEF Seen
  <2>4. S = {}
    BY <2>2, <2>3, Zenon
  <2>5. FirstOf(S, 0) = 0
    BY <1>12, <2>4, FirstOfIsFirst, Zenon
  <2> QED  BY <1>4, <1>10, <1>13, <2>5
<1>14. CASE w.end # 0
  <2>1. /\ w.end \in start..n /\ Closes(text, m, d, w.end)
        /\ \A k \in start..(w.end - 1) : ~Closes(text, m, d, k)
    BY <1>9, <1>14, Zenon DEF Seen
  <2>2. w.end \in S
    BY <2>1, Zenon
  <2> HIDE DEF S
  <2>3. FirstOf(S, 0) \in S /\ FirstOf(S, 0) <= w.end
    BY <1>12, <2>2, FirstOfIsFirst, Zenon
  <2>4. FirstOf(S, 0) \in start..n /\ Closes(text, m, d, FirstOf(S, 0))
    BY <2>3, Zenon DEF S
  <2>5. FirstOf(S, 0) \notin start..(w.end - 1)
    BY <2>1, <2>4, Zenon
  <2>6. FirstOf(S, 0) = w.end
    BY <1>2, <1>11, <2>3, <2>4, <2>5, SMT
  <2> QED  BY <1>4, <1>10, <2>6
<1> QED  BY <1>13, <1>14

-----------------------------------------------------------------------------
(* The declarations.                                                       *)

\* From a on part is what text is c symbols later, where it is code e braces deep.
Embedded(text, start, m, d, part, a, c, e) ==
  /\ c \in Nat /\ e \in Int /\ start <= a + c /\ Len(part) + c <= Len(text)
  /\ \A k \in a..Len(part) : part[k] = text[k + c]
  /\ m[a + c] = "code" /\ d[a + c] = e

\* It is lexed the same then, but for the braces around it.
LEMMA SameLexing ==
  ASSUME NEW text, NEW start, NEW m, NEW d, Reads(text, start, m, d),
         NEW part, NEW a, NEW n, NEW g, Reads(part, a, n, g),
         NEW c, NEW e, Embedded(text, start, m, d, part, a, c, e)
  PROVE  \A k \in a..Past(part) : n[k] = m[k + c] /\ g[k] + e = d[k + c]
<1> DEFINE Same(k) == n[k] = m[k + c] /\ g[k] + e = d[k + c]
           Bad == {k \in a..Past(part) : ~Same(k)}
<1>1. /\ Len(part) \in Nat /\ Past(part) = Len(part) + 1 /\ a \in Nat /\ a > 0 /\ a <= Len(part)
      /\ Len(text) \in Nat /\ start \in Nat /\ Past(text) = Len(text) + 1
  BY ReadsWhere
<1>e. /\ c \in Nat /\ e \in Int /\ start <= a + c /\ Len(part) + c <= Len(text)
      /\ m[a + c] = "code" /\ d[a + c] = e
  BY Zenon DEF Embedded
<1>s. \A k \in a..Len(part) : part[k] = text[k + c]
  BY Zenon DEF Embedded
<1>2. Same(a)
  <2>1. n[a] = "code" /\ g[a] = 0
    BY Zenon DEF Reads
  <2> QED  BY <1>e, <2>1
<1>3. ASSUME NEW k \in (a + 1)..Past(part), Same(k - 1)
      PROVE  Same(k)
  <2> DEFINE j == k - 1
  <2>1. j \in a..Len(part) /\ j \in a..Past(part) /\ j + c \in start..Len(text) /\ j + c \in start..Past(text)
        /\ j + 1 = k /\ (j + c) + 1 = k + c
    BY <1>1, <1>e, SMT
  <2>2. part[j] = text[j + c]
    BY <1>s, <2>1, Zenon
  <2> HIDE DEF j
  <2>3. n[j + 1] = NextMode(n[j], part[j])
    BY <2>1, Zenon DEF Reads
  <2>4. g[j + 1] = IF n[j] \in CodeModes /\ part[j] = "open" THEN g[j] + 1 ELSE
                   IF n[j] \in CodeModes /\ part[j] = "close" THEN g[j] - 1 ELSE g[j]
    BY <2>1, Zenon DEF Reads
  <2>5. m[(j + c) + 1] = NextMode(m[j + c], text[j + c])
    BY <2>1, Zenon DEF Reads
  <2>6. d[(j + c) + 1] = IF m[j + c] \in CodeModes /\ text[j + c] = "open" THEN d[j + c] + 1 ELSE
                         IF m[j + c] \in CodeModes /\ text[j + c] = "close" THEN d[j + c] - 1 ELSE d[j + c]
    BY <2>1, Zenon DEF Reads
  <2>7. n[j] = m[j + c] /\ g[j] + e = d[j + c]
    BY <1>3, Zenon DEF j
  <2>8. g[j] \in Int /\ d[j + c] \in Int
    BY <2>1, Zenon DEF Reads
  <2>9. n[k] = m[k + c]
    BY <2>1, <2>2, <2>3, <2>5, <2>7, Zenon
  <2>10. g[k] = IF m[j + c] \in CodeModes /\ text[j + c] = "open" THEN g[j] + 1 ELSE
                IF m[j + c] \in CodeModes /\ text[j + c] = "close" THEN g[j] - 1 ELSE g[j]
    BY <2>1, <2>2, <2>4, <2>7
  <2>11. d[k + c] = IF m[j + c] \in CodeModes /\ text[j + c] = "open" THEN d[j + c] + 1 ELSE
                    IF m[j + c] \in CodeModes /\ text[j + c] = "close" THEN d[j + c] - 1 ELSE d[j + c]
    BY <2>1, <2>6
  <2>12. g[k] + e = d[k + c]
    BY <1>e, <2>7, <2>8, <2>10, <2>11
  <2> QED  BY <2>9, <2>12
<1> HIDE DEF Same
<1>4. ASSUME Bad # {}
      PROVE  FALSE
  <2>1. Bad \subseteq Nat
    BY <1>1, SMT
  <2>2. PICK k \in Bad : \A j \in Bad : k <= j
    BY <1>4, <2>1, LeastNatural
  <2>3. k # a /\ k \in a..Past(part)
    BY <1>2, <2>2, Zenon
  <2>4. k - 1 \in a..Past(part) /\ ~(k <= k - 1) /\ k \in (a + 1)..Past(part)
    BY <1>1, <2>3, SMT
  <2>5. Same(k - 1)
    BY <2>2, <2>4, Zenon
  <2> QED  BY <1>3, <2>2, <2>4, <2>5, Zenon
<1> QED  BY <1>4, Zenon DEF Same

\* A brace in code that closes less than is open before it: some brace between
\* closes the last one.
LEMMA ClosesBetween ==
  ASSUME NEW text, NEW start, NEW m, NEW d, Reads(text, start, m, d),
         NEW p \in start..Len(text), d[p] >= 1,
         NEW q \in start..Len(text), p <= q, d[q] <= 0
  PROVE  \E k \in p..(q - 1) : Closes(text, m, d, k)
<1> DEFINE Low == {k \in p..q : d[k] <= 0}
<1>1. Len(text) \in Nat /\ start \in Nat /\ p \in Nat /\ q \in Nat /\ Past(text) = Len(text) + 1
  BY ReadsWhere, SMT
<1>2. q \in Low /\ Low \subseteq Nat
  BY <1>1, SMT
<1>3. PICK k \in Low : \A j \in Low : k <= j
  BY <1>2, LeastNatural
<1>4. k \in p..q /\ d[k] <= 0
  BY <1>3
<1>5. d[p] \in Int /\ k # p
  <2>1. p \in start..Past(text)
    BY <1>1, SMT
  <2>2. d[p] \in Int
    BY <2>1, Zenon DEF Reads
  <2>3. ~(d[p] <= 0)
    BY <2>2
  <2> QED  BY <1>4, <2>2, <2>3, Zenon
<1>6. /\ k - 1 \in p..q /\ k - 1 \in p..(q - 1) /\ ~(k <= k - 1) /\ (k - 1) + 1 = k
      /\ k - 1 \in start..Len(text) /\ k - 1 \in start..Past(text) /\ k \in start..Past(text)
  BY <1>1, <1>4, <1>5, SMT
<1>7. ~(d[k - 1] <= 0)
  BY <1>3, <1>6, Zenon
<1>8. d[k - 1] \in Int /\ d[k] \in Int
  BY <1>6, Zenon DEF Reads
<1>9. d[(k - 1) + 1] = IF m[k - 1] \in CodeModes /\ text[k - 1] = "open" THEN d[k - 1] + 1 ELSE
                       IF m[k - 1] \in CodeModes /\ text[k - 1] = "close" THEN d[k - 1] - 1 ELSE d[k - 1]
  BY <1>6, Zenon DEF Reads
<1>10. text[k - 1] = "close" /\ m[k - 1] \in CodeModes /\ d[k - 1] = 1
  BY <1>4, <1>6, <1>7, <1>8, <1>9
<1>11. Closes(text, m, d, k - 1)
  BY <1>10, Zenon DEF Closes
<1> QED  BY <1>6, <1>11, Zenon

\* e is where the lexer first closes the brace at start; 0 if it never does.
FirstClose(text, start, m, d, e) ==
  /\ e = 0 => \A k \in start..Len(text) : ~Closes(text, m, d, k)
  /\ e # 0 => /\ e \in start..Len(text) /\ Closes(text, m, d, e)
              /\ \A k \in start..(e - 1) : ~Closes(text, m, d, k)

LEMMA ClosingIsFirst ==
  ASSUME NEW text \in Seq(Symbols), NEW start \in 1..Len(text)
  PROVE  \E m, d :
           /\ Reads(text, start, m, d)
           /\ \A k \in start..Past(text) : m[k] = Lexer(text, start)[k].mode /\ d[k] = Lexer(text, start)[k].depth
           /\ FirstClose(text, start, m, d, Closing(text, start))
<1>1. PICK m, d :
        /\ Reads(text, start, m, d)
        /\ \A k \in start..Past(text) : m[k] = Lexer(text, start)[k].mode /\ d[k] = Lexer(text, start)[k].depth
  BY LexerModes, Zenon
<1> DEFINE S == {k \in start..Len(text) : Closes(text, m, d, k)}
           e == Closing(text, start)
<1>2. e = FirstOf(S, 0)
  BY <1>1, ClosingCloses, Zenon
<1>3. Len(text) \in Nat /\ start \in Nat /\ start > 0
  BY SMT
<1>4. S \subseteq Nat
  BY <1>3, SMT
<1> HIDE DEF e
<1>5. CASE S = {}
  <2>1. e = 0
    BY <1>2, <1>4, <1>5, FirstOfIsFirst, Zenon
  <2>2. \A k \in start..Len(text) : ~Closes(text, m, d, k)
    BY <1>5, Zenon
  <2>3. FirstClose(text, start, m, d, e)
    BY <2>1, <2>2, Zenon DEF FirstClose
  <2> QED  BY <1>1, <2>3, Zenon DEF e
<1>6. CASE S # {}
  <2>1. e \in S /\ \A k \in S : e <= k
    BY <1>2, <1>4, <1>6, FirstOfIsFirst, Zenon
  <2>2. e \in start..Len(text) /\ Closes(text, m, d, e)
    BY <2>1
  <2>3. e # 0 /\ \A k \in start..(e - 1) : k \in start..Len(text) /\ ~(e <= k)
    BY <1>3, <2>2, SMT
  <2>4. \A k \in start..(e - 1) : ~Closes(text, m, d, k)
    BY <2>1, <2>3, Zenon
  <2>5. FirstClose(text, start, m, d, e)
    BY <2>2, <2>3, <2>4, Zenon DEF FirstClose
  <2> QED  BY <1>1, <2>5, Zenon DEF e
<1> QED  BY <1>5, <1>6

\* The same place, seen from two beginnings.
LEMMA SameFirst ==
  ASSUME NEW a \in Nat, NEW i \in Nat, NEW J \in Nat, NEW F \in Nat, NEW G \in Nat,
         a + i = J, a <= G, a <= F - i, F - i \notin a..(G - 1), G + i \notin J..(F - 1)
  PROVE  G = F - i
BY SMT

\* part is text from start on, with both braces; F closes the first one in text
\* and G in part.
CutOut(text, start, m, d, F, part, a, n, g, G, c) ==
  /\ Reads(text, start, m, d) /\ FirstClose(text, start, m, d, F)
  /\ Reads(part, a, n, g) /\ FirstClose(part, a, n, g, G)
  /\ Embedded(text, start, m, d, part, a, c, 0) /\ a + c = start /\ F # 0 /\ F <= Len(part) + c

\* What closes a brace closes it in a part of the text that begins there, too.
LEMMA SameClosing ==
  ASSUME NEW text, NEW start, NEW m, NEW d, NEW F, NEW part, NEW a, NEW n, NEW g, NEW G, NEW c,
         CutOut(text, start, m, d, F, part, a, n, g, G, c)
  PROVE  G = F - c
<1>0. /\ Reads(text, start, m, d) /\ FirstClose(text, start, m, d, F)
      /\ Reads(part, a, n, g) /\ FirstClose(part, a, n, g, G)
      /\ Embedded(text, start, m, d, part, a, c, 0) /\ a + c = start /\ F # 0 /\ F <= Len(part) + c
  BY Zenon DEF CutOut
<1>1. /\ Len(part) \in Nat /\ Past(part) = Len(part) + 1 /\ a \in Nat /\ a > 0 /\ a <= Len(part)
      /\ Len(text) \in Nat /\ start \in Nat /\ Past(text) = Len(text) + 1
  BY <1>0, ReadsWhere
<1>2. c \in Nat /\ Len(part) + c <= Len(text) /\ \A k \in a..Len(part) : part[k] = text[k + c]
  BY <1>0, Zenon DEF Embedded
<1>3. \A k \in a..Past(part) : n[k] = m[k + c] /\ g[k] + 0 = d[k + c]
  BY <1>0, SameLexing
<1>4. \A k \in a..Len(part) : k \in a..Past(part)
  BY <1>1, SMT
<1>5. \A k \in a..Past(part) : g[k] \in Int
  BY <1>0, Zenon DEF Reads
<1>6. ASSUME NEW k \in a..Len(part)
      PROVE  Closes(part, n, g, k) <=> Closes(text, m, d, k + c)
  <2>1. n[k] = m[k + c] /\ g[k] + 0 = d[k + c] /\ g[k] \in Int /\ part[k] = text[k + c]
    BY <1>2, <1>3, <1>4, <1>5, Zenon
  <2>2. g[k] = d[k + c]
    BY <2>1, SMT
  <2> QED  BY <2>1, <2>2, Zenon DEF Closes
<1>7. F \in start..Len(text) /\ Closes(text, m, d, F) /\ \A j \in start..(F - 1) : ~Closes(text, m, d, j)
  BY <1>0, Zenon DEF FirstClose
<1>8. F \in Nat /\ F - c \in Nat /\ F - c \in a..Len(part) /\ (F - c) + c = F
  BY <1>0, <1>1, <1>2, <1>7, SMT
<1>9. Closes(part, n, g, F - c)
  BY <1>6, <1>7, <1>8, Zenon
<1>10. G # 0
  BY <1>0, <1>8, <1>9, Zenon DEF FirstClose
<1>11. G \in a..Len(part) /\ Closes(part, n, g, G) /\ \A j \in a..(G - 1) : ~Closes(part, n, g, j)
  BY <1>0, <1>10, Zenon DEF FirstClose
<1>12. F - c \notin a..(G - 1)
  BY <1>9, <1>11, Zenon
<1>13. Closes(text, m, d, G + c)
  BY <1>6, <1>11, Zenon
<1>14. G + c \notin start..(F - 1)
  BY <1>7, <1>13, Zenon
<1>15. G \in Nat /\ a <= G /\ a <= F - c
  BY <1>1, <1>8, <1>11, SMT
<1> QED  BY <1>0, <1>1, <1>2, <1>8, <1>12, <1>14, <1>15, SameFirst

\* A block that opens behind a `dev' right inside the options ends before they
\* do, and the scanner finds its end in the options cut out of the text.
LEMMA BlockInside ==
  ASSUME NEW text \in Seq(Symbols), NEW i \in Nat, i > 0, i + 1 <= Len(text),
         NEW E, E = Closing(text, i + 1), E # 0,
         NEW J \in (i + 1)..E, text[J] = "dev", Symbol(text, J + 1) = "open",
         IsCode(Lexer(text, i + 1)[J]), Lexer(text, i + 1)[J].depth = 1,
         NEW O, O = SubSeq(text, i + 1, E)
  PROVE  /\ Closing(text, J + 1) \in (J + 2)..(E - 1) /\ text[Closing(text, J + 1)] = "close"
         /\ Balanced(O, J + 1 - i) = Closing(text, J + 1) - i
<1>1. Len(text) \in Nat /\ i + 1 \in 1..Len(text)
  BY SMT
<1>2. PICK m, d :
        /\ Reads(text, i + 1, m, d)
        /\ \A k \in (i + 1)..Past(text) : m[k] = Lexer(text, i + 1)[k].mode /\ d[k] = Lexer(text, i + 1)[k].depth
        /\ FirstClose(text, i + 1, m, d, E)
  BY <1>1, ClosingIsFirst, Zenon
<1>3. E \in (i + 1)..Len(text) /\ text[E] = "close" /\ m[E] \in CodeModes /\ d[E] = 1
  <2>1. E \in (i + 1)..Len(text) /\ Closes(text, m, d, E)
    BY <1>2, Zenon DEF FirstClose
  <2> QED  BY <2>1, Zenon DEF Closes
<1>4. J \in Nat /\ J > 0 /\ J + 1 < E /\ text[J + 1] = "open"
  <2>1. J # E
    BY <1>3
  <2>2. J \in Nat /\ J + 1 \in Nat /\ J + 1 > 0 /\ J + 1 <= E /\ J + 1 <= Len(text)
    BY <1>1, <1>3, <2>1, SMT
  <2>3. Symbol(text, J + 1) = text[J + 1]
    BY <2>2, SymbolAt
  <2>4. J + 1 # E
    BY <1>3, <2>3
  <2> QED  BY <1>3, <2>2, <2>3, <2>4, SMT
<1>a. /\ Len(text) \in Nat /\ Past(text) = Len(text) + 1 /\ E \in Nat /\ J \in Nat
      /\ i + 1 <= J /\ J + 1 < E /\ E <= Len(text)
  BY <1>1, <1>3, <1>4, SMT DEF Past
<1>5. m[J + 1] = "code" /\ d[J + 1] = 1
  <2>1. J \in (i + 1)..Past(text) /\ J \in (i + 1)..Len(text)
    BY <1>a, SMT
  <2>2. m[J] \in CodeModes /\ d[J] = 1
    BY <1>2, <2>1, Zenon DEF IsCode, CodeModes
  <2>3. m[J + 1] = NextMode(m[J], "dev")
    BY <1>2, <2>1, Zenon DEF Reads
  <2>4. d[J + 1] = IF m[J] \in CodeModes /\ text[J] = "open" THEN d[J] + 1 ELSE
                   IF m[J] \in CodeModes /\ text[J] = "close" THEN d[J] - 1 ELSE d[J]
    BY <1>2, <2>1, Zenon DEF Reads
  <2>5. m[J + 1] = "code"
    BY <2>2, <2>3 DEF NextMode, Quotes, CodeModes, Begin
  <2> QED  BY <2>2, <2>4, <2>5
<1> DEFINE F == Closing(text, J + 1)
<1>6. J + 1 \in 1..Len(text)
  BY <1>a, SMT
<1>7. PICK n, g : Reads(text, J + 1, n, g) /\ FirstClose(text, J + 1, n, g, F)
  BY <1>6, ClosingIsFirst, Zenon
<1> HIDE DEF F
<1>8. \A k \in (J + 1)..Past(text) : n[k] = m[k] /\ g[k] + 1 = d[k]
  <2>1. 0 \in Nat /\ 1 \in Int /\ i + 1 <= J + 1 + 0 /\ Len(text) + 0 <= Len(text) /\ J + 1 + 0 = J + 1
        /\ \A k \in (J + 1)..Len(text) : k + 0 = k
    BY <1>a, SMT
  <2>2. m[J + 1 + 0] = "code" /\ d[J + 1 + 0] = 1
    BY <1>5, <2>1
  <2>3. \A k \in (J + 1)..Len(text) : text[k] = text[k + 0]
    BY <2>1
  <2>6. Embedded(text, i + 1, m, d, text, J + 1, 0, 1)
    BY <2>1, <2>2, <2>3, Zenon DEF Embedded
  <2>4. \A k \in (J + 1)..Past(text) : n[k] = m[k + 0] /\ g[k] + 1 = d[k + 0]
    BY <1>2, <1>7, <2>6, SameLexing
  <2>5. \A k \in (J + 1)..Past(text) : k + 0 = k
    BY <1>a, SMT
  <2> QED  BY <2>4, <2>5
<1>9. F \in (J + 2)..(E - 1)
  <2>1. /\ E \in (J + 1)..Past(text) /\ E \in (J + 1)..Len(text) /\ J + 1 \in (J + 1)..Len(text)
        /\ J + 2 \in (J + 1)..Len(text) /\ J + 2 <= E /\ (J + 1) + 1 = J + 2
    BY <1>a, SMT
  <2>2. g[E] \in Int /\ g[E] + 1 = 1
    <3>1. g[E] \in Int
      BY <1>7, <2>1, Zenon DEF Reads
    <3> QED  BY <1>3, <1>8, <2>1, <3>1
  <2>3. g[J + 2] = 1
    <3>1. n[J + 1] = "code" /\ g[J + 1] = 0
      BY <1>7, Zenon DEF Reads
    <3>2. g[(J + 1) + 1] = IF n[J + 1] \in CodeModes /\ text[J + 1] = "open" THEN g[J + 1] + 1 ELSE
                           IF n[J + 1] \in CodeModes /\ text[J + 1] = "close" THEN g[J + 1] - 1 ELSE g[J + 1]
      BY <1>7, <2>1, Zenon DEF Reads
    <3>3. "code" \in CodeModes
      BY DEF CodeModes
    <3> QED  BY <1>4, <2>1, <3>1, <3>2, <3>3
  <2>4. g[J + 2] >= 1 /\ g[E] <= 0
    BY <2>2, <2>3, SMT
  <2>5. PICK k \in (J + 2)..(E - 1) : Closes(text, n, g, k)
    BY <1>7, <2>1, <2>4, ClosesBetween
  <2>6. k \in (J + 1)..Len(text) /\ k \in Nat
    BY <1>a, SMT
  <2>7. F # 0
    BY <1>7, <2>5, <2>6, Zenon DEF FirstClose
  <2>8. /\ F \in (J + 1)..Len(text) /\ Closes(text, n, g, F)
        /\ \A j \in (J + 1)..(F - 1) : ~Closes(text, n, g, j)
    BY <1>7, <2>7, Zenon DEF FirstClose
  <2>9. k \notin (J + 1)..(F - 1)
    BY <2>5, <2>8, Zenon
  <2>10. F # J + 1
    <3>1. text[F] = "close"
      BY <2>8, Zenon DEF Closes
    <3> QED  BY <1>4, <3>1
  <2>11. F \in Nat /\ F >= J + 1 /\ F # J + 1
    BY <1>a, <2>8, <2>10, SMT
  <2>12. k \in Nat /\ k >= J + 2 /\ k <= E - 1
    BY <1>a, <2>5, <2>6, SMT
  <2>13. F <= k
    BY <1>a, <2>9, <2>11, <2>12, SMT
  <2> QED  BY <1>a, <2>11, <2>12, <2>13, SMT
<1>10. O \in Seq(Symbols) /\ Len(O) = E - i /\ \A k \in 1..Len(O) : O[k] = text[k + i]
  <2>1. /\ i + 1 \in 1..Len(text) /\ E \in (i + 1)..Len(text)
    BY <1>1, <1>3
  <2>2. /\ O \in Seq(Symbols) /\ Len(O) = E - (i + 1) + 1
        /\ \A k \in 1..(E - (i + 1) + 1) : O[k] = text[(i + 1) + k - 1]
    BY <2>1, SubSeqProperties
  <2>3. E - (i + 1) + 1 = E - i /\ \A k \in 1..(E - i) : (i + 1) + k - 1 = k + i
    BY <2>1, SMT
  <2> QED  BY <2>2, <2>3
<1>b. Len(O) = E - i
  BY <1>10
<1> DEFINE a == J + 1 - i
           G == Closing(O, a)
<1>11. a \in 1..Len(O) /\ a + i = J + 1 /\ Len(O) \in Nat /\ a \in Nat
  BY <1>a, <1>b, SMT
<1>p. Past(O) = Len(O) + 1
  BY DEF Past
<1> HIDE DEF a
<1>12. PICK u, v : Reads(O, a, u, v) /\ FirstClose(O, a, u, v, G)
  BY <1>10, <1>11, ClosingIsFirst, Zenon
<1> HIDE DEF G
<1>13. Embedded(text, J + 1, n, g, O, a, i, 0)
  <2>1. 0 \in Int /\ J + 1 <= a + i /\ Len(O) + i <= Len(text) /\ \A k \in a..Len(O) : k \in 1..Len(O)
    BY <1>a, <1>b, <1>11, SMT
  <2>2. n[a + i] = "code" /\ g[a + i] = 0
    BY <1>7, <1>11, Zenon DEF Reads
  <2>3. \A k \in a..Len(O) : O[k] = text[k + i]
    BY <1>10, <2>1, Zenon
  <2> QED  BY <2>1, <2>2, <2>3, Zenon DEF Embedded
<1>14. F # 0 /\ F <= Len(O) + i
  BY <1>a, <1>9, <1>b, SMT
<1>15. G = F - i
  <2>1. CutOut(text, J + 1, n, g, F, O, a, u, v, G, i)
    BY <1>7, <1>11, <1>12, <1>13, <1>14, Zenon DEF CutOut
  <2> QED  BY <2>1, SameClosing, Zenon
<1>16. Balanced(O, a) = G
  BY <1>10, <1>11, BalancedIsClosing, Zenon DEF G
<1>17. text[F] = "close"
  <2>1. F # 0
    BY <1>a, <1>9, SMT
  <2>2. Closes(text, n, g, F)
    BY <1>7, <2>1, Zenon DEF FirstClose
  <2> QED  BY <2>2, Zenon DEF Closes
<1> QED  BY <1>9, <1>15, <1>16, <1>17, Zenon DEF F, a

\* Where a block from J + 1 to F lies in options from i + 1 to E, and when cut out.
Offsets(i, n, E, J, F) ==
  /\ J \in Nat /\ J > i /\ F \in Nat /\ J + 2 <= F /\ F < E
  /\ J - i \in 1..n /\ (J - i) + i = J /\ (J - i) + 1 = J + 1 - i /\ J - i # 0
  /\ (J - i) + 1 \in 1..n /\ ((J - i) + 1) + i = J + 1
  /\ J + 1 \in Nat /\ J + 1 > 0 /\ J + 1 <= E
  /\ (J - i) + 1 \in Nat /\ (J - i) + 1 > 0 /\ (J - i) + 1 <= n
  /\ (J - i) + 2 \in Int /\ (F - i) - 1 \in Int
  /\ ((F - i) - 1) - ((J - i) + 2) + 1 = F - (J + 2) /\ F - (J + 2) \in Nat
  /\ (J - i) + 2 <= (F - i) - 1 \/ F - (J + 2) = 0
  /\ \A k \in ((J - i) + 2)..((F - i) - 1) : k \in 1..n
  /\ \A k \in 1..(F - (J + 2)) : /\ (J - i) + 2 + k - 1 \in 1..n
                                 /\ ((J - i) + 2 + k - 1) + i = k + (J + 1)
                                 /\ k + (J + 1) \in (i + 1)..E
  /\ \A h \in J..F : h # J /\ h # J + 1 /\ h # F
       => h - (J + 1) \in 1..(F - (J + 2)) /\ (h - (J + 1)) + (J + 1) = h

LEMMA BlockOffsets ==
  ASSUME NEW i \in Nat, NEW E \in Nat, NEW J \in (i + 1)..E, NEW F \in (J + 2)..(E - 1)
  PROVE  Offsets(i, E - i, E, J, F)
BY SMT DEF Offsets

\* The fields of a well-formed declaration are those its text has.
LEMMA FieldsAreRead ==
  ASSUME source \in Seq(Symbols), NEW i \in DOMAIN source, WellFormed(i),
         NEW phrase \in {"command", "off"}
  PROVE  HasField(DevBlock(Options(source, i)), phrase)
           <=> \E k \in (i + 1)..Closing(source, i + 1) : source[k] = phrase
<1> DEFINE l == Lexer(source, i + 1)
           E == Closing(source, i + 1)
           here == {k \in (i + 1)..E : source[k] \in Phrases}
           O == Options(source, i)
<1>1. /\ Symbol(source, i + 1) = "open" /\ E # 0
      /\ \A k \in here :
           /\ IsCode(l[k])
           /\ \/ source[k] = "dev" /\ Symbol(source, k + 1) = "open" /\ l[k].depth = 1
              \/ source[k] \in {"command", "off"} /\ l[k].depth = 2
      /\ \A j, k \in here : source[j] = "dev" /\ source[k] = "dev" => j = k
      /\ \A k \in here : source[k] # "dev" =>
           \E j \in here : source[j] = "dev" /\ k \in j..Closing(source, j + 1)
  BY Zenon DEF WellFormed
<1>2. Len(source) \in Nat /\ DOMAIN source = 1..Len(source) /\ i \in Nat /\ i > 0
  OBVIOUS
<1>3. i + 1 \in Nat /\ i + 1 > 0
  BY <1>2, SMT
<1>4. i + 1 <= Len(source) /\ i + 1 \in 1..Len(source)
  <2>1. Symbol(source, i + 1) # "end"
    BY <1>1
  <2>2. i + 1 <= Len(source)
    BY <1>3, <2>1, SymbolAt, Zenon
  <2> QED  BY <1>3, <2>2, SMT
<1>5. E \in (i + 1)..Len(source)
  <2>1. PICK m, d : FirstClose(source, i + 1, m, d, E)
    BY <1>4, ClosingIsFirst, Zenon
  <2> QED  BY <1>1, <2>1, Zenon DEF FirstClose
<1>6. O = SubSeq(source, i + 1, E)
  <2>1. Balanced(source, i + 1) = E
    BY <1>4, BalancedIsClosing, Zenon
  <2> QED  BY <1>1, <2>1, Zenon DEF Options
<1> HIDE DEF l, E, O
<1>7. O \in Seq(Symbols) /\ Len(O) = E - i /\ \A k \in 1..Len(O) : O[k] = source[k + i]
  <2>1. i + 1 \in 1..Len(source) /\ E \in (i + 1)..Len(source)
    BY <1>4, <1>5
  <2>2. /\ O \in Seq(Symbols) /\ Len(O) = E - (i + 1) + 1
        /\ \A k \in 1..(E - (i + 1) + 1) : O[k] = source[(i + 1) + k - 1]
    BY <1>6, <2>1, SubSeqProperties
  <2>3. E - (i + 1) + 1 = E - i /\ \A k \in 1..(E - i) : (i + 1) + k - 1 = k + i
    BY <1>2, <2>1, SMT
  <2> QED  BY <2>2, <2>3
<1>8. Len(O) = E - i /\ Len(O) \in Nat /\ DOMAIN O = 1..Len(O) /\ E \in Nat
  BY <1>2, <1>5, <1>7, SMT
<1>c. i \in Nat /\ E \in Nat /\ Len(O) = E - i /\ i < E /\ E <= Len(source) /\ Len(source) \in Nat
  BY <1>2, <1>5, <1>8, SMT
<1> DEFINE K == {k \in DOMAIN O : O[k] = "dev" /\ Symbol(O, k + 1) = "open"}
           key == FirstOf(K, 0)
           end == IF key = 0 THEN 0 ELSE Balanced(O, key + 1)
<1>9. DevBlock(O) = IF end = 0 THEN <<>> ELSE SubSeq(O, key + 2, end - 1)
  BY Zenon DEF DevBlock
<1>10. K \subseteq Nat
  BY <1>8, SMT
<1>11. \A k \in (i + 1)..E : source[k] = phrase => k \in here /\ source[k] # "dev"
  BY DEF Phrases
<1>12. \A k \in K : k + i \in here /\ source[k + i] = "dev"
  <2> SUFFICES ASSUME NEW k \in K
               PROVE  k + i \in here /\ source[k + i] = "dev"
    OBVIOUS
  <2>1. k \in 1..Len(O) /\ O[k] = "dev"
    BY <1>8
  <2>2. k + i \in (i + 1)..E
    BY <1>2, <1>8, <2>1, SMT
  <2>3. source[k + i] = "dev"
    BY <1>7, <2>1, Zenon
  <2> QED  BY <2>2, <2>3 DEF Phrases
<1>13. CASE ~\E j \in here : source[j] = "dev"
  <2>1. K = {}
    BY <1>12, <1>13, Zenon
  <2>2. key = 0
    BY <1>10, <2>1, FirstOfIsFirst, Zenon
  <2>3. DevBlock(O) = <<>>
    BY <1>9, <2>2
  <2>4. ~HasField(DevBlock(O), phrase)
    BY <2>3 DEF HasField
  <2>5. ~\E k \in (i + 1)..E : source[k] = phrase
    BY <1>1, <1>11, <1>13, Zenon
  <2> QED  BY <2>4, <2>5 DEF O, E
<1>14. ASSUME NEW J, J \in here, source[J] = "dev"
       PROVE  HasField(DevBlock(O), phrase) <=> \E k \in (i + 1)..E : source[k] = phrase
  <2> DEFINE F == Closing(source, J + 1)
  <2>1. /\ J \in (i + 1)..E /\ Symbol(source, J + 1) = "open"
        /\ IsCode(l[J]) /\ l[J].depth = 1
    <3>1. source[J] \notin {"command", "off"}
      BY <1>14
    <3>2. \/ source[J] = "dev" /\ Symbol(source, J + 1) = "open" /\ l[J].depth = 1
          \/ source[J] \in {"command", "off"} /\ l[J].depth = 2
      BY <1>1, <1>14, Zenon DEF l, E
    <3>3. IsCode(l[J])
      BY <1>1, <1>14, Zenon DEF l, E
    <3> QED  BY <1>14, <3>1, <3>2, <3>3, Zenon
  <2>2. F \in (J + 2)..(E - 1) /\ source[F] = "close" /\ Balanced(O, J + 1 - i) = F - i
    <3>1. E = Closing(source, i + 1)
      BY DEF E
    <3>2. IsCode(Lexer(source, i + 1)[J]) /\ Lexer(source, i + 1)[J].depth = 1
      BY <2>1, Zenon DEF l
    <3>3. i \in Nat /\ i > 0 /\ i + 1 <= Len(source) /\ E # 0 /\ J \in (i + 1)..E
      BY <1>1, <1>2, <1>4, <2>1, Zenon
    <3>4. source[J] = "dev" /\ Symbol(source, J + 1) = "open"
      BY <1>14, <2>1, Zenon
    <3> QED  BY <1>6, <3>1, <3>2, <3>3, <3>4, BlockInside, Zenon
  <2> HIDE DEF F
  <2>o. Offsets(i, Len(O), E, J, F)
    <3>1. J \in (i + 1)..E /\ F \in (J + 2)..(E - 1)
      BY <2>1, <2>2, Zenon
    <3>2. Offsets(i, E - i, E, J, F)
      BY <1>c, <3>1, BlockOffsets, Zenon
    <3> QED  BY <1>c, <3>2, Zenon
  <2>3. /\ J \in Nat /\ J > i /\ F \in Nat /\ J + 2 <= F /\ F < E
        /\ J - i \in 1..Len(O) /\ (J - i) + i = J /\ (J - i) + 1 = J + 1 - i /\ J - i # 0
        /\ (J - i) + 1 \in 1..Len(O) /\ ((J - i) + 1) + i = J + 1
        /\ J + 1 \in Nat /\ J + 1 > 0 /\ J + 1 <= E
        /\ (J - i) + 1 \in Nat /\ (J - i) + 1 > 0 /\ (J - i) + 1 <= Len(O)
    BY <2>o, Zenon DEF Offsets
  <2>4. source[J + 1] = "open"
    <3>1. J + 1 <= Len(source)
      BY <1>c, <2>3, SMT
    <3>2. Symbol(source, J + 1) = source[J + 1]
      BY <2>3, <3>1, SymbolAt
    <3> QED  BY <2>1, <3>2
  <2>5. J - i \in K
    <3>1. O[J - i] = "dev" /\ O[(J - i) + 1] = "open"
      BY <1>7, <1>14, <2>3, <2>4, Zenon
    <3>2. Symbol(O, (J - i) + 1) = O[(J - i) + 1]
      BY <1>7, <2>3, SymbolAt
    <3> QED  BY <1>8, <2>3, <3>1, <3>2
  <2>6. key = J - i
    <3>1. key \in K
      BY <1>10, <2>5, FirstOfIsFirst, Zenon
    <3> HIDE DEF key
    <3>2. key + i \in here /\ source[key + i] = "dev" /\ key \in Nat
      BY <1>10, <1>12, <3>1, Zenon
    <3>3. key + i = J
      BY <1>1, <1>14, <3>2, Zenon DEF E
    <3> QED  BY <1>2, <2>3, <3>2, <3>3, SMT
  <2> HIDE DEF K, key
  <2>7. end = F - i /\ end # 0
    <3>1. end = Balanced(O, (J - i) + 1)
      BY <2>3, <2>6, Zenon
    <3>2. end = F - i
      BY <2>2, <2>3, <3>1, Zenon
    <3> QED  BY <1>2, <2>3, <3>2, SMT
  <2> HIDE DEF end
  <2>8. DevBlock(O) = SubSeq(O, (J - i) + 2, (F - i) - 1)
    BY <1>9, <2>6, <2>7, Zenon
  <2> DEFINE a == (J - i) + 2
             z == (F - i) - 1
             B == SubSeq(O, a, z)
  <2>9. /\ a \in Int /\ z \in Int /\ z - a + 1 = F - (J + 2) /\ F - (J + 2) \in Nat
        /\ a <= z \/ F - (J + 2) = 0
        /\ \A k \in a..z : k \in 1..Len(O)
        /\ \A k \in 1..(F - (J + 2)) : a + k - 1 \in 1..Len(O) /\ (a + k - 1) + i = k + (J + 1)
    BY <2>o, Zenon DEF Offsets
  <2>10. DevBlock(O) = B
    BY <2>8, Zenon
  <2> HIDE DEF a, z
  <2>11. DOMAIN B = 1..(F - (J + 2)) /\ \A k \in 1..(F - (J + 2)) : B[k] = source[k + (J + 1)]
    <3>2. \A k \in a..z : O[k] \in Symbols
      BY <1>7, <2>9, ElementOfSeq, Zenon
    <3>3. /\ B \in Seq(Symbols) /\ Len(B) = IF a <= z THEN z - a + 1 ELSE 0
          /\ \A k \in 1..(z - a + 1) : B[k] = O[a + k - 1]
      BY <2>9, <3>2, SubSeqProperties
    <3> HIDE DEF B
    <3>4. Len(B) = F - (J + 2)
      BY <2>9, <3>3
    <3>5. ASSUME NEW k \in 1..(F - (J + 2))
          PROVE  B[k] = source[k + (J + 1)]
      <4>1. k \in 1..(z - a + 1)
        BY <2>9, Zenon
      <4>2. a + k - 1 \in 1..Len(O) /\ (a + k - 1) + i = k + (J + 1)
        BY <2>9, Zenon
      <4>3. O[a + k - 1] = source[(a + k - 1) + i]
        BY <1>7, <4>2, Zenon
      <4> QED  BY <3>3, <4>1, <4>2, <4>3, Zenon
    <3>6. DOMAIN B = 1..Len(B)
      BY <3>3
    <3> QED  BY <3>4, <3>5, <3>6, Zenon
  <2> HIDE DEF B
  <2>12. HasField(DevBlock(O), phrase) <=> \E k \in 1..(F - (J + 2)) : source[k + (J + 1)] = phrase
    BY <2>10, <2>11, Zenon DEF HasField
  <2>13. ASSUME NEW k \in 1..(F - (J + 2)), source[k + (J + 1)] = phrase
         PROVE  \E h \in (i + 1)..E : source[h] = phrase
    <3>1. k + (J + 1) \in (i + 1)..E
      BY <2>o, Zenon DEF Offsets
    <3> QED  BY <2>13, <3>1, Zenon
  <2>14. ASSUME NEW h \in (i + 1)..E, source[h] = phrase
         PROVE  \E k \in 1..(F - (J + 2)) : source[k + (J + 1)] = phrase
    <3>1. h \in here /\ source[h] # "dev"
      BY <1>11, <2>14, Zenon
    <3>2. PICK j \in here : source[j] = "dev" /\ h \in j..Closing(source, j + 1)
      BY <1>1, <3>1, Zenon DEF E
    <3>3. j = J
      BY <1>1, <1>14, <3>2, Zenon DEF E
    <3>4. h \in J..F
      BY <3>2, <3>3, Zenon DEF F
    <3>5. h # J /\ h # J + 1 /\ h # F
      BY <1>14, <2>2, <2>4, <2>14
    <3>6. h - (J + 1) \in 1..(F - (J + 2)) /\ (h - (J + 1)) + (J + 1) = h
      BY <2>o, <3>4, <3>5, Zenon DEF Offsets
    <3> QED  BY <2>14, <3>6, Zenon
  <2> QED  BY <2>12, <2>13, <2>14, Zenon
<1> QED  BY <1>13, <1>14, Zenon DEF O, E

LEMMA SpecsAt ==
  ASSUME NEW text, NEW i \in DOMAIN text, text[i] = "new"
  PROVE  {s \in Specs(text) : s.at = i} =
           IF HasField(DevBlock(Options(text, i)), "command")
           THEN {[at |-> i, autostart |-> ~HasField(DevBlock(Options(text, i)), "off")]} ELSE {}
<1> DEFINE Block(j) == DevBlock(Options(text, j))
           Spec(j) == [at |-> j, autostart |-> ~HasField(Block(j), "off")]
           Named == {j \in DOMAIN text : text[j] = "new" /\ HasField(Block(j), "command")}
           At == {s \in Specs(text) : s.at = i}
<1>1. Specs(text) = {Spec(j) : j \in Named}
  BY Zenon DEF Specs
<1>2. \A j : Spec(j).at = j
  BY Zenon
<1> HIDE DEF Spec
<1>3. ASSUME NEW s \in At
      PROVE  s = Spec(i) /\ i \in Named
  <2>1. PICK j \in Named : s = Spec(j)
    BY <1>1, <1>3, Zenon
  <2>2. j = i
    BY <1>2, <1>3, <2>1, Zenon
  <2> QED  BY <2>1, <2>2, Zenon
<1>4. i \in Named => Spec(i) \in At
  BY <1>1, <1>2, Zenon
<1>5. i \in Named <=> HasField(Block(i), "command")
  BY Zenon
<1> HIDE DEF Named, At, Block
<1>6. CASE HasField(Block(i), "command")
  <2>1. At = {Spec(i)}
    BY <1>3, <1>4, <1>5, <1>6, Zenon
  <2> QED  BY <1>6, <2>1, Zenon DEF At, Spec, Block
<1>7. CASE ~HasField(Block(i), "command")
  <2>1. At = {}
    BY <1>3, <1>5, <1>7, Zenon
  <2> QED  BY <1>7, <2>1, Zenon DEF At, Block
<1> QED  BY <1>6, <1>7, Zenon

LEMMA EveryTextIsRead ==
  ASSUME source \in Seq(Symbols)
  PROVE  BracesAreExact /\ DeclarationsAreExact
<1>1. BracesAreExact
  <2>1. DOMAIN source = 1..Len(source)
    OBVIOUS
  <2> QED  BY <2>1, BalancedIsClosing, Zenon DEF BracesAreExact
<1>2. ASSUME NEW i \in DOMAIN source, source[i] = "new", WellFormed(i)
      PROVE  LET has(phrase) == \E k \in (i + 1)..Closing(source, i + 1) : source[k] = phrase
             IN {s \in Specs(source) : s.at = i} =
                  IF has("command") THEN {[at |-> i, autostart |-> ~has("off")]} ELSE {}
  <2> DEFINE has(phrase) == \E k \in (i + 1)..Closing(source, i + 1) : source[k] = phrase
             read(phrase) == HasField(DevBlock(Options(source, i)), phrase)
  <2>1. \A phrase \in {"command", "off"} : read(phrase) <=> has(phrase)
    BY <1>2, FieldsAreRead, Zenon
  <2>2. {s \in Specs(source) : s.at = i} = IF read("command") THEN {[at |-> i, autostart |-> ~read("off")]} ELSE {}
    BY <1>2, SpecsAt, Zenon
  <2> HIDE DEF read, has
  <2>3. (read("command") <=> has("command")) /\ (read("off") <=> has("off"))
    BY <2>1, Zenon
  <2>4. {s \in Specs(source) : s.at = i} = IF has("command") THEN {[at |-> i, autostart |-> ~has("off")]} ELSE {}
    <3>1. CASE read("command") /\ read("off")
      BY <2>2, <2>3, <3>1, Zenon
    <3>2. CASE read("command") /\ ~read("off")
      BY <2>2, <2>3, <3>2, Zenon
    <3>3. CASE ~read("command")
      BY <2>2, <2>3, <3>3, Zenon
    <3> QED  BY <3>1, <3>2, <3>3, Zenon
  <2> QED  BY <2>4, Zenon DEF has
<1>3. DeclarationsAreExact
  BY <1>2, Zenon DEF DeclarationsAreExact
<1> QED  BY <1>1, <1>3, Zenon

\* A text is one of symbols, and of its corpus.
ConfigTypeOK == corpus \in Corpora /\ source \in Seq(Symbols)

LEMMA TextsAreTexts == ConfigSpec => []ConfigTypeOK
<1>1. ConfigInit => ConfigTypeOK
  BY CorporaAssumption, Zenon DEF ConfigInit, ConfigTypeOK
<1>2. ConfigTypeOK /\ [ConfigNext]_configVars => ConfigTypeOK'
  <2> SUFFICES ASSUME ConfigTypeOK, [ConfigNext]_configVars
               PROVE  ConfigTypeOK'
    OBVIOUS
  <2>1. CASE UNCHANGED configVars
    BY <2>1 DEF ConfigTypeOK, configVars
  <2>2. ASSUME NEW piece \in corpus.pieces, Write(piece)
        PROVE  ConfigTypeOK'
    <3>1. piece \in Seq(Symbols)
      BY CorporaAssumption, <2>2, Zenon DEF ConfigTypeOK
    <3>2. source' = source \o piece /\ corpus' = corpus
      BY <2>2 DEF Write
    <3>3. source \in Seq(Symbols)
      BY DEF ConfigTypeOK
    <3>4. source \o piece \in Seq(Symbols)
      BY <3>1, <3>3, ConcatProperties
    <3> QED  BY <3>2, <3>4 DEF ConfigTypeOK
  <2> QED  BY <2>1, <2>2, Zenon DEF ConfigNext
<1> QED  BY <1>1, <1>2, PTL DEF ConfigSpec

\* Whatever the texts are and however long they grow, the index-skipping scanner
\* of extractBalancedBraces ends a block at the very brace the lexer does.
THEOREM BracesBalance == ConfigSpec => []BracesAreExact
<1>1. ConfigTypeOK => BracesAreExact
  BY EveryTextIsRead, Zenon DEF ConfigTypeOK
<1> QED  BY <1>1, TextsAreTexts, PTL

\* And of every well-formed declaration extractDevCommands registers what it
\* says and nothing else.
THEOREM DeclarationsAreRead == ConfigSpec => []DeclarationsAreExact
<1>1. ConfigTypeOK => DeclarationsAreExact
  BY EveryTextIsRead, Zenon DEF ConfigTypeOK
<1> QED  BY <1>1, TextsAreTexts, PTL
=============================================================================
