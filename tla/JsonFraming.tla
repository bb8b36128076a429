----------------------------- MODULE JsonFraming -----------------------------
(***************************************************************************)
(* The framing of HttpEventStream._runOnce: SST's /stream is one JSON      *)
(* object after another without delimiters, in network chunks that break   *)
(* anywhere.  The scanner keeps a buffer, a position and a brace depth     *)
(* over the chunks and cuts the buffer after each top-level object.        *)
(* Characters are told apart only as far as the scanner does.              *)
(***************************************************************************)
EXTENDS Naturals, Sequences

CONSTANTS
  Objects,   \* the objects the server may send, as sequences of characters
  Gaps,      \* what may stand between two of them
  MaxSent,   \* bound: objects sent over one connection
  MaxBytes   \* MAX_LINE_BYTES

\* "{" stands for either opening bracket, "}" for either closing one, "e" for
\* the backslash, "a" for any other character.
Characters == {"{", "}", "q", "e", "a"}

\* JSON as far as brackets and strings go: what a character makes of the depth,
\* the string and the escape it stands in.
Lexical == [depth : Nat, inString : BOOLEAN, escaped : BOOLEAN]
Outside == [depth |-> 0, inString |-> FALSE, escaped |-> FALSE]
After(l, ch) ==
  CASE l.escaped -> [l EXCEPT !.escaped = FALSE]
    [] ~l.escaped /\ ch = "q" -> [l EXCEPT !.inString = ~@]
    [] ~l.escaped /\ ch = "e" /\ l.inString -> [l EXCEPT !.escaped = TRUE]
    [] ~l.escaped /\ ch = "{" /\ ~l.inString -> [l EXCEPT !.depth = @ + 1]
    [] ~l.escaped /\ ch = "}" /\ ~l.inString -> [l EXCEPT !.depth = @ - 1]
    [] OTHER -> l
Lexed(o) ==
  LET at[i \in 0..Len(o)] == IF i = 0 THEN Outside ELSE After(at[i - 1], o[i]) IN at

\* One object: its first bracket is closed by its last character, not earlier.
IsObject(o) ==
  /\ Len(o) > 0 /\ o[1] = "{" /\ Lexed(o)[Len(o)] = Outside
  /\ \A i \in 1..(Len(o) - 1) : Lexed(o)[i] \in Lexical /\ Lexed(o)[i].depth > 0

\* SST serialises JSON objects, with white space between them at most.
ASSUME ObjectsAssumption ==
  /\ Objects \subseteq Seq(Characters) /\ \A o \in Objects : IsObject(o)
  /\ Gaps \subseteq Seq({"a"})

VARIABLES
  wire,     \* bytes sent and not yet read
  sent,     \* the objects sent, each with the number of the byte it ends at
  scan,     \* the locals of _runOnce
  got,      \* what was handed to _handleObject
  broken    \* the buffer exceeded its bound and _runOnce threw

vars == <<wire, sent, scan, got, broken>>

\* objectStart counts from 1 here; 0 is the code's -1.
Scanner == [buf |-> <<>>, from |-> 0, depth |-> 0, start |-> 0,
            inString |-> FALSE, escaped |-> FALSE, found |-> <<>>]

Init ==
  /\ wire = <<>> /\ sent = <<>> /\ got = <<>>
  /\ scan = Scanner
  /\ broken = FALSE

-----------------------------------------------------------------------------
Char(s) == s.buf[s.from + 1]
Skip(s) == [s EXCEPT !.from = @ + 1]

Open(s) == [Skip(s) EXCEPT !.depth = @ + 1, !.start = IF s.depth = 0 THEN s.from + 1 ELSE @]

\* The object is complete: cut it off and start over in the rest.
Cut(s) ==
  [s EXCEPT !.found = Append(@, SubSeq(s.buf, s.start, s.from + 1)),
            !.buf = SubSeq(@, s.from + 2, Len(@)),
            !.from = 0, !.depth = 0, !.start = 0]

\* (A closing bracket too many would leave the depth below 0 for good.)
Close(s) == IF s.depth = 1 /\ s.start # 0 THEN Cut(s) ELSE [Skip(s) EXCEPT !.depth = @ - 1]

\* Mutant: a backslash is a character like any other.
StepUnescaped(s) ==
  CASE s.inString -> [Skip(s) EXCEPT !.inString = (Char(s) # "q")]
    [] ~s.inString /\ Char(s) = "q" -> [Skip(s) EXCEPT !.inString = TRUE]
    [] ~s.inString /\ Char(s) = "{" -> Open(s)
    [] ~s.inString /\ Char(s) = "}" -> Close(s)
    [] OTHER -> Skip(s)

\* One character of the for loop.
Step(s) ==
  CASE s.escaped -> [Skip(s) EXCEPT !.escaped = FALSE]
    [] ~s.escaped /\ s.inString ->
         [Skip(s) EXCEPT !.escaped = (Char(s) = "e"), !.inString = (Char(s) # "q")]
    [] ~s.escaped /\ ~s.inString /\ Char(s) = "q" -> [Skip(s) EXCEPT !.inString = TRUE]
    [] ~s.escaped /\ ~s.inString /\ Char(s) = "{" -> Open(s)
    [] ~s.escaped /\ ~s.inString /\ Char(s) = "}" -> Close(s)
    [] OTHER -> Skip(s)

\* The for loop runs over what the chunk added to the buffer.
Scan(s) ==
  LET added == Len(s.buf) - s.from
      at[i \in 0..added] == IF i = 0 THEN s ELSE Step(at[i - 1])
  IN  at[added]

-----------------------------------------------------------------------------
Total == IF sent = <<>> THEN 0 ELSE sent[Len(sent)].end

Send(object, gap) ==
  /\ ~broken /\ Len(sent) < MaxSent
  /\ wire' = wire \o gap \o object
  /\ sent' = Append(sent, [object |-> object, end |-> Total + Len(gap) + Len(object)])
  /\ UNCHANGED <<scan, got, broken>>

\* reader.read() yields n bytes.
Read(n) ==
  LET after == Scan([scan EXCEPT !.buf = @ \o SubSeq(wire, 1, n)])
  IN /\ ~broken
     /\ wire' = SubSeq(wire, n + 1, Len(wire))
     /\ scan' = [after EXCEPT !.found = <<>>]
     /\ got' = got \o after.found
     /\ broken' = (Len(after.buf) > MaxBytes)
     /\ UNCHANGED sent

Next ==
  \/ \E object \in Objects, gap \in Gaps : Send(object, gap)
  \/ \E n \in 1..Len(wire) : Read(n)

Spec == Init /\ [][Next]_vars

-----------------------------------------------------------------------------
\* Wherever the chunks break (in a string, after a backslash, between two
\* objects or in the middle of three), what has been dispatched is exactly the
\* objects that have been read to their last byte, unaltered and in order.
FramingIsExact ==
  LET read == Total - Len(wire) IN
  /\ Len(got) <= Len(sent)
  /\ \A i \in 1..Len(sent) : sent[i].end <= read <=> i <= Len(got)
  /\ \A i \in 1..Len(got) : got[i] = sent[i].object
=============================================================================
