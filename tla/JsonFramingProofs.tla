------------------------- MODULE JsonFramingProofs -------------------------
(* JsonFraming cuts any objects out of any chunks. *)
EXTENDS JsonFraming, SequenceTheorems, WellFoundedInduction, TLAPS

\* Every set of naturals has a least element.
LEMMA LeastNatural ==
  ASSUME NEW T, T \subseteq Nat, T # {}
  PROVE  \E n \in T : \A m \in T : n <= m
<1>1. PICK n \in T : \A m \in T : ~(<<m, n>> \in OpToRel(<, Nat))
  BY WFMin, NatLessThanWellFounded, Zenon
<1>2. \A m \in T : ~(m < n)
  BY <1>1, Zenon DEF OpToRel
<1>3. \A m \in T : n <= m
  BY <1>2, SMT
<1> QED  BY <1>3

\* Steps(s, n, h): h lists the states a scan from s goes through.
Steps(s, n, h) == h = [i \in 0..n |-> IF i = 0 THEN s ELSE Step(h[i - 1])]

LEMMA StepsExist ==
  ASSUME NEW s, NEW n \in Nat
  PROVE  \E h : Steps(s, n, h)
<1> DEFINE Missing == {m \in Nat : ~\E h : Steps(s, m, h)}
<1>1. ASSUME NEW m \in Nat, NEW h, Steps(s, m, h)
      PROVE  \E g : Steps(s, m + 1, g)
  <2> DEFINE g == [i \in 0..(m + 1) |-> IF i <= m THEN h[i] ELSE Step(h[m])]
  <2>1. \A i \in 0..(m + 1) : g[i] = IF i = 0 THEN s ELSE Step(g[i - 1])
    <3> SUFFICES ASSUME NEW i \in 0..(m + 1)
                 PROVE  g[i] = IF i = 0 THEN s ELSE Step(g[i - 1])
      OBVIOUS
    <3>1. CASE i = 0
      BY <1>1, <3>1 DEF Steps
    <3>2. CASE i \in 1..m
      <4>1. i \in 0..m /\ i - 1 \in 0..m /\ i \in 0..(m+1) /\ i - 1 \in 0..(m+1) /\ i # 0
        BY <3>2, SMT
      <4>2. g[i] = h[i] /\ g[i - 1] = h[i - 1]
        BY <4>1, SMT
      <4>3. h[i] = Step(h[i - 1])
        BY <1>1, <4>1 DEF Steps
      <4> QED  BY <4>1, <4>2, <4>3
    <3>3. CASE i = m + 1
      <4>1. i # 0 /\ i - 1 = m /\ g[m] = h[m] /\ g[i] = Step(h[m])
        BY <3>3, SMT
      <4> QED  BY <4>1
    <3> QED  BY <3>1, <3>2, <3>3, SMT
  <2>2. Steps(s, m + 1, g)
    BY <2>1 DEF Steps
  <2> QED  BY <2>2
<1>2. \E h : Steps(s, 0, h)
  <2> DEFINE g == [i \in 0..0 |-> s]
  <2>1. \A i \in 0..0 : i = 0
    BY SMT
  <2>2. Steps(s, 0, g)
    BY <2>1 DEF Steps
  <2> QED  BY <2>2
<1>3. ASSUME Missing # {}
      PROVE  FALSE
  <2>1. PICK m \in Missing : \A k \in Missing : m <= k
    BY <1>3, LeastNatural
  <2>2. m # 0 /\ m \in Nat
    BY <1>2, <2>1
  <2>3. m - 1 \in Nat /\ ~(m <= m - 1) /\ (m - 1) + 1 = m
    BY <2>2, SMT
  <2>4. \E h : Steps(s, m - 1, h)
    BY <2>1, <2>3
  <2>5. \E h : Steps(s, m, h)
    BY <1>1, <2>3, <2>4
  <2> QED  BY <2>1, <2>5
<1> QED  BY <1>3

\* A scan is its last step.
LEMMA ScanIsSteps ==
  ASSUME NEW s, Len(s.buf) - s.from \in Nat
  PROVE  \E h : Steps(s, Len(s.buf) - s.from, h) /\ Scan(s) = h[Len(s.buf) - s.from]
<1> DEFINE added == Len(s.buf) - s.from
           at == CHOOSE h : Steps(s, added, h)
<1>1. Steps(s, added, at)
  BY StepsExist
<1>2. Scan(s) = at[added]
  BY DEF Scan, Steps
<1> QED  BY <1>1, <1>2

\* The same for the lexical states of an object.
LexSteps(o, n, h) == h = [i \in 0..n |-> IF i = 0 THEN Outside ELSE After(h[i - 1], o[i])]

LEMMA LexStepsExist ==
  ASSUME NEW o, NEW n \in Nat
  PROVE  \E h : LexSteps(o, n, h)
<1> DEFINE Missing == {m \in Nat : ~\E h : LexSteps(o, m, h)}
<1>1. ASSUME NEW m \in Nat, NEW h, LexSteps(o, m, h)
      PROVE  \E g : LexSteps(o, m + 1, g)
  <2> DEFINE g == [i \in 0..(m + 1) |-> IF i <= m THEN h[i] ELSE After(h[m], o[i])]
  <2>1. \A i \in 0..(m + 1) : g[i] = IF i = 0 THEN Outside ELSE After(g[i - 1], o[i])
    <3> SUFFICES ASSUME NEW i \in 0..(m + 1)
                 PROVE  g[i] = IF i = 0 THEN Outside ELSE After(g[i - 1], o[i])
      OBVIOUS
    <3>1. CASE i = 0
      BY <1>1, <3>1 DEF LexSteps
    <3>2. CASE i \in 1..m
      <4>1. i \in 0..m /\ i - 1 \in 0..m /\ i # 0 /\ g[i] = h[i] /\ g[i - 1] = h[i - 1]
        BY <3>2, SMT
      <4>2. h[i] = After(h[i - 1], o[i])
        BY <1>1, <4>1 DEF LexSteps
      <4> QED  BY <4>1, <4>2
    <3>3. CASE i = m + 1
      <4>1. i # 0 /\ i - 1 = m /\ g[m] = h[m] /\ g[i] = After(h[m], o[i])
        BY <3>3, SMT
      <4> QED  BY <4>1
    <3> QED  BY <3>1, <3>2, <3>3, SMT
  <2>2. LexSteps(o, m + 1, g)
    BY <2>1 DEF LexSteps
  <2> QED  BY <2>2
<1>2. \E h : LexSteps(o, 0, h)
  <2> DEFINE g == [i \in 0..0 |-> Outside]
  <2>1. \A i \in 0..0 : i = 0
    BY SMT
  <2>2. LexSteps(o, 0, g)
    BY <2>1 DEF LexSteps
  <2> QED  BY <2>2
<1>3. ASSUME Missing # {}
      PROVE  FALSE
  <2>1. PICK m \in Missing : \A k \in Missing : m <= k
    BY <1>3, LeastNatural
  <2>2. m # 0 /\ m \in Nat
    BY <1>2, <2>1
  <2>3. m - 1 \in Nat /\ ~(m <= m - 1) /\ (m - 1) + 1 = m
    BY <2>2, SMT
  <2>4. \E h : LexSteps(o, m - 1, h)
    BY <2>1, <2>3
  <2>5. \E h : LexSteps(o, m, h)
    BY <1>1, <2>3, <2>4
  <2> QED  BY <2>1, <2>5
<1> QED  BY <1>3

LEMMA LexedSteps ==
  ASSUME NEW o, Len(o) \in Nat
  PROVE  /\ Lexed(o)[0] = Outside
         /\ \A i \in 1..Len(o) : Lexed(o)[i] = After(Lexed(o)[i - 1], o[i])
<1> DEFINE at == CHOOSE h : LexSteps(o, Len(o), h)
<1>1. LexSteps(o, Len(o), at)
  BY LexStepsExist
<1>2. Lexed(o) = at
  BY DEF Lexed, LexSteps
<1> HIDE DEF at
<1>3. at[0] = Outside
  BY <1>1, SMT DEF LexSteps
<1>4. ASSUME NEW i \in 1..Len(o)
      PROVE  at[i] = After(at[i - 1], o[i])
  <2>1. i \in 0..Len(o) /\ i # 0
    BY SMT
  <2> QED  BY <1>1, <2>1 DEF LexSteps
<1> QED  BY <1>2, <1>3, <1>4

\* What an object is like from inside.
LEMMA ObjectIsLexed ==
  ASSUME NEW o \in Objects
  PROVE  /\ o \in Seq(Characters) /\ Len(o) \in Nat /\ Len(o) > 1 /\ o[1] = "{"
         /\ Lexed(o)[1] = [Outside EXCEPT !.depth = 1]
         /\ \A i \in 1..(Len(o) - 1) :
              /\ Lexed(o)[i] \in Lexical /\ Lexed(o)[i].depth > 0
              /\ Lexed(o)[i + 1] = After(Lexed(o)[i], o[i + 1])
         /\ Lexed(o)[Len(o)] = Outside
<1>1. o \in Seq(Characters) /\ IsObject(o)
  BY ObjectsAssumption
<1>c. o[1] = "{"
  BY <1>1, Zenon DEF IsObject
<1>2. Len(o) \in Nat /\ Len(o) > 0
  <2>1. Len(o) > 0
    BY <1>1, Zenon DEF IsObject
  <2>2. Len(o) \in Nat
    BY <1>1
  <2> QED  BY <2>1, <2>2
<1>l. \A i \in 1..Len(o) : Lexed(o)[i] = After(Lexed(o)[i - 1], o[i])
  BY <1>2, LexedSteps
<1>o. Lexed(o)[0] = Outside
  BY <1>2, LexedSteps
<1>3. Lexed(o)[1] = After(Outside, "{")
  <2>1. 1 \in 1..Len(o) /\ 1 - 1 = 0
    BY <1>2, SMT
  <2>2. Lexed(o)[1] = After(Lexed(o)[1 - 1], o[1])
    BY <1>l, <2>1
  <2> QED  BY <1>c, <1>o, <2>1, <2>2
<1>4. After(Outside, "{") = [Outside EXCEPT !.depth = 1]
  BY DEF After, Outside
<1>5. Len(o) # 1
  <2>1. [Outside EXCEPT !.depth = 1] # Outside
    BY DEF Outside
  <2> QED  BY <1>1, <1>3, <1>4, <2>1 DEF IsObject
<1>6. ASSUME NEW i \in 1..(Len(o) - 1)
      PROVE  Lexed(o)[i + 1] = After(Lexed(o)[i], o[i + 1])
  <2>1. i + 1 \in 1..Len(o) /\ (i + 1) - 1 = i
    BY <1>2, SMT
  <2>2. Lexed(o)[i + 1] = After(Lexed(o)[(i + 1) - 1], o[i + 1])
    BY <1>l, <2>1
  <2> QED  BY <2>1, <2>2
<1>7. Len(o) > 1
  <2>1. \A n \in Nat : n > 0 /\ n # 1 => n > 1
    BY SMT
  <2> QED  BY <1>2, <1>5, <2>1, Zenon
<1>8. /\ Lexed(o)[Len(o)] = Outside
      /\ \A i \in 1..(Len(o) - 1) : Lexed(o)[i] \in Lexical /\ Lexed(o)[i].depth > 0
  BY <1>1, Zenon DEF IsObject
<1>9. \A i \in 1..(Len(o) - 1) :
        /\ Lexed(o)[i] \in Lexical /\ Lexed(o)[i].depth > 0
        /\ Lexed(o)[i + 1] = After(Lexed(o)[i], o[i + 1])
  BY <1>6, <1>8, Zenon
<1> QED  BY <1>1, <1>c, <1>2, <1>3, <1>4, <1>7, <1>8, <1>9, Zenon

-----------------------------------------------------------------------------
\* The bytes of the connection: object k fills what comes after Begin(k), up
\* to End(k); the rest is gaps.
End(k) == IF k = 0 THEN 0 ELSE sent[k].end
Begin(k) == sent[k].end - Len(sent[k].object)
Fills(k, a) == Begin(k) < a /\ a <= sent[k].end
Stream(a) ==
  IF \E k \in 1..Len(sent) : Fills(k, a)
  THEN LET k == CHOOSE k \in 1..Len(sent) : Fills(k, a) IN sent[k].object[a - Begin(k)]
  ELSE "a"

SentInv ==
  /\ sent \in Seq([object : Objects, end : Nat])
  /\ \A k \in 1..Len(sent) : Begin(k) \in Nat
  /\ \A j, k \in 1..Len(sent) : j < k => sent[j].end <= Begin(k)

LEMMA SentFacts ==
  ASSUME SentInv, NEW k \in 1..Len(sent)
  PROVE  /\ sent[k].object \in Objects /\ sent[k].end \in Nat /\ Begin(k) \in Nat
         /\ Len(sent[k].object) \in Nat /\ Len(sent[k].object) > 1
         /\ sent[k].end = Begin(k) + Len(sent[k].object)
         /\ End(k) = sent[k].end
<1>1. sent[k] \in [object : Objects, end : Nat]
  BY ElementOfSeq, Zenon DEF SentInv
<1>2. sent[k].object \in Objects /\ sent[k].end \in Nat
  BY <1>1
<1>3. Len(sent[k].object) \in Nat /\ Len(sent[k].object) > 1
  BY <1>2, ObjectIsLexed, Zenon
<1>4. Begin(k) \in Nat
  BY DEF SentInv
<1>5. sent[k].end = Begin(k) + Len(sent[k].object)
  <2>1. \A e, l \in Nat : e = (e - l) + l
    BY SMT
  <2> QED  BY <1>2, <1>3, <2>1, Zenon DEF Begin
<1>6. End(k) = sent[k].end
  BY SMT DEF End
<1> QED  BY <1>2, <1>3, <1>4, <1>5, <1>6

LEMMA EndOrder ==
  ASSUME SentInv, NEW k \in 1..Len(sent)
  PROVE  /\ End(k - 1) \in Nat /\ End(k - 1) <= Begin(k)
         /\ \A j \in 0..(k - 1) : End(j) <= Begin(k)
         /\ Begin(k) < End(k)
<1>1. Begin(k) \in Nat /\ Len(sent[k].object) \in Nat /\ Len(sent[k].object) > 1
      /\ End(k) = Begin(k) + Len(sent[k].object)
  BY SentFacts
<1>2. Begin(k) < End(k)
  BY <1>1, SMT
<1>3. ASSUME NEW j \in 0..(k - 1)
      PROVE  End(j) \in Nat /\ End(j) <= Begin(k)
  <2>1. CASE j = 0
    BY <1>1, <2>1, SMT DEF End
  <2>2. CASE j # 0
    <3>1. j \in 1..Len(sent) /\ j < k
      BY <2>2, SMT DEF SentInv
    <3>2. sent[j].end <= Begin(k)
      BY <3>1, Zenon DEF SentInv
    <3>3. End(j) = sent[j].end /\ sent[j].end \in Nat
      BY <3>1, SentFacts, Zenon
    <3> QED  BY <3>2, <3>3
  <2> QED  BY <2>1, <2>2
<1>4. k - 1 \in 0..(k - 1)
  BY SMT
<1> QED  BY <1>2, <1>3, <1>4

LEMMA StreamInObject ==
  ASSUME SentInv, NEW k \in 1..Len(sent), NEW i \in 1..Len(sent[k].object)
  PROVE  Stream(Begin(k) + i) = sent[k].object[i]
<1>1. Begin(k) \in Nat /\ Len(sent[k].object) \in Nat
      /\ sent[k].end = Begin(k) + Len(sent[k].object)
  BY SentFacts
<1>2. PICK a : a = Begin(k) + i
  OBVIOUS
<1>3. a \in Nat /\ Begin(k) < a /\ a <= sent[k].end /\ a - Begin(k) = i
  <2>1. \A b, l \in Nat : \A n \in 1..l : b + n \in Nat /\ b < b + n /\ b + n <= b + l /\ (b + n) - b = n
    BY SMT
  <2>2. LET l == Len(sent[k].object)
        IN  Begin(k) + i \in Nat /\ Begin(k) < Begin(k) + i /\ Begin(k) + i <= Begin(k) + l
            /\ (Begin(k) + i) - Begin(k) = i
    BY <1>1, <2>1, Zenon
  <2> QED  BY <1>1, <1>2, <2>2, Zenon
<1>4. Fills(k, a)
  BY <1>3 DEF Fills
<1>5. ASSUME NEW j \in 1..Len(sent), Fills(j, a)
      PROVE  j = k
  <2>1. Begin(j) \in Nat /\ sent[j].end \in Nat /\ sent[k].end \in Nat
    BY SentFacts, Zenon
  <2>2. Begin(j) < a /\ a <= sent[j].end
    BY <1>5 DEF Fills
  <2>3. j < k => sent[j].end <= Begin(k)
    BY Zenon DEF SentInv
  <2>4. k < j => sent[k].end <= Begin(j)
    BY Zenon DEF SentInv
  <2>5. ~(j < k) /\ ~(k < j)
    BY <1>1, <1>3, <2>1, <2>2, <2>3, <2>4, SMT
  <2> QED  BY <2>5, SMT
<1>6. (CHOOSE j \in 1..Len(sent) : Fills(j, a)) = k
  BY <1>4, <1>5, Zenon
<1>7. Stream(a) = sent[k].object[a - Begin(k)]
  BY <1>4, <1>6, Zenon DEF Stream
<1> QED  BY <1>2, <1>3, <1>7

LEMMA StreamInGap ==
  ASSUME SentInv, NEW k \in 1..Len(sent), NEW a \in Nat, End(k - 1) < a, a <= Begin(k)
  PROVE  Stream(a) = "a"
<1>1. ASSUME NEW j \in 1..Len(sent), Fills(j, a)
      PROVE  FALSE
  <2>1. Begin(j) \in Nat /\ sent[j].end \in Nat /\ Begin(k) \in Nat /\ End(k - 1) \in Nat
    BY SentFacts, EndOrder, Zenon
  <2>2. Begin(j) < a /\ a <= sent[j].end
    BY <1>1 DEF Fills
  <2>3. CASE j = k
    BY <2>1, <2>2, <2>3, SMT
  <2>4. CASE k < j
    <3>1. End(k) <= Begin(j) /\ Begin(k) < End(k) /\ End(k) \in Nat
      <4>1. k \in 0..(j - 1)
        BY <2>4, SMT
      <4> QED  BY <4>1, EndOrder, SentFacts
    <3> QED  BY <2>1, <2>2, <3>1, SMT
  <2>5. CASE j < k
    <3>1. sent[j].end <= End(k - 1)
      <4>1. CASE j = k - 1
        BY <4>1, SentFacts, SMT
      <4>2. CASE j # k - 1
        <5>1. k - 1 \in 1..Len(sent) /\ j \in 0..((k - 1) - 1)
          BY <2>5, <4>2, SMT DEF SentInv
        <5>2. End(j) <= Begin(k - 1) /\ Begin(k - 1) < End(k - 1) /\ Begin(k - 1) \in Nat
          BY <5>1, EndOrder, SentFacts, Zenon
        <5>3. End(j) = sent[j].end
          BY SentFacts
        <5> QED  BY <2>1, <5>2, <5>3, SMT
      <4> QED  BY <4>1, <4>2
    <3> QED  BY <2>1, <2>2, <3>1, SMT
  <2> QED  BY <2>3, <2>4, <2>5, SMT
<1> QED  BY <1>1, Zenon DEF Stream

-----------------------------------------------------------------------------
\* The scanner stands k objects into the connection, of which it has rd bytes.
ScannerType ==
  [buf : Seq(Characters), from : Nat, depth : Nat, start : Nat,
   inString : BOOLEAN, escaped : BOOLEAN, found : Seq(Seq(Characters))]

LexOf(s) == [depth |-> s.depth, inString |-> s.inString, escaped |-> s.escaped]

\* The buffer begins where object k ended.
Buffered(s, rd, k) ==
  /\ k \in 0..Len(sent) /\ End(k) + Len(s.buf) = rd /\ s.from <= Len(s.buf)
  /\ \A i \in 1..Len(s.buf) : s.buf[i] = Stream(End(k) + i)

Between(s, k) ==
  /\ LexOf(s) = Outside /\ s.start = 0
  /\ k < Len(sent) => End(k) + s.from <= Begin(k + 1)

Within(s, k) ==
  /\ k < Len(sent) /\ Begin(k + 1) < End(k) + s.from /\ End(k) + s.from < End(k + 1)
  /\ s.start = (Begin(k + 1) + 1) - End(k)
  /\ LexOf(s) = Lexed(sent[k + 1].object)[(End(k) + s.from) - Begin(k + 1)]

\* It was k - Len(found) objects into the connection before this chunk.
Tracks(s, rd, k) ==
  /\ s \in ScannerType /\ Len(s.found) <= k
  /\ \A i \in 1..Len(s.found) : s.found[i] = sent[(k - Len(s.found)) + i].object
  /\ Buffered(s, rd, k)
  /\ Between(s, k) \/ Within(s, k)

\* The last bracket of an object.
Completes(s) == ~s.escaped /\ ~s.inString /\ Char(s) = "}" /\ s.depth = 1

LEMMA CharIsCharacter ==
  ASSUME NEW s \in ScannerType, s.from < Len(s.buf)
  PROVE  Char(s) \in Characters
<1>1. s.buf \in Seq(Characters) /\ s.from \in Nat /\ Len(s.buf) \in Nat
  BY DEF ScannerType
<1>2. s.from + 1 \in 1..Len(s.buf)
  BY <1>1, SMT
<1> QED  BY <1>1, <1>2, ElementOfSeq, Zenon DEF Char

\* Inside an object the scanner reads it as JSON does, and keeps the rest.
LEMMA StepLexes ==
  ASSUME NEW s \in ScannerType, s.depth > 0, s.from < Len(s.buf), ~Completes(s)
  PROVE  /\ Step(s) \in ScannerType
         /\ Step(s).buf = s.buf /\ Step(s).from = s.from + 1
         /\ Step(s).start = s.start /\ Step(s).found = s.found
         /\ LexOf(Step(s)) = After(LexOf(s), Char(s))
<1>1. PICK ch \in Characters : ch = Char(s)
  BY CharIsCharacter
<1>2. s.from + 1 \in Nat /\ s.depth + 1 \in Nat /\ s.depth - 1 \in Nat /\ s.depth # 0
  BY DEF ScannerType
<1>3. CASE s.escaped
  <2>1. Step(s) = [[s EXCEPT !.from = @ + 1] EXCEPT !.escaped = FALSE]
    BY <1>3 DEF Step, Skip
  <2>2. After(LexOf(s), ch) = [LexOf(s) EXCEPT !.escaped = FALSE]
    BY <1>3 DEF After, LexOf
  <2> QED  BY <1>1, <1>2, <1>3, <2>1, <2>2 DEF ScannerType, LexOf
<1>4. CASE ~s.escaped /\ s.inString
  <2>0. Step(s) = [[s EXCEPT !.from = @ + 1] EXCEPT !.escaped = (ch = "e"), !.inString = (ch # "q")]
    BY <1>1, <1>4 DEF Step, Skip
  <2>1. CASE ch = "q"
    <3>1. (ch = "e") = FALSE /\ (ch # "q") = FALSE
      BY <2>1
    <3>2. Step(s) = [[s EXCEPT !.from = @ + 1] EXCEPT !.escaped = FALSE, !.inString = FALSE]
      BY <2>0, <3>1, Zenon
    <3>3. After(LexOf(s), ch) = [LexOf(s) EXCEPT !.inString = FALSE]
      BY <1>4, <2>1 DEF After, LexOf
    <3> QED  BY <1>1, <1>2, <1>4, <3>2, <3>3 DEF ScannerType, LexOf
  <2>2. CASE ch = "e"
    <3>1. (ch = "e") = TRUE /\ (ch # "q") = TRUE
      BY <2>2
    <3>2. Step(s) = [[s EXCEPT !.from = @ + 1] EXCEPT !.escaped = TRUE, !.inString = TRUE]
      BY <2>0, <3>1, Zenon
    <3>3. After(LexOf(s), ch) = [LexOf(s) EXCEPT !.escaped = TRUE]
      BY <1>4, <2>2 DEF After, LexOf
    <3> QED  BY <1>1, <1>2, <1>4, <3>2, <3>3 DEF ScannerType, LexOf
  <2>3. CASE ch \notin {"q", "e"}
    <3>1. (ch = "e") = FALSE /\ (ch # "q") = TRUE
      BY <2>3
    <3>2. Step(s) = [[s EXCEPT !.from = @ + 1] EXCEPT !.escaped = FALSE, !.inString = TRUE]
      BY <2>0, <3>1, Zenon
    <3>3. After(LexOf(s), ch) = LexOf(s)
      BY <1>4, <2>3 DEF After, LexOf
    <3> QED  BY <1>1, <1>2, <1>4, <3>2, <3>3 DEF ScannerType, LexOf
  <2> QED  BY <2>1, <2>2, <2>3
<1>5. CASE ~s.escaped /\ ~s.inString
  <2>1. CASE ch = "q"
    <3>1. Step(s) = [[s EXCEPT !.from = @ + 1] EXCEPT !.inString = TRUE]
      BY <1>1, <1>5, <2>1 DEF Step, Skip
    <3>2. After(LexOf(s), ch) = [LexOf(s) EXCEPT !.inString = TRUE]
      BY <1>1, <1>5, <2>1 DEF After, LexOf
    <3> QED  BY <1>1, <1>2, <3>1, <3>2 DEF ScannerType, LexOf
  <2>2. CASE ch = "{"
    <3>1. Step(s) = [[s EXCEPT !.from = @ + 1] EXCEPT !.depth = s.depth + 1, !.start = s.start]
      BY <1>1, <1>2, <1>5, <2>2 DEF Step, Open, Skip, ScannerType
    <3>2. After(LexOf(s), ch) = [LexOf(s) EXCEPT !.depth = s.depth + 1]
      BY <1>1, <1>5, <2>2 DEF After, LexOf
    <3> QED  BY <1>1, <1>2, <3>1, <3>2 DEF ScannerType, LexOf
  <2>3. CASE ch = "}"
    <3>1. s.depth # 1
      BY <1>1, <1>5, <2>3 DEF Completes
    <3>2. Step(s) = [[s EXCEPT !.from = @ + 1] EXCEPT !.depth = s.depth - 1]
      BY <1>1, <1>5, <2>3, <3>1 DEF Step, Close, Skip, ScannerType
    <3>3. After(LexOf(s), ch) = [LexOf(s) EXCEPT !.depth = s.depth - 1]
      BY <1>1, <1>5, <2>3 DEF After, LexOf
    <3> QED  BY <1>1, <1>2, <3>2, <3>3 DEF ScannerType, LexOf
  <2>4. CASE ch \in {"a", "e"}
    <3>1. Step(s) = [s EXCEPT !.from = @ + 1]
      BY <1>1, <1>5, <2>4 DEF Step, Skip
    <3>2. After(LexOf(s), ch) = LexOf(s)
      BY <1>1, <1>5, <2>4 DEF After, LexOf
    <3> QED  BY <1>1, <1>2, <3>1, <3>2 DEF ScannerType, LexOf
  <2> QED  BY <1>1, <2>1, <2>2, <2>3, <2>4 DEF Characters
<1> QED  BY <1>3, <1>4, <1>5 DEF ScannerType

LEMMA FirstOfObject ==
  ASSUME NEW e \in Nat, NEW b \in Nat, NEW f \in Nat, NEW l \in Nat, e + f = b, l > 1
  PROVE  /\ b < e + (f + 1) /\ e + (f + 1) < b + l
         /\ f + 1 = (b + 1) - e /\ (e + (f + 1)) - b = 1
  BY SMT

\* The fields of a scanner that goes on by one character.
Advanced(s, d, b) == [s EXCEPT !.from = s.from + 1, !.depth = d, !.start = b]

LEMMA Advances ==
  ASSUME NEW s \in ScannerType, NEW d \in Nat, NEW b \in Nat, NEW t, t = Advanced(s, d, b)
  PROVE  /\ t \in ScannerType /\ t.buf = s.buf /\ t.from = s.from + 1
         /\ t.found = s.found /\ t.start = b
         /\ LexOf(t) = [LexOf(s) EXCEPT !.depth = d]
<1>1. s.from + 1 \in Nat
  BY DEF ScannerType
<1>2. /\ t.buf = s.buf /\ t.from = s.from + 1 /\ t.found = s.found /\ t.start = b
      /\ t.depth = d /\ t.inString = s.inString /\ t.escaped = s.escaped
  BY DEF ScannerType, Advanced
<1>3. t \in ScannerType
  BY <1>1 DEF ScannerType, Advanced
<1>4. LexOf(t) = [LexOf(s) EXCEPT !.depth = d]
  BY <1>2 DEF LexOf
<1> QED  BY <1>2, <1>3, <1>4

\* The next character is one the server sent for the object the scanner is at.
LEMMA NextChar ==
  ASSUME SentInv, NEW s, NEW rd, NEW k, Tracks(s, rd, k), rd <= Total, s.from < Len(s.buf)
  PROVE  /\ k \in Nat /\ k + 1 \in 1..Len(sent) /\ (k + 1) - 1 = k
         /\ End(k) \in Nat /\ Begin(k + 1) \in Nat /\ End(k) <= Begin(k + 1)
         /\ End(k + 1) = Begin(k + 1) + Len(sent[k + 1].object)
         /\ s.from \in Nat /\ Len(s.buf) \in Nat
         /\ Char(s) = Stream((End(k) + s.from) + 1)
<1>1. Len(sent) \in Nat /\ k \in 0..Len(sent)
  BY DEF SentInv, Tracks, Buffered
<1>2. s.from \in Nat /\ Len(s.buf) \in Nat
  BY DEF Tracks, ScannerType
<1>3. End(k) \in Nat
  BY <1>1, SentFacts, SMT DEF End
<1>4. k # Len(sent)
  <2> SUFFICES ASSUME k = Len(sent) PROVE FALSE
    OBVIOUS
  <2>1. Total = End(k)
    BY <1>1, SMT DEF Total, End, SentInv
  <2> QED  BY <1>2, <1>3, <2>1, SMT DEF Tracks, Buffered
<1>5. k \in Nat /\ k + 1 \in 1..Len(sent) /\ (k + 1) - 1 = k
  BY <1>1, <1>4, SMT
<1>6. Begin(k + 1) \in Nat /\ End(k + 1) = Begin(k + 1) + Len(sent[k + 1].object)
  BY <1>5, SentFacts, Zenon
<1>7. End(k) <= Begin(k + 1)
  <2>1. End((k + 1) - 1) <= Begin(k + 1)
    BY <1>5, EndOrder, Zenon
  <2> QED  BY <1>5, <2>1, Zenon
<1>8. Char(s) = Stream((End(k) + s.from) + 1)
  <2>1. s.from + 1 \in 1..Len(s.buf) /\ End(k) + (s.from + 1) = (End(k) + s.from) + 1
    BY <1>2, <1>3, SMT
  <2>2. s.buf[s.from + 1] = Stream(End(k) + (s.from + 1))
    BY <2>1 DEF Tracks, Buffered
  <2> QED  BY <2>1, <2>2 DEF Char
<1> QED  BY <1>2, <1>3, <1>5, <1>6, <1>7, <1>8

\* One character on, and still before object k + 1 has ended.
LEMMA StillTracks ==
  ASSUME NEW s, NEW t, NEW rd, NEW k, Tracks(s, rd, k), s.from < Len(s.buf),
         t \in ScannerType, t.buf = s.buf, t.from = s.from + 1, t.found = s.found,
         Between(t, k) \/ Within(t, k)
  PROVE  /\ Tracks(t, rd, k)
         /\ Len(t.buf) - t.from = (Len(s.buf) - s.from) - 1
<1>1. s.from \in Nat /\ Len(s.buf) \in Nat
  BY DEF Tracks, ScannerType
<1>2. t.from <= Len(t.buf) /\ Len(t.buf) - t.from = (Len(s.buf) - s.from) - 1
  BY <1>1, SMT
<1> QED  BY <1>2 DEF Tracks, Buffered

LEMMA StepBetween ==
  ASSUME SentInv, NEW s, NEW rd, NEW k, Tracks(s, rd, k), rd <= Total, s.from < Len(s.buf),
         Between(s, k)
  PROVE  /\ Step(s).found = s.found /\ Tracks(Step(s), rd, k)
         /\ Len(Step(s).buf) - Step(s).from = (Len(s.buf) - s.from) - 1
<1> DEFINE pos == End(k) + s.from
<1>1. /\ k \in Nat /\ k + 1 \in 1..Len(sent) /\ (k + 1) - 1 = k
      /\ End(k) \in Nat /\ Begin(k + 1) \in Nat /\ End(k) <= Begin(k + 1)
      /\ End(k + 1) = Begin(k + 1) + Len(sent[k + 1].object)
      /\ s.from \in Nat /\ Char(s) = Stream(pos + 1)
  BY NextChar, Zenon
<1>2. s \in ScannerType /\ s.depth = 0 /\ ~s.inString /\ ~s.escaped /\ s.start = 0
  BY DEF Tracks, Between, LexOf, Outside, ScannerType
<1>n. s.from + 1 \in Nat /\ s.depth + 1 = 1
  BY <1>2 DEF ScannerType
<1>3. k < Len(sent) /\ pos <= Begin(k + 1)
  <2>1. k < Len(sent)
    BY <1>1, SMT DEF SentInv
  <2> QED  BY <2>1 DEF Between
<1>4. CASE pos < Begin(k + 1)
  <2>1. pos + 1 \in Nat /\ End(k) < pos + 1 /\ pos + 1 <= Begin(k + 1)
    BY <1>1, <1>4, SMT
  <2>2. Char(s) = "a"
    <3>1. End((k + 1) - 1) < pos + 1
      BY <1>1, <2>1, Zenon
    <3>2. Stream(pos + 1) = "a"
      BY <1>1, <2>1, <3>1, StreamInGap, Zenon
    <3> QED  BY <1>1, <3>2, Zenon
  <2>3. Step(s) = [s EXCEPT !.from = @ + 1]
    BY <1>2, <2>2 DEF Step, Skip
  <2>4. /\ Step(s) \in ScannerType /\ Step(s).buf = s.buf /\ Step(s).from = s.from + 1
        /\ Step(s).found = s.found /\ Step(s).start = 0 /\ LexOf(Step(s)) = LexOf(s)
    BY <1>2, <1>n, <2>3 DEF ScannerType, LexOf
  <2>5. End(k) + (s.from + 1) = pos + 1
    BY <1>1, SMT
  <2>6. Between(Step(s), k)
    BY <2>1, <2>4, <2>5 DEF Between
  <2> QED  BY <2>4, <2>6, StillTracks, Zenon
<1>5. CASE pos = Begin(k + 1)
  <2> DEFINE o == sent[k + 1].object
  <2>1. o \in Objects /\ Len(o) \in Nat /\ Len(o) > 1
    BY <1>1, SentFacts, Zenon
  <2>2. o[1] = "{" /\ Lexed(o)[1] = [Outside EXCEPT !.depth = 1]
    BY <2>1, ObjectIsLexed, Zenon
  <2> HIDE DEF o
  <2>3. 1 \in 1..Len(o)
    BY <2>1, SMT
  <2>4. Char(s) = "{"
    <3>1. Stream(Begin(k + 1) + 1) = o[1]
      BY <1>1, <2>3, StreamInObject, Zenon DEF o
    <3> QED  BY <1>1, <1>5, <2>2, <3>1, Zenon
  <2>5. Step(s) = [s EXCEPT !.from = s.from + 1, !.depth = 1, !.start = s.from + 1]
    BY <1>2, <1>n, <2>4 DEF Step, Open, Skip, ScannerType
  <2>6. /\ Step(s) \in ScannerType /\ Step(s).buf = s.buf /\ Step(s).from = s.from + 1
        /\ Step(s).found = s.found /\ Step(s).start = s.from + 1
        /\ LexOf(Step(s)) = [Outside EXCEPT !.depth = 1]
    <3>1. s.from + 1 \in Nat /\ 1 \in Nat
      BY <1>n
    <3>2. LexOf(s) = Outside
      BY DEF Between
    <3>3. PICK d \in Nat, b \in Nat : d = 1 /\ b = s.from + 1
      BY <3>1
    <3>4. Step(s) = Advanced(s, d, b)
      BY <2>5, <3>3, Zenon DEF Advanced
    <3>5. /\ Step(s) \in ScannerType /\ Step(s).buf = s.buf /\ Step(s).from = s.from + 1
          /\ Step(s).found = s.found /\ Step(s).start = b
          /\ LexOf(Step(s)) = [LexOf(s) EXCEPT !.depth = d]
      <4>1. s \in ScannerType
        BY <1>2
      <4> QED  BY <4>1, <3>4, Advances
    <3> QED  BY <3>2, <3>3, <3>5, Zenon
  <2>7. /\ Begin(k + 1) < End(k) + (s.from + 1) /\ End(k) + (s.from + 1) < End(k + 1)
        /\ s.from + 1 = (Begin(k + 1) + 1) - End(k)
        /\ (End(k) + (s.from + 1)) - Begin(k + 1) = 1
    <3>1. PICK l \in Nat : l = Len(sent[k + 1].object) /\ l > 1
      BY <2>1 DEF o
    <3>2. PICK e \in Nat, b \in Nat, f \in Nat :
            e = End(k) /\ b = Begin(k + 1) /\ f = s.from /\ e + f = b
      BY <1>1, <1>5
    <3>a. e + f = b /\ l > 1
      BY <3>1, <3>2
    <3>3. /\ b < e + (f + 1) /\ e + (f + 1) < b + l
          /\ f + 1 = (b + 1) - e /\ (e + (f + 1)) - b = 1
      BY <3>a, SMT
    <3> QED  BY <1>1, <3>1, <3>2, <3>3, Zenon
  <2>8. Within(Step(s), k)
    BY <1>3, <2>2, <2>6, <2>7, Zenon DEF Within, o
  <2> QED  BY <2>6, <2>8, StillTracks, Zenon
<1>6. pos \in Nat
  BY <1>1, SMT
<1> QED  BY <1>1, <1>3, <1>4, <1>5, <1>6, SMT

\* Only the last bracket leads out of an object.
LEMMA NotBeforeZero == \A n \in Nat : n + 1 # 0
  BY SMT

LEMMA LeavesObject ==
  ASSUME NEW l \in Lexical, l.depth > 0, NEW ch \in Characters, After(l, ch) = Outside
  PROVE  ~l.escaped /\ ~l.inString /\ ch = "}" /\ l.depth = 1
<1>1. l.depth \in Nat /\ l.depth # 0 /\ l.inString \in BOOLEAN /\ l.escaped \in BOOLEAN
  BY DEF Lexical
<1>2. After(l, ch).depth = 0 /\ After(l, ch).inString = FALSE
  BY DEF Outside
<1>3. ~l.escaped
  <2> SUFFICES ASSUME l.escaped PROVE FALSE
    OBVIOUS
  <2>1. After(l, ch).depth = l.depth
    BY DEF After, Lexical
  <2> QED  BY <1>1, <1>2, <2>1
<1>4. ch = "}"
  <2> SUFFICES ASSUME ch # "}" PROVE FALSE
    OBVIOUS
  <2>1. After(l, ch).depth = l.depth \/ After(l, ch).depth = l.depth + 1
    BY <1>3 DEF After, Lexical
  <2>2. l.depth = 0 \/ l.depth + 1 = 0
    BY <1>2, <2>1, Zenon
  <2> QED  BY <1>1, <2>2, NotBeforeZero, Zenon
<1>5. ~l.inString
  <2> SUFFICES ASSUME l.inString PROVE FALSE
    OBVIOUS
  <2>1. After(l, ch) = l
    BY <1>3, <1>4 DEF After
  <2> QED  BY <1>1, <1>2, <2>1
<1>6. After(l, ch).depth = l.depth - 1
  BY <1>3, <1>4, <1>5 DEF After, Lexical
<1>7. l.depth = 1
  BY <1>1, <1>2, <1>6, SMT
<1> QED  BY <1>3, <1>4, <1>5, <1>7

\* Where a scanner inside object k + 1 is, in the object.
LEMMA InsideObject ==
  ASSUME SentInv, NEW s, NEW rd, NEW k, Tracks(s, rd, k), rd <= Total, s.from < Len(s.buf),
         Within(s, k)
  PROVE  LET o == sent[k + 1].object
             i == (End(k) + s.from) - Begin(k + 1)
         IN  /\ o \in Objects /\ Len(o) \in Nat /\ i \in 1..(Len(o) - 1)
             /\ Char(s) = o[i + 1] /\ s.depth > 0
             /\ LexOf(s) = Lexed(o)[i] /\ LexOf(s) \in Lexical
             /\ Lexed(o)[i + 1] = After(LexOf(s), Char(s))
<1> DEFINE o == sent[k + 1].object
           i == (End(k) + s.from) - Begin(k + 1)
<1>1. /\ k \in Nat /\ k + 1 \in 1..Len(sent)
      /\ End(k) \in Nat /\ Begin(k + 1) \in Nat /\ End(k) <= Begin(k + 1)
      /\ End(k + 1) = Begin(k + 1) + Len(o)
      /\ s.from \in Nat /\ Char(s) = Stream((End(k) + s.from) + 1)
  BY NextChar, Zenon
<1>2. o \in Objects /\ Len(o) \in Nat /\ Len(o) > 1
  BY <1>1, SentFacts, Zenon
<1>3. LexOf(s) = Lexed(o)[i] /\ Begin(k + 1) < End(k) + s.from /\ End(k) + s.from < End(k + 1)
  BY Zenon DEF Within
<1> HIDE DEF o
<1>4. i \in 1..(Len(o) - 1) /\ i + 1 \in 1..Len(o) /\ (End(k) + s.from) + 1 = Begin(k + 1) + (i + 1)
  <2>1. PICK l \in Nat : l = Len(o)
    BY <1>2
  <2>2. PICK e \in Nat, b \in Nat, f \in Nat : e = End(k) /\ b = Begin(k + 1) /\ f = s.from
    BY <1>1
  <2>3. b < e + f /\ e + f < b + l
    BY <1>1, <1>3, <2>1, <2>2
  <2>4. /\ (e + f) - b \in 1..(l - 1) /\ ((e + f) - b) + 1 \in 1..l
        /\ (e + f) + 1 = b + (((e + f) - b) + 1)
    BY <2>3, SMT
  <2> QED  BY <2>1, <2>2, <2>4, Zenon
<1> HIDE DEF i
<1>5. Char(s) = o[i + 1]
  <2>1. Stream(Begin(k + 1) + (i + 1)) = o[i + 1]
    BY <1>1, <1>4, StreamInObject, Zenon DEF o
  <2> QED  BY <1>1, <1>4, <2>1, Zenon
<1>6. Lexed(o)[i] \in Lexical /\ Lexed(o)[i].depth > 0
      /\ Lexed(o)[i + 1] = After(Lexed(o)[i], o[i + 1])
  BY <1>2, <1>4, ObjectIsLexed, Zenon
<1>7. s.depth > 0
  <2>1. LexOf(s).depth = s.depth
    BY DEF LexOf
  <2> QED  BY <1>3, <1>6, <2>1, Zenon
<1>8. /\ o \in Objects /\ Len(o) \in Nat /\ i \in 1..(Len(o) - 1)
      /\ Char(s) = o[i + 1] /\ s.depth > 0
      /\ LexOf(s) = Lexed(o)[i] /\ LexOf(s) \in Lexical
      /\ Lexed(o)[i + 1] = After(LexOf(s), Char(s))
  BY <1>2, <1>3, <1>4, <1>5, <1>6, <1>7, Zenon
<1> QED  BY <1>8, Zenon DEF o, i

LEMMA StepWithin ==
  ASSUME SentInv, NEW s, NEW rd, NEW k, Tracks(s, rd, k), rd <= Total, s.from < Len(s.buf),
         Within(s, k), ~Completes(s)
  PROVE  /\ Step(s).found = s.found /\ Tracks(Step(s), rd, k)
         /\ Len(Step(s).buf) - Step(s).from = (Len(s.buf) - s.from) - 1
<1>1. PICK o, i : o = sent[k + 1].object /\ i = (End(k) + s.from) - Begin(k + 1)
  OBVIOUS
<1>2. /\ o \in Objects /\ Len(o) \in Nat /\ i \in 1..(Len(o) - 1)
      /\ Char(s) = o[i + 1] /\ s.depth > 0
      /\ LexOf(s) = Lexed(o)[i] /\ LexOf(s) \in Lexical
      /\ Lexed(o)[i + 1] = After(LexOf(s), Char(s))
  BY <1>1, InsideObject, Zenon
<1>3. /\ k \in Nat /\ k + 1 \in 1..Len(sent)
      /\ End(k) \in Nat /\ Begin(k + 1) \in Nat
      /\ End(k + 1) = Begin(k + 1) + Len(o)
      /\ s.from \in Nat
  BY <1>1, NextChar, Zenon
<1>4. s \in ScannerType
  BY Zenon DEF Tracks
<1>5. /\ Step(s) \in ScannerType /\ Step(s).buf = s.buf /\ Step(s).from = s.from + 1
      /\ Step(s).start = s.start /\ Step(s).found = s.found
      /\ LexOf(Step(s)) = After(LexOf(s), Char(s))
  BY <1>2, <1>4, StepLexes, Zenon
<1>6. i + 1 # Len(o)
  <2> SUFFICES ASSUME i + 1 = Len(o) PROVE FALSE
    OBVIOUS
  <2>1. After(LexOf(s), Char(s)) = Outside
    BY <1>2, ObjectIsLexed, Zenon
  <2>2. LexOf(s).depth = s.depth /\ LexOf(s).inString = s.inString /\ LexOf(s).escaped = s.escaped
    BY DEF LexOf
  <2>3. Char(s) \in Characters
    BY <1>4, CharIsCharacter, Zenon
  <2>4. ~LexOf(s).escaped /\ ~LexOf(s).inString /\ Char(s) = "}" /\ LexOf(s).depth = 1
    BY <1>2, <2>1, <2>2, <2>3, LeavesObject, Zenon
  <2> QED  BY <2>2, <2>4, Zenon DEF Completes
<1>7. /\ Begin(k + 1) < End(k) + (s.from + 1) /\ End(k) + (s.from + 1) < End(k + 1)
      /\ (End(k) + (s.from + 1)) - Begin(k + 1) = i + 1
  <2>1. PICK l \in Nat : l = Len(o)
    BY <1>2
  <2>2. PICK e \in Nat, b \in Nat, f \in Nat : e = End(k) /\ b = Begin(k + 1) /\ f = s.from
    BY <1>3
  <2>3. (e + f) - b \in 1..(l - 1) /\ ((e + f) - b) + 1 # l
    BY <1>1, <1>2, <1>6, <2>1, <2>2, Zenon
  <2>4. /\ b < e + (f + 1) /\ e + (f + 1) < b + l
        /\ (e + (f + 1)) - b = ((e + f) - b) + 1
    BY <2>3, SMT
  <2> QED  BY <1>1, <1>3, <2>1, <2>2, <2>4, Zenon
<1>8. k < Len(sent) /\ s.start = (Begin(k + 1) + 1) - End(k)
  BY Zenon DEF Within
<1>9. Within(Step(s), k)
  BY <1>1, <1>2, <1>5, <1>7, <1>8, Zenon DEF Within
<1> QED  BY <1>5, <1>9, StillTracks, Zenon

\* What the buffer holds from objectStart on is object k + 1.
LEMMA CutsTheObject ==
  ASSUME SentInv, NEW s, NEW rd, NEW k, Tracks(s, rd, k), rd <= Total, s.from < Len(s.buf),
         Within(s, k), Completes(s)
  PROVE  /\ SubSeq(s.buf, s.start, s.from + 1) = sent[k + 1].object
         /\ End(k) + (s.from + 1) = End(k + 1)
         /\ s.start # 0
<1>1. PICK o, i : o = sent[k + 1].object /\ i = (End(k) + s.from) - Begin(k + 1)
  OBVIOUS
<1>2. /\ o \in Objects /\ Len(o) \in Nat /\ i \in 1..(Len(o) - 1)
      /\ Char(s) = o[i + 1]
      /\ LexOf(s) = Lexed(o)[i]
      /\ Lexed(o)[i + 1] = After(LexOf(s), Char(s))
  BY <1>1, InsideObject, Zenon
<1>3. /\ k \in Nat /\ k + 1 \in 1..Len(sent)
      /\ End(k) \in Nat /\ Begin(k + 1) \in Nat /\ End(k) <= Begin(k + 1)
      /\ End(k + 1) = Begin(k + 1) + Len(o)
      /\ s.from \in Nat /\ Len(s.buf) \in Nat
  BY <1>1, NextChar, Zenon
<1>4. i + 1 = Len(o)
  <2> SUFFICES ASSUME i + 1 # Len(o) PROVE FALSE
    OBVIOUS
  <2>1. i + 1 \in 1..(Len(o) - 1)
    BY <1>2, SMT
  <2>2. Lexed(o)[i + 1].depth > 0
    BY <1>2, <2>1, ObjectIsLexed, Zenon
  <2>3. After(LexOf(s), Char(s)) = [LexOf(s) EXCEPT !.depth = 0]
    <3>1. s.escaped = FALSE /\ s.inString = FALSE /\ Char(s) = "}" /\ s.depth = 1
      <4>1. s.escaped \in BOOLEAN /\ s.inString \in BOOLEAN
        BY DEF Tracks, ScannerType
      <4> QED  BY <4>1, Zenon DEF Completes
    <3>2. PICK ch : ch = "}"
      OBVIOUS
    <3>3. After(LexOf(s), ch) = [LexOf(s) EXCEPT !.depth = s.depth - 1]
      BY <3>1, <3>2 DEF After, LexOf
    <3>4. s.depth - 1 = 0
      <4>1. 1 - 1 = 0
        BY SMT
      <4> QED  BY <3>1, <4>1, Zenon
    <3> QED  BY <3>1, <3>2, <3>3, <3>4, Zenon
  <2>4. After(LexOf(s), Char(s)).depth = 0
    BY <2>3 DEF LexOf
  <2>5. 0 > 0
    BY <1>2, <2>2, <2>4, Zenon
  <2> QED  BY <2>5, SMT
<1>5. s.start = (Begin(k + 1) + 1) - End(k)
  BY Zenon DEF Within
<1>6. /\ End(k) + (s.from + 1) = End(k + 1) /\ s.start \in Nat /\ s.start # 0
      /\ s.start <= s.from + 1 /\ ((s.from + 1) - s.start) + 1 = Len(o)
      /\ \A j \in 1..Len(o) : /\ (s.start + j) - 1 \in 1..Len(s.buf)
                              /\ End(k) + ((s.start + j) - 1) = Begin(k + 1) + j
  <2>1. PICK l \in Nat : l = Len(o)
    BY <1>2
  <2>2. PICK e \in Nat, b \in Nat, f \in Nat, m \in Nat :
          e = End(k) /\ b = Begin(k + 1) /\ f = s.from /\ m = Len(s.buf)
    BY <1>3
  <2>3. e <= b /\ ((e + f) - b) + 1 = l /\ f < m /\ l > 0
    <3>1. e <= b /\ ((e + f) - b) + 1 = l
      BY <1>1, <1>3, <1>4, <2>1, <2>2, Zenon
    <3>2. f < m
      BY <2>2, Zenon
    <3>3. (e + f) - b \in 1..(l - 1)
      BY <1>1, <1>2, <2>1, <2>2, Zenon
    <3>4. l > 0
      BY <3>3, SMT
    <3> QED  BY <3>1, <3>2, <3>4
  <2>4. PICK a : a = (b + 1) - e
    OBVIOUS
  <2>5. /\ e + (f + 1) = b + l /\ a \in Nat /\ a # 0
        /\ a <= f + 1 /\ ((f + 1) - a) + 1 = l
        /\ \A j \in 1..l : (a + j) - 1 \in 1..m /\ e + ((a + j) - 1) = b + j
    BY <2>3, <2>4, SMT
  <2>6. a = s.start
    BY <1>5, <2>2, <2>4, Zenon
  <2> QED  BY <1>3, <2>1, <2>2, <2>5, <2>6, Zenon
<1>7. s.buf \in Seq(Characters)
  BY DEF Tracks, ScannerType
<1>8. ASSUME NEW j \in 1..Len(o)
      PROVE  s.buf[(s.start + j) - 1] = o[j]
  <2>1. s.buf[(s.start + j) - 1] = Stream(End(k) + ((s.start + j) - 1))
    BY <1>6, Zenon DEF Tracks, Buffered
  <2>2. Stream(Begin(k + 1) + j) = o[j]
    BY <1>1, <1>3, StreamInObject, Zenon
  <2> QED  BY <1>6, <2>1, <2>2, Zenon
<1>9. SubSeq(s.buf, s.start, s.from + 1) = o
  <2>1. o \in Seq(Characters)
    BY <1>2, ObjectIsLexed, Zenon
  <2>2. PICK cut : cut = SubSeq(s.buf, s.start, s.from + 1)
    OBVIOUS
  <2>3. s.start \in 1..Len(s.buf) /\ s.from + 1 \in 1..Len(s.buf) /\ s.start <= s.from + 1
    <3>1. \A a, f, m \in Nat : a # 0 /\ a <= f + 1 /\ f < m => a \in 1..m /\ f + 1 \in 1..m
      BY SMT
    <3> QED  BY <1>3, <1>6, <3>1, Zenon
  <2>4. /\ cut \in Seq(Characters) /\ Len(cut) = Len(o)
        /\ \A j \in 1..Len(o) : cut[j] = s.buf[(s.start + j) - 1]
    <3>1. cut \in Seq(Characters) /\ Len(cut) = ((s.from + 1) - s.start) + 1
      BY <1>7, <2>2, <2>3, SubSeqProperties
    <3>2. \A j \in 1..Len(cut) : cut[j] = s.buf[(s.start + j) - 1]
      BY <1>7, <2>2, <2>3, SubSeqProperties
    <3> QED  BY <1>6, <3>1, <3>2, Zenon
  <2>5. \A j \in 1..Len(cut) : cut[j] = o[j]
    BY <1>8, <2>4, Zenon
  <2>6. cut = o
    BY <2>1, <2>4, <2>5, SeqEqual, Zenon
  <2> QED  BY <2>2, <2>6
<1> QED  BY <1>1, <1>6, <1>9, Zenon

LEMMA StepCuts ==
  ASSUME SentInv, NEW s, NEW rd, NEW k, Tracks(s, rd, k), rd <= Total, s.from < Len(s.buf),
         Within(s, k), Completes(s)
  PROVE  /\ Len(Step(s).found) = Len(s.found) + 1 /\ Tracks(Step(s), rd, k + 1)
         /\ Len(Step(s).buf) - Step(s).from = (Len(s.buf) - s.from) - 1
<1>1. PICK o, f, t : o = sent[k + 1].object /\ f = s.from + 1 /\ t = Step(s)
  OBVIOUS
<1>2. /\ SubSeq(s.buf, s.start, f) = o /\ End(k) + f = End(k + 1) /\ s.start # 0
  BY <1>1, CutsTheObject, Zenon
<1>3. /\ k \in Nat /\ k + 1 \in 1..Len(sent) /\ End(k) \in Nat
      /\ s.from \in Nat /\ Len(s.buf) \in Nat
  BY NextChar, Zenon
<1>4. s \in ScannerType
  BY Zenon DEF Tracks
<1>5. s.buf \in Seq(Characters) /\ s.found \in Seq(Seq(Characters)) /\ Len(s.found) \in Nat
  BY <1>4 DEF ScannerType
<1>6. o \in Seq(Characters)
  BY <1>1, <1>3, SentFacts, ObjectIsLexed, Zenon
<1>7. t = Cut(s)
  <2>1. ~s.escaped /\ ~s.inString /\ Char(s) = "}" /\ s.depth = 1
    BY Zenon DEF Completes
  <2> QED  BY <1>1, <1>2, <2>1 DEF Step, Close
<1>8. f \in Nat /\ f <= Len(s.buf) /\ s.from + 2 = f + 1
  <2>1. \A a, m \in Nat : a < m => a + 1 \in Nat /\ a + 1 <= m /\ a + 2 = (a + 1) + 1
    BY SMT
  <2> QED  BY <1>1, <1>3, <2>1, Zenon
<1>9. PICK rest : rest = SubSeq(s.buf, f + 1, Len(s.buf))
  OBVIOUS
<1>10. /\ rest \in Seq(Characters) /\ Len(rest) = Len(s.buf) - f
       /\ \A j \in 1..Len(rest) : rest[j] = s.buf[f + j] /\ f + j \in 1..Len(s.buf)
  <2>1. PICK b \in Seq(Characters), m \in Nat : b = s.buf /\ m = Len(b)
    BY <1>3, <1>5
  <2>2. /\ rest \in Seq(Characters)
        /\ Len(rest) = m - f
        /\ \A j \in 1..(m - f) : rest[j] = b[f + j] /\ f + j \in 1..m
    <3>1. f <= m
      BY <1>8, <2>1, Zenon
    <3>2. rest = SubSeq(b, f + 1, m)
      BY <1>9, <2>1, Zenon
    <3>3. \A i \in (f + 1)..m : b[i] \in Characters
      <4>1. \A i \in (f + 1)..m : i \in 1..m
        BY <1>8, SMT
      <4> QED  BY <2>1, <4>1, ElementOfSeq, Zenon
    <3>4. f + 1 \in Int /\ m \in Int
      BY <1>8
    <3>5. /\ rest \in Seq(Characters)
          /\ Len(rest) = IF f + 1 <= m THEN m - (f + 1) + 1 ELSE 0
          /\ \A j \in 1..(m - (f + 1) + 1) : rest[j] = b[(f + 1) + j - 1]
      <4>1. /\ SubSeq(b, f + 1, m) \in Seq(Characters)
            /\ Len(SubSeq(b, f + 1, m)) = IF f + 1 <= m THEN m - (f + 1) + 1 ELSE 0
            /\ \A j \in 1..(m - (f + 1) + 1) : SubSeq(b, f + 1, m)[j] = b[(f + 1) + j - 1]
        BY <3>3, <3>4, SubSeqProperties
      <4> QED  BY <3>2, <4>1, Zenon
    <3>6. /\ (IF f + 1 <= m THEN m - (f + 1) + 1 ELSE 0) = m - f
          /\ m - (f + 1) + 1 = m - f
          /\ \A j \in 1..(m - f) : (f + 1) + j - 1 = f + j /\ f + j \in 1..m
      BY <1>8, <3>1, SMT
    <3> QED  BY <3>5, <3>6, Zenon
  <2> QED  BY <2>1, <2>2, Zenon
<1>11. t = [s EXCEPT !.found = Append(s.found, o), !.buf = rest, !.from = 0, !.depth = 0, !.start = 0]
  BY <1>1, <1>2, <1>4, <1>7, <1>8, <1>9 DEF Cut, ScannerType
<1>12. PICK fd \in Seq(Seq(Characters)), n \in Nat :
         /\ fd = Append(s.found, o) /\ n = Len(s.found) /\ Len(fd) = n + 1
         /\ fd[n + 1] = o /\ \A i \in 1..n : fd[i] = s.found[i]
  <2>1. \A q \in Seq(Seq(Characters)) :
          /\ Append(q, o) \in Seq(Seq(Characters)) /\ Len(q) \in Nat
          /\ Len(Append(q, o)) = Len(q) + 1 /\ Append(q, o)[Len(q) + 1] = o
          /\ \A i \in 1..Len(q) : Append(q, o)[i] = q[i]
    BY <1>6, SMT
  <2> QED  BY <1>5, <2>1, Zenon
<1>13. /\ t \in ScannerType /\ t.found = fd /\ t.buf = rest /\ t.from = 0
       /\ t.depth = 0 /\ t.start = 0 /\ t.inString = s.inString /\ t.escaped = s.escaped
  BY <1>4, <1>10, <1>11, <1>12 DEF ScannerType
<1>14. LexOf(t) = Outside
  <2>1. s.escaped = FALSE /\ s.inString = FALSE
    <3>1. s.escaped \in BOOLEAN /\ s.inString \in BOOLEAN
      BY <1>4 DEF ScannerType
    <3> QED  BY <3>1, Zenon DEF Completes
  <2> QED  BY <1>13, <2>1, Zenon DEF LexOf, Outside
<1>15. Between(t, k + 1)
  <2>1. ASSUME k + 1 < Len(sent)
        PROVE  End(k + 1) + 0 <= Begin((k + 1) + 1)
    <3>1. (k + 1) + 1 \in 1..Len(sent) /\ ((k + 1) + 1) - 1 = k + 1
      BY <1>3, <2>1, SMT DEF SentInv
    <3>2. End(k + 1) \in Nat /\ End(k + 1) <= Begin((k + 1) + 1)
      BY <3>1, EndOrder, Zenon
    <3>3. \A x \in Nat : x + 0 = x
      BY SMT
    <3> QED  BY <3>2, <3>3, Zenon
  <2> QED  BY <1>13, <1>14, <2>1, Zenon DEF Between
<1>16. End(k + 1) \in Nat /\ End(k + 1) + Len(rest) = rd
       /\ \A j \in 1..Len(rest) : End(k) + (f + j) = End(k + 1) + j
  <2>1. End(k) + Len(s.buf) = rd
    BY Zenon DEF Tracks, Buffered
  <2>2. PICK e \in Nat, a \in Nat, m \in Nat : e = End(k) /\ a = f /\ m = Len(s.buf)
    BY <1>3, <1>8
  <2>3. a <= m
    BY <1>8, <2>2, Zenon
  <2>4. /\ e + a \in Nat /\ (e + a) + (m - a) = e + m
        /\ \A j \in 1..(m - a) : e + (a + j) = (e + a) + j
    BY <2>3, SMT
  <2>5. e + a = End(k + 1) /\ m - a = Len(rest) /\ e + m = rd
    BY <1>2, <1>10, <2>1, <2>2, Zenon
  <2> QED  BY <2>2, <2>4, <2>5, Zenon
<1>17. Buffered(t, rd, k + 1)
  <2>1. k + 1 \in 0..Len(sent) /\ 0 <= Len(rest)
    <3>1. Len(rest) \in Nat
      BY <1>10
    <3> QED  BY <1>3, <3>1, SMT DEF SentInv
  <2>2. ASSUME NEW j \in 1..Len(rest)
        PROVE  rest[j] = Stream(End(k + 1) + j)
    <3>1. rest[j] = s.buf[f + j] /\ f + j \in 1..Len(s.buf)
      BY <1>10, Zenon
    <3>2. s.buf[f + j] = Stream(End(k) + (f + j))
      BY <3>1, Zenon DEF Tracks, Buffered
    <3> QED  BY <1>16, <3>1, <3>2, Zenon
  <2> QED  BY <1>13, <1>16, <2>1, <2>2, Zenon DEF Buffered
<1>18. Len(s.found) <= k
       /\ \A i \in 1..Len(s.found) : s.found[i] = sent[(k - Len(s.found)) + i].object
  BY Zenon DEF Tracks
<1>19. Len(fd) <= k + 1
       /\ \A i \in 1..Len(fd) : fd[i] = sent[((k + 1) - Len(fd)) + i].object
  <2>1. n + 1 <= k + 1 /\ (k + 1) - (n + 1) = k - n /\ (k - n) + (n + 1) = k + 1
    <3>1. n <= k
      BY <1>12, <1>18, Zenon
    <3>2. \A c, d \in Nat : d <= c => d + 1 <= c + 1 /\ (c + 1) - (d + 1) = c - d /\ (c - d) + (d + 1) = c + 1
      BY SMT
    <3> QED  BY <1>3, <3>1, <3>2, Zenon
  <2>2. ASSUME NEW i \in 1..(n + 1)
        PROVE  fd[i] = sent[(k - n) + i].object
    <3>1. CASE i = n + 1
      BY <1>1, <1>12, <2>1, <3>1, Zenon
    <3>2. CASE i # n + 1
      <4>1. i \in 1..n
        BY <3>2, SMT
      <4> QED  BY <1>12, <1>18, <4>1, Zenon
    <3> QED  BY <3>1, <3>2
  <2>3. \A i \in 1..(n + 1) : fd[i] = sent[((k + 1) - (n + 1)) + i].object
    BY <2>1, <2>2, Zenon
  <2>4. PICK m : m = n + 1
    OBVIOUS
  <2>5. Len(fd) = m /\ m <= k + 1 /\ \A i \in 1..m : fd[i] = sent[((k + 1) - m) + i].object
    BY <1>12, <2>1, <2>3, <2>4, Zenon
  <2> QED  BY <2>5, Zenon
<1>20. Tracks(t, rd, k + 1)
  BY <1>13, <1>15, <1>17, <1>19, Zenon DEF Tracks
<1>21. Len(t.buf) - t.from = (Len(s.buf) - s.from) - 1
  <2>1. \A a, m \in Nat : (m - (a + 1)) - 0 = (m - a) - 1
    BY SMT
  <2> QED  BY <1>1, <1>3, <1>10, <1>13, <2>1, Zenon
<1> QED  BY <1>1, <1>12, <1>13, <1>20, <1>21, Zenon

\* A character leaves the scanner where JSON is, one object further at most.
LEMMA StepTracks ==
  ASSUME SentInv, NEW s, NEW rd, NEW k, Tracks(s, rd, k), rd <= Total, s.from < Len(s.buf)
  PROVE  \E j : /\ Tracks(Step(s), rd, j)
                /\ j - Len(Step(s).found) = k - Len(s.found)
                /\ Len(Step(s).buf) - Step(s).from = (Len(s.buf) - s.from) - 1
<1>1. CASE Between(s, k)
  BY <1>1, StepBetween, Zenon
<1>2. CASE Within(s, k) /\ ~Completes(s)
  BY <1>2, StepWithin, Zenon
<1>3. CASE Within(s, k) /\ Completes(s)
  <2>1. /\ Len(Step(s).found) = Len(s.found) + 1 /\ Tracks(Step(s), rd, k + 1)
        /\ Len(Step(s).buf) - Step(s).from = (Len(s.buf) - s.from) - 1
    BY <1>3, StepCuts, Zenon
  <2>2. \A a, n \in Nat : (a + 1) - (n + 1) = a - n
    BY SMT
  <2>3. k \in Nat /\ Len(s.found) \in Nat
    BY NextChar DEF Tracks, ScannerType
  <2>4. (k + 1) - (Len(s.found) + 1) = k - Len(s.found)
    BY <2>2, <2>3, Zenon
  <2>5. (k + 1) - Len(Step(s).found) = k - Len(s.found)
    BY <2>1, <2>4
  <2>6. Tracks(Step(s), rd, k + 1)
    BY <2>1
  <2>7. Len(Step(s).buf) - Step(s).from = (Len(s.buf) - s.from) - 1
    BY <2>1
  <2> QED  BY <2>5, <2>6, <2>7, Zenon
<1> QED  BY <1>1, <1>2, <1>3, Zenon DEF Tracks

LEMMA ScanTracks ==
  ASSUME SentInv, NEW s, NEW rd, NEW k, Tracks(s, rd, k), rd <= Total
  PROVE  \E j : /\ Tracks(Scan(s), rd, j) /\ j - Len(Scan(s).found) = k - Len(s.found)
                /\ Scan(s).from = Len(Scan(s).buf)
<1>1. PICK n \in Nat : n = Len(s.buf) - s.from
  <2>1. Len(s.buf) \in Nat /\ s.from \in Nat
    BY DEF Tracks, ScannerType
  <2>2. s.from <= Len(s.buf)
    BY Zenon DEF Tracks, Buffered
  <2>3. \A a, m \in Nat : a <= m => m - a \in Nat
    BY SMT
  <2> QED  BY <2>1, <2>2, <2>3, Zenon
<1>2. PICK h : Steps(s, n, h) /\ Scan(s) = h[n]
  BY <1>1, ScanIsSteps, Zenon
<1> DEFINE Reached(i, j) == /\ Tracks(h[i], rd, j) /\ j - Len(h[i].found) = k - Len(s.found)
                            /\ Len(h[i].buf) - h[i].from = n - i
           Missed == {i \in 0..n : ~\E j : Reached(i, j)}
<1>3. h[0] = s /\ \A i \in 1..n : h[i] = Step(h[i - 1])
  <2>1. 0 \in 0..n /\ \A i \in 1..n : i \in 0..n /\ i # 0
    BY SMT
  <2>2. \A i \in 0..n : h[i] = IF i = 0 THEN s ELSE Step(h[i - 1])
    BY <1>2, Zenon DEF Steps
  <2> QED  BY <2>1, <2>2, Zenon
<1>4. Reached(0, k)
  <2>1. n - 0 = n
    BY SMT
  <2> QED  BY <1>1, <1>3, <2>1, Zenon
<1>5. ASSUME NEW i \in 1..n, NEW j, Reached(i - 1, j)
      PROVE  \E m : Reached(i, m)
  <2>1. h[i - 1].from < Len(h[i - 1].buf)
    <3>1. h[i - 1].from \in Nat /\ Len(h[i - 1].buf) \in Nat
      BY <1>5 DEF Tracks, ScannerType
    <3>2. Len(h[i - 1].buf) - h[i - 1].from = n - (i - 1)
      BY <1>5, Zenon
    <3>3. n - (i - 1) > 0
      BY SMT
    <3>4. \A a, m \in Nat : \A d : d > 0 /\ m - a = d => a < m
      BY SMT
    <3> QED  BY <3>1, <3>2, <3>3, <3>4, Zenon
  <2>2. PICK m : /\ Tracks(Step(h[i - 1]), rd, m)
                 /\ m - Len(Step(h[i - 1]).found) = j - Len(h[i - 1].found)
                 /\ Len(Step(h[i - 1]).buf) - Step(h[i - 1]).from = (Len(h[i - 1].buf) - h[i - 1].from) - 1
    BY <1>5, <2>1, StepTracks, Zenon
  <2>3. (n - (i - 1)) - 1 = n - i
    BY SMT
  <2>4. h[i] = Step(h[i - 1])
    BY <1>3
  <2>5. Reached(i, m)
    BY <1>5, <2>2, <2>3, <2>4, Zenon
  <2> QED  BY <2>5
<1> HIDE DEF Reached
<1>6. ASSUME Missed # {}
      PROVE  FALSE
  <2>0. Missed \subseteq Nat
    BY SMT
  <2>1. PICK i \in Missed : \A m \in Missed : i <= m
    BY <1>6, <2>0, LeastNatural
  <2>2. i # 0 /\ i \in 0..n
    BY <1>4, <2>1
  <2>3. i \in 1..n /\ i - 1 \in 0..n /\ ~(i <= i - 1)
    BY <2>2, SMT
  <2>4. \E j : Reached(i - 1, j)
    BY <2>1, <2>3
  <2>5. \E j : Reached(i, j)
    BY <1>5, <2>3, <2>4
  <2> QED  BY <2>1, <2>5
<1>7. PICK j : Reached(n, j)
  <2>1. n \in 0..n
    BY SMT
  <2> QED  BY <1>6, <2>1
<1>8. Scan(s).from = Len(Scan(s).buf)
  <2>1. h[n].from \in Nat /\ Len(h[n].buf) \in Nat
    BY <1>7 DEF Tracks, ScannerType, Reached
  <2>2. Len(h[n].buf) - h[n].from = n - n
    BY <1>7, Zenon DEF Reached
  <2>3. \A a, m \in Nat : m - a = n - n => a = m
    BY SMT
  <2> QED  BY <1>2, <2>1, <2>2, <2>3, Zenon
<1> QED  BY <1>2, <1>7, <1>8, Zenon DEF Reached

-----------------------------------------------------------------------------
\* What is on the wire is what follows the bytes read, and the scanner is as
\* many objects into the connection as it has handed on.
ReadSoFar == Total - Len(wire)

FInv ==
  /\ SentInv
  /\ wire \in Seq(Characters) /\ Len(wire) <= Total
  /\ \A i \in 1..Len(wire) : wire[i] = Stream(ReadSoFar + i)
  /\ scan.found = <<>> /\ scan.from = Len(scan.buf)
  /\ got \in Seq(Seq(Characters))
  /\ \A i \in 1..Len(got) : got[i] = sent[i].object
  /\ Tracks(scan, ReadSoFar, Len(got))

Places ==
  \A k \in 1..Len(sent) :
    /\ \A i \in 1..Len(sent[k].object) : Stream(Begin(k) + i) = sent[k].object[i]
    /\ \A a \in Nat : End(k - 1) < a /\ a <= Begin(k) => Stream(a) = "a"

LEMMA StreamPlaces == SentInv => Places
  BY StreamInObject, StreamInGap, Zenon DEF Places

LEMMA StreamPlacesNext == SentInv' => Places'
  BY StreamPlaces, PTL

LEMMA TotalIsLastEnd ==
  ASSUME SentInv
  PROVE  /\ Len(sent) \in Nat /\ Total = End(Len(sent)) /\ Total \in Nat
         /\ \A k \in 1..Len(sent) : sent[k].end <= Total
<1>1. Len(sent) \in Nat
  BY DEF SentInv
<1>2. CASE Len(sent) = 0
  <2>1. sent = <<>> /\ 1..Len(sent) = {}
    BY <1>2, SMT DEF SentInv
  <2> QED  BY <1>2, <2>1 DEF Total, End
<1>3. CASE Len(sent) # 0
  <2>1. sent # <<>> /\ Len(sent) \in 1..Len(sent)
    BY <1>1, <1>3, SMT
  <2>2. Total = End(Len(sent)) /\ Total = sent[Len(sent)].end /\ Total \in Nat
    BY <1>3, <2>1, SentFacts, Zenon DEF Total
  <2>3. ASSUME NEW k \in 1..Len(sent)
        PROVE  sent[k].end <= Total
    <3>1. CASE k = Len(sent)
      BY <2>2, <3>1, SMT
    <3>2. CASE k # Len(sent)
      <4>1. k \in 0..(Len(sent) - 1)
        BY <1>1, <3>2, SMT
      <4>2. End(k) <= Begin(Len(sent)) /\ Begin(Len(sent)) < End(Len(sent))
        BY <2>1, <4>1, EndOrder, Zenon
      <4>3. End(k) = sent[k].end /\ sent[k].end \in Nat /\ Begin(Len(sent)) \in Nat
        BY <2>1, SentFacts, Zenon
      <4> QED  BY <2>2, <4>2, <4>3, SMT
    <3> QED  BY <3>1, <3>2
  <2> QED  BY <1>1, <2>2, <2>3
<1> QED  BY <1>2, <1>3

LEMMA InitFramed == Init => FInv
<1> SUFFICES ASSUME Init PROVE FInv
  OBVIOUS
<1>1. wire = <<>> /\ sent = <<>> /\ got = <<>> /\ scan = Scanner
  BY DEF Init
<1>2. Len(sent) = 0 /\ Len(wire) = 0 /\ Len(got) = 0 /\ 1..0 = {} /\ Total = 0 /\ ReadSoFar = 0
  <2>1. Len(<<>>) = 0 /\ 0 - 0 = 0 /\ 1..0 = {}
    BY SMT
  <2> QED  BY <1>1, <2>1, Zenon DEF Total, ReadSoFar
<1>3. SentInv
  BY <1>1, <1>2 DEF SentInv
<1>4. /\ scan \in ScannerType /\ scan.found = <<>> /\ scan.buf = <<>> /\ scan.from = 0
      /\ LexOf(scan) = Outside /\ scan.start = 0
  <2>1. <<>> \in Seq(Characters) /\ <<>> \in Seq(Seq(Characters))
    BY SMT
  <2> QED  BY <1>1, <2>1 DEF Scanner, ScannerType, LexOf, Outside
<1>5. Len(scan.buf) = 0 /\ Len(scan.found) = 0 /\ End(0) = 0
  BY <1>4 DEF End
<1>6. Buffered(scan, 0, 0)
  BY <1>2, <1>4, <1>5 DEF Buffered
<1>7. Between(scan, 0)
  BY <1>2, <1>4 DEF Between
<1>8. Tracks(scan, 0, 0)
  BY <1>2, <1>4, <1>5, <1>6, <1>7 DEF Tracks
<1> QED  BY <1>1, <1>2, <1>3, <1>4, <1>5, <1>8 DEF FInv

LEMMA FramedIsExact == FInv => FramingIsExact
<1> SUFFICES ASSUME FInv PROVE FramingIsExact
  OBVIOUS
<1>1. PICK k, rd : k = Len(got) /\ rd = ReadSoFar
  OBVIOUS
<1>2. SentInv /\ Tracks(scan, rd, k) /\ scan.from = Len(scan.buf)
  BY <1>1, Zenon DEF FInv
<1>3. k \in 0..Len(sent) /\ Len(sent) \in Nat /\ End(k) + Len(scan.buf) = rd
  BY <1>2, TotalIsLastEnd, Zenon DEF Tracks, Buffered
<1>4. PICK m \in Nat : m = Len(scan.buf)
  BY <1>2 DEF Tracks, ScannerType
<1>5. End(k) \in Nat
  BY <1>2, <1>3, SentFacts, SMT DEF End
<1>6. ASSUME NEW i \in 1..Len(sent), i <= k
      PROVE  sent[i].end <= rd
  <2>1. sent[i].end \in Nat /\ End(i) = sent[i].end
    BY <1>2, SentFacts, Zenon
  <2>2. End(i) <= End(k)
    <3>1. CASE i = k
      BY <2>1, <3>1, SMT
    <3>2. CASE i # k
      <4>1. k \in 1..Len(sent) /\ i \in 0..(k - 1)
        BY <1>3, <1>6, <3>2, SMT
      <4>2. End(i) <= Begin(k) /\ Begin(k) < End(k) /\ Begin(k) \in Nat
        BY <1>2, <4>1, EndOrder, SentFacts, Zenon
      <4> QED  BY <1>5, <2>1, <4>2, SMT
    <3> QED  BY <3>1, <3>2
  <2> QED  BY <1>3, <1>4, <1>5, <2>1, <2>2, SMT
<1>7. ASSUME NEW i \in 1..Len(sent), ~(i <= k)
      PROVE  ~(sent[i].end <= rd)
  <2>1. k \in Nat /\ k < Len(sent) /\ k + 1 \in 1..Len(sent) /\ (i = k + 1 \/ k + 1 \in 0..(i - 1))
    BY <1>3, <1>7, SMT
  <2>2. /\ Begin(k + 1) \in Nat /\ End(k + 1) \in Nat /\ Begin(k + 1) < End(k + 1)
        /\ End(i) = sent[i].end /\ sent[i].end \in Nat /\ Begin(i) \in Nat /\ Begin(i) < End(i)
    BY <1>2, <2>1, EndOrder, SentFacts, Zenon
  <2>3. rd < End(k + 1)
    <3>1. CASE Between(scan, k)
      <4>1. End(k) + scan.from <= Begin(k + 1)
        BY <2>1, <3>1, Zenon DEF Between
      <4>2. rd <= Begin(k + 1)
        BY <1>2, <1>3, <4>1, Zenon
      <4>3. rd \in Nat
        BY <1>3, <1>4, <1>5
      <4> QED  BY <2>2, <4>2, <4>3, SMT
    <3>2. CASE Within(scan, k)
      BY <1>2, <1>3, <3>2, Zenon DEF Within
    <3> QED  BY <1>2, <3>1, <3>2 DEF Tracks
  <2>4. End(k + 1) <= End(i)
    <3>1. CASE i = k + 1
      BY <2>2, <3>1, SMT
    <3>2. CASE k + 1 \in 0..(i - 1)
      <4>1. End(k + 1) <= Begin(i)
        BY <1>2, <3>2, EndOrder, Zenon
      <4> QED  BY <2>2, <4>1, SMT
    <3> QED  BY <2>1, <3>1, <3>2
  <2>5. rd \in Nat
    BY <1>3, <1>4, <1>5
  <2> QED  BY <2>2, <2>3, <2>4, <2>5, SMT
<1>8. k <= Len(sent)
  BY <1>3, SMT
<1>9. \A i \in 1..Len(got) : got[i] = sent[i].object
  BY Zenon DEF FInv
<1>10. \A i \in 1..Len(sent) : sent[i].end <= rd <=> i <= k
  BY <1>6, <1>7, Zenon
<1> QED  BY <1>1, <1>8, <1>9, <1>10, Zenon DEF FramingIsExact, ReadSoFar

\* The bytes that are out stay what they are when another object is sent.
LEMMA SendFramed ==
  ASSUME NEW object \in Objects, NEW gap \in Gaps, FInv, Send(object, gap)
  PROVE  FInv'
<1>0. PICK n \in Nat : n = Len(sent)
  <2>1. Len(sent) \in Nat
    BY TotalIsLastEnd, Zenon DEF FInv
  <2> QED  BY <2>1
<1>1. SentInv /\ n \in Nat /\ Total \in Nat /\ Total = End(n)
      /\ \A k \in 1..n : sent[k].end <= Total
  BY <1>0, TotalIsLastEnd, Zenon DEF FInv
<1>2. PICK g \in Nat, l \in Nat : g = Len(gap) /\ l = Len(object) /\ l > 1
  <2>1. gap \in Seq({"a"})
    BY ObjectsAssumption, Zenon
  <2>2. Len(gap) \in Nat
    BY <2>1
  <2> QED  BY <2>2, ObjectIsLexed, Zenon
<1>3. PICK T \in Nat : T = Total
  BY <1>1
<1>4. T + g + l \in Nat
  BY SMT
<1>5. PICK m : m = [object |-> object, end |-> T + g + l]
  OBVIOUS
<1>6. m \in [object : Objects, end : Nat] /\ m.object = object /\ m.end = T + g + l
  BY <1>4, <1>5
<1>7. sent' = Append(sent, m)
  BY <1>2, <1>3, <1>5, Zenon DEF Send
<1>8. /\ sent' \in Seq([object : Objects, end : Nat]) /\ Len(sent') = n + 1
      /\ sent'[n + 1] = m /\ \A k \in 1..n : sent'[k] = sent[k]
  <2>1. PICK q : q = sent
    OBVIOUS
  <2>2. q \in Seq([object : Objects, end : Nat]) /\ Len(q) = n
    BY <1>0, <1>1, <2>1, Zenon DEF SentInv
  <2>3. /\ Append(q, m) \in Seq([object : Objects, end : Nat])
        /\ Len(Append(q, m)) = Len(q) + 1 /\ Append(q, m)[Len(q) + 1] = m
        /\ \A k \in 1..Len(q) : Append(q, m)[k] = q[k]
    BY <1>6, <2>2, AppendProperties
  <2> QED  BY <1>7, <2>1, <2>2, <2>3, Zenon
<1>9. \A k \in 1..(n + 1) : k \in 1..n \/ k = n + 1
  BY <1>1, SMT
<1>10. n + 1 \in 1..(n + 1) /\ 1..n \subseteq 1..(n + 1)
  BY <1>1, SMT
<1>11. ASSUME NEW k \in 1..n
       PROVE  Begin(k)' = Begin(k) /\ End(k)' = End(k) /\ k # 0 /\ End(k) = sent[k].end
  <2>1. sent'[k] = sent[k]
    BY <1>8
  <2>2. k # 0
    BY SMT
  <2> QED  BY <2>1, <2>2, Zenon DEF Begin, End
<1>12. Begin(n + 1)' = T + g /\ End(n + 1)' = T + g + l /\ End(n)' = T
  <2>1. (T + g + l) - l = T + g /\ n + 1 # 0 /\ (n # 0 => n \in 1..n)
    BY <1>1, SMT
  <2>2. Begin(n + 1)' = T + g
    BY <1>2, <1>6, <1>8, <2>1 DEF Begin
  <2>3. End(n + 1)' = T + g + l
    BY <1>6, <1>8, <2>1, Zenon DEF End
  <2>4. End(n)' = T
    <3>1. CASE n = 0
      BY <1>1, <1>3, <3>1, Zenon DEF End
    <3>2. CASE n # 0
      BY <1>1, <1>3, <1>11, <2>1, <3>2, Zenon
    <3> QED  BY <3>1, <3>2
  <2> QED  BY <2>2, <2>3, <2>4
<1>13. SentInv'
  <2>1. ASSUME NEW k \in 1..(n + 1)
        PROVE  Begin(k)' \in Nat
    <3>1. CASE k \in 1..n
      BY <1>0, <1>1, <1>11, <3>1, Zenon DEF SentInv
    <3>2. CASE k = n + 1
      <4>1. T + g \in Nat
        BY SMT
      <4> QED  BY <1>12, <3>2, <4>1, Zenon
    <3> QED  BY <1>9, <3>1, <3>2
  <2>2. ASSUME NEW j \in 1..(n + 1), NEW k \in 1..(n + 1), j < k
        PROVE  sent'[j].end <= Begin(k)'
    <3>1. j \in 1..n
      BY <1>1, <2>2, SMT
    <3>2. sent'[j].end = sent[j].end /\ sent[j].end \in Nat
      BY <1>0, <1>1, <1>8, <3>1, SentFacts, Zenon
    <3>3. CASE k \in 1..n
      BY <1>0, <1>1, <1>11, <2>2, <3>1, <3>2, <3>3, Zenon DEF SentInv
    <3>4. CASE k = n + 1
      <4>1. sent[j].end <= T
        BY <1>1, <1>3, <3>1, Zenon
      <4>2. sent[j].end <= T + g
        BY <3>2, <4>1, SMT
      <4> QED  BY <1>12, <3>2, <3>4, <4>2, Zenon
    <3> QED  BY <1>9, <3>3, <3>4
  <2> QED  BY <1>8, <2>1, <2>2, Zenon DEF SentInv
<1>14. Places /\ Places'
  BY <1>1, <1>13, StreamPlaces, StreamPlacesNext, Zenon
<1>15. ASSUME NEW a \in Nat, a <= T
       PROVE  Stream(a)' = Stream(a)
  <2>1. ASSUME NEW k \in 1..n
        PROVE  Fills(k, a)' <=> Fills(k, a)
    <3>1. sent'[k] = sent[k]
      BY <1>8
    <3> QED  BY <1>11, <3>1, Zenon DEF Fills
  <2>2. ~Fills(n + 1, a)'
    <3>1. ~(T + g < a)
      BY <1>15, SMT
    <3> QED  BY <1>12, <3>1, Zenon DEF Fills
  <2>3. CASE \E k \in 1..n : Fills(k, a)
    <3>1. PICK k \in 1..n : Fills(k, a)
      BY <2>3
    <3>2. PICK i : i = a - Begin(k)
      OBVIOUS
    <3>3. /\ Begin(k) \in Nat /\ sent[k].end = Begin(k) + Len(sent[k].object)
          /\ Len(sent[k].object) \in Nat
      BY <1>0, <1>1, SentFacts, Zenon
    <3>4. i \in 1..Len(sent[k].object) /\ Begin(k) + i = a
      <4>1. \A b, x \in Nat : b < a /\ a <= b + x => a - b \in 1..x /\ b + (a - b) = a
        BY SMT
      <4>2. Begin(k) < a /\ a <= sent[k].end
        BY <3>1, Zenon DEF Fills
      <4> QED  BY <3>2, <3>3, <4>1, <4>2, Zenon
    <3>5. Stream(a) = sent[k].object[i]
      BY <1>0, <1>14, <3>4, Zenon DEF Places
    <3>6. sent'[k] = sent[k] /\ Begin(k)' = Begin(k) /\ k \in 1..Len(sent')
      BY <1>8, <1>10, <1>11, Zenon
    <3>7. Stream(a)' = sent'[k].object[i]
      BY <1>14, <3>4, <3>6, Zenon DEF Places
    <3> QED  BY <3>5, <3>6, <3>7, Zenon
  <2>4. CASE ~\E k \in 1..n : Fills(k, a)
    <3>1. Stream(a) = "a"
      BY <1>0, <2>4, Zenon DEF Stream
    <3>2. ~\E k \in 1..Len(sent') : Fills(k, a)'
      BY <1>8, <1>9, <2>1, <2>2, <2>4, Zenon
    <3>3. Stream(a)' = "a"
      BY <3>2, Zenon DEF Stream
    <3> QED  BY <3>1, <3>3
  <2> QED  BY <2>3, <2>4
<1>16. PICK w \in Nat, R \in Nat : w = Len(wire) /\ w <= T /\ R = T - w /\ ReadSoFar = R
  <2>1. Len(wire) \in Nat /\ Len(wire) <= T
    <3>1. wire \in Seq(Characters)
      BY Zenon DEF FInv
    <3> QED  BY <1>3, <3>1 DEF FInv
  <2>2. \A a \in Nat : a <= T => T - a \in Nat
    BY SMT
  <2> QED  BY <1>3, <2>1, <2>2, Zenon DEF ReadSoFar
<1>17. PICK wg \in Seq(Characters) :
         /\ wire' = wg \o object /\ Len(wg) = w + g
         /\ \A i \in 1..w : wg[i] = wire[i]
         /\ \A i \in (w + 1)..(w + g) : wg[i] = "a"
  <2>1. gap \in Seq({"a"}) /\ {"a"} \subseteq Characters
    BY ObjectsAssumption DEF Characters
  <2>2. gap \in Seq(Characters)
    BY <2>1
  <2>3. wire \in Seq(Characters)
    BY Zenon DEF FInv
  <2>4. \A p, q \in Seq(Characters) : /\ p \o q \in Seq(Characters)
          /\ Len(p \o q) = Len(p) + Len(q)
          /\ \A i \in 1..(Len(p) + Len(q)) : (p \o q)[i] = IF i <= Len(p) THEN p[i] ELSE q[i - Len(p)]
    BY ConcatProperties, Zenon
  <2>5. /\ wire \o gap \in Seq(Characters) /\ Len(wire \o gap) = w + g
        /\ \A i \in 1..(w + g) : (wire \o gap)[i] = IF i <= w THEN wire[i] ELSE gap[i - w]
    BY <1>2, <1>16, <2>2, <2>3, <2>4, Zenon
  <2>6. ASSUME NEW i \in 1..w
        PROVE  (wire \o gap)[i] = wire[i]
    <3>1. i \in 1..(w + g) /\ i <= w
      BY SMT
    <3> QED  BY <2>5, <3>1
  <2>7. ASSUME NEW i \in (w + 1)..(w + g)
        PROVE  (wire \o gap)[i] = "a"
    <3>1. i \in 1..(w + g) /\ ~(i <= w) /\ i - w \in 1..g
      BY SMT
    <3>2. gap[i - w] \in {"a"}
      BY <1>2, <2>1, <3>1, ElementOfSeq, Zenon
    <3> QED  BY <2>5, <3>1, <3>2
  <2>8. wire' = (wire \o gap) \o object
    BY DEF Send
  <2> QED  BY <2>5, <2>6, <2>7, <2>8, Zenon
<1>18. /\ wire' \in Seq(Characters) /\ Len(wire') = w + g + l
       /\ \A i \in 1..(w + g) : wire'[i] = wg[i]
       /\ \A i \in 1..l : wire'[w + g + i] = object[i]
  <2>1. object \in Seq(Characters)
    BY ObjectIsLexed, Zenon
  <2>2. /\ wg \o object \in Seq(Characters) /\ Len(wg \o object) = Len(wg) + Len(object)
        /\ \A i \in 1..(Len(wg) + Len(object)) :
             (wg \o object)[i] = IF i <= Len(wg) THEN wg[i] ELSE object[i - Len(wg)]
    BY <2>1, ConcatProperties, Zenon
  <2>3. ASSUME NEW i \in 1..(w + g)
        PROVE  wire'[i] = wg[i]
    <3>1. i \in 1..((w + g) + l) /\ i <= w + g
      BY SMT
    <3> QED  BY <1>2, <1>17, <2>2, <3>1, Zenon
  <2>4. ASSUME NEW i \in 1..l
        PROVE  wire'[w + g + i] = object[i]
    <3>1. w + g + i \in 1..((w + g) + l) /\ ~(w + g + i <= w + g) /\ (w + g + i) - (w + g) = i
      BY SMT
    <3> QED  BY <1>2, <1>17, <2>2, <3>1, Zenon
  <2> QED  BY <1>2, <1>17, <2>2, <2>3, <2>4, Zenon
<1>19. Total' = T + g + l /\ ReadSoFar' = R
  <2>1. Total' = T + g + l
    <3>1. Len(sent') # 0
      BY <1>1, <1>8, SMT
    <3>2. sent' # <<>>
      BY <3>1
    <3> QED  BY <1>6, <1>8, <3>2, Zenon DEF Total
  <2>2. (T + g + l) - (w + g + l) = T - w
    BY SMT
  <2> QED  BY <1>16, <1>18, <2>1, <2>2, Zenon DEF ReadSoFar
<1>20. ASSUME NEW i \in 1..Len(wire')
       PROVE  wire'[i] = Stream(R + i)'
  <2>1. CASE i \in 1..w
    <3>1. R + i \in Nat /\ R + i <= T /\ i \in 1..(w + g)
      BY <1>16, <2>1, SMT
    <3>2. wire[i] = Stream(R + i)
      BY <1>16, <2>1, Zenon DEF FInv
    <3>3. wire'[i] = wire[i]
      BY <1>17, <1>18, <2>1, <3>1, Zenon
    <3> QED  BY <1>15, <3>1, <3>2, <3>3, Zenon
  <2>2. CASE i \in (w + 1)..(w + g)
    <3>1. R + i \in Nat /\ T < R + i /\ R + i <= T + g /\ i \in 1..(w + g) /\ (n + 1) - 1 = n
      BY <1>1, <1>16, <2>2, SMT
    <3>2. Stream(R + i)' = "a"
      BY <1>8, <1>10, <1>12, <1>14, <3>1, Zenon DEF Places
    <3>3. wire'[i] = "a"
      BY <1>17, <1>18, <2>2, <3>1, Zenon
    <3> QED  BY <3>2, <3>3
  <2>3. CASE i \in (w + g + 1)..(w + g + l)
    <3>1. PICK j \in 1..l : i = w + g + j /\ R + i = (T + g) + j
      <4>1. i - (w + g) \in 1..l /\ i = w + g + (i - (w + g)) /\ R + i = (T + g) + (i - (w + g))
        BY <1>16, <2>3, SMT
      <4> QED  BY <4>1
    <3>2. Stream((T + g) + j)' = object[j]
      <4>1. n + 1 \in 1..Len(sent') /\ sent'[n + 1].object = object /\ Begin(n + 1)' = T + g
        BY <1>6, <1>8, <1>10, <1>12, Zenon
      <4>2. j \in 1..Len(sent'[n + 1].object)
        BY <1>2, <3>1, <4>1, Zenon
      <4>3. Stream(Begin(n + 1) + j)' = sent'[n + 1].object[j]
        BY <1>14, <4>1, <4>2, Zenon DEF Places
      <4> QED  BY <4>1, <4>3, Zenon
    <3>3. wire'[i] = object[j]
      BY <1>18, <3>1, Zenon
    <3> QED  BY <3>1, <3>2, <3>3, Zenon
  <2>4. i \in 1..(w + g + l)
    BY <1>18
  <2> QED  BY <2>1, <2>2, <2>3, <2>4, SMT
<1>21. scan' = scan /\ got' = got
  BY DEF Send
<1>22. PICK k : k = Len(got)
  OBVIOUS
<1>23. Tracks(scan, R, k) /\ k \in 0..n /\ End(k) \in Nat /\ End(k)' = End(k)
  <2>1. Tracks(scan, R, k) /\ k \in 0..n
    BY <1>0, <1>16, <1>22, Zenon DEF FInv, Tracks, Buffered
  <2>2. CASE k = 0
    BY <2>1, <2>2 DEF End
  <2>3. CASE k # 0
    <3>1. k \in 1..n
      BY <1>1, <2>1, <2>3, SMT
    <3> QED  BY <1>0, <1>1, <1>11, <2>1, <3>1, SentFacts, Zenon
  <2> QED  BY <2>1, <2>2, <2>3
<1>24. PICK b \in Nat, e \in Nat : b = Len(scan.buf) /\ e = End(k) /\ e + b = R
  <2>1. Len(scan.buf) \in Nat
    BY <1>23 DEF Tracks, ScannerType
  <2> QED  BY <1>23, <2>1, Zenon DEF Tracks, Buffered
<1>25. Buffered(scan, R, k)'
  <2>1. ASSUME NEW i \in 1..b
        PROVE  scan.buf[i] = Stream(e + i)'
    <3>1. e + i \in Nat /\ e + i <= T
      BY <1>16, <1>24, SMT
    <3>2. scan.buf[i] = Stream(e + i)
      BY <1>23, <1>24, Zenon DEF Tracks, Buffered
    <3> QED  BY <1>15, <3>1, <3>2, Zenon
  <2>2. k \in 0..Len(sent')
    BY <1>1, <1>8, <1>23, SMT
  <2> QED  BY <1>21, <1>23, <1>24, <2>1, <2>2, Zenon DEF Tracks, Buffered
<1>26. (Between(scan, k) \/ Within(scan, k))'
  <2>1. \A j \in 1..n : Begin(j)' = Begin(j) /\ End(j)' = End(j) /\ sent'[j] = sent[j]
    BY <1>8, <1>11, Zenon
  <2>2. k < n => k + 1 \in 1..n
    BY <1>1, <1>23, SMT
  <2>3. k < n + 1 /\ (~(k < n) => k = n)
    BY <1>1, <1>23, SMT
  <2>4. CASE Between(scan, k)
    <3>1. CASE k < n
      BY <1>0, <1>21, <1>23, <2>1, <2>2, <2>4, <3>1, Zenon DEF Between, LexOf
    <3>2. CASE k = n
      <4>1. End(k)' + scan.from <= Begin(k + 1)'
        <5>2. e + b <= T + g
          BY <1>16, <1>24, SMT
        <5>3. scan.from = b
          BY <1>24, Zenon DEF FInv
        <5> QED  BY <1>12, <1>23, <1>24, <3>2, <5>2, <5>3, Zenon
      <4> QED  BY <1>21, <2>4, <4>1, Zenon DEF Between, LexOf
    <3> QED  BY <2>3, <3>1, <3>2
  <2>5. CASE Within(scan, k)
    <3>1. k < n
      BY <1>0, <2>5, Zenon DEF Within
    <3>2. k < Len(sent')
      BY <1>8, <2>3, Zenon
    <3> QED  BY <1>21, <1>23, <2>1, <2>2, <2>5, <3>1, <3>2, Zenon DEF Within, LexOf
  <2> QED  BY <1>23, <2>4, <2>5 DEF Tracks
<1>27. \A i \in 1..k : got[i] = sent'[i].object
  <2>1. \A i \in 1..k : i \in 1..n
    BY <1>1, <1>23, SMT
  <2> QED  BY <1>8, <1>22, <2>1, Zenon DEF FInv
<1>28. Tracks(scan, R, k)'
  <2>1. scan.found = <<>>
    BY Zenon DEF FInv
  <2>2. Len(scan.found) = 0 /\ 1..0 = {}
    BY <2>1, SMT
  <2>3. scan \in ScannerType /\ Len(scan.found) <= k
    BY <1>23, Zenon DEF Tracks
  <2> QED  BY <1>21, <1>25, <1>26, <2>2, <2>3, Zenon DEF Tracks
<1>29. Len(wire') <= Total'
  <2>1. w + g + l <= T + g + l
    BY <1>16, SMT
  <2> QED  BY <1>18, <1>19, <2>1, Zenon
<1> QED  BY <1>13, <1>18, <1>19, <1>20, <1>21, <1>22, <1>27, <1>28, <1>29, Zenon DEF FInv

\* Nothing about the connection depends on what is read of it.
LEMMA SameStream ==
  ASSUME sent' = sent
  PROVE  /\ (SentInv' <=> SentInv) /\ Total' = Total
         /\ \A a : Stream(a)' = Stream(a)
         /\ \A s, rd, k : Tracks(s, rd, k)' <=> Tracks(s, rd, k)
<1>1. \A k : Begin(k)' = Begin(k) /\ End(k)' = End(k)
  BY Zenon DEF Begin, End
<1>2. \A k, a : Fills(k, a)' <=> Fills(k, a)
  BY <1>1, Zenon DEF Fills
<1>3. \A a : Stream(a)' = Stream(a)
  BY Zenon DEF Stream, Fills, Begin
<1>4. SentInv' <=> SentInv
  BY Zenon DEF SentInv, Begin
<1>5. \A s, rd, k : Buffered(s, rd, k)' <=> Buffered(s, rd, k)
  BY <1>1, <1>3, Zenon DEF Buffered
<1>6. \A s, k : /\ Between(s, k)' <=> Between(s, k)
                /\ Within(s, k)' <=> Within(s, k)
  BY <1>1, Zenon DEF Between, Within, LexOf
<1>7. \A s, rd, k : Tracks(s, rd, k)' <=> Tracks(s, rd, k)
  BY <1>5, <1>6, Zenon DEF Tracks
<1> QED  BY <1>3, <1>4, <1>7, Zenon DEF Total

LEMMA ReadFramed ==
  ASSUME NEW n \in 1..Len(wire), FInv, Read(n)
  PROVE  FInv'
<1>0. PICK k : k = Len(got)
  OBVIOUS
<1>1. PICK T \in Nat, w \in Nat : T = Total /\ w = Len(wire) /\ w <= T /\ k = Len(got)
  <2>1. wire \in Seq(Characters) /\ Len(wire) <= Total /\ Total \in Nat
    BY TotalIsLastEnd, Zenon DEF FInv
  <2>2. Len(wire) \in Nat
    BY <2>1
  <2> QED  BY <1>0, <2>1, <2>2, Zenon
<1>2. PICK R \in Nat : R = T - w /\ R = ReadSoFar
  <2>1. T - w \in Nat
    BY <1>1, SMT
  <2> QED  BY <1>1, <2>1, Zenon DEF ReadSoFar
<1>3. SentInv /\ Tracks(scan, R, k) /\ wire \in Seq(Characters)
      /\ scan.found = <<>> /\ scan.from = Len(scan.buf)
      /\ \A i \in 1..w : wire[i] = Stream(R + i)
  BY <1>1, <1>2, Zenon DEF FInv
<1>4. n \in Nat /\ 0 < n /\ n <= w /\ R + n \in Nat /\ R + n <= T /\ n + 1 \in Nat
  <2>1. n \in 1..w
    BY <1>1
  <2> QED  BY <1>2, <2>1, SMT
<1>5. PICK chunk \in Seq(Characters) :
        /\ chunk = SubSeq(wire, 1, n) /\ Len(chunk) = n
        /\ \A j \in 1..n : chunk[j] = Stream(R + j)
  <2>1. \A i \in 1..n : i \in 1..w
    BY <1>4, SMT
  <2>2. \A i \in 1..n : wire[i] \in Characters
    BY <1>1, <1>3, <2>1, ElementOfSeq, Zenon
  <2>3. 1 \in Int /\ n \in Int
    BY <1>4
  <2>4. /\ SubSeq(wire, 1, n) \in Seq(Characters)
        /\ Len(SubSeq(wire, 1, n)) = IF 1 <= n THEN n - 1 + 1 ELSE 0
        /\ \A i \in 1..(n - 1 + 1) : SubSeq(wire, 1, n)[i] = wire[1 + i - 1]
    BY <2>2, <2>3, SubSeqProperties
  <2>5. /\ (IF 1 <= n THEN n - 1 + 1 ELSE 0) = n /\ n - 1 + 1 = n
        /\ \A i \in 1..n : 1 + i - 1 = i
    BY <1>4, SMT
  <2>6. /\ SubSeq(wire, 1, n) \in Seq(Characters) /\ Len(SubSeq(wire, 1, n)) = n
        /\ \A i \in 1..n : SubSeq(wire, 1, n)[i] = wire[i]
    BY <2>4, <2>5, Zenon
  <2> QED  BY <1>3, <2>1, <2>6, Zenon
<1>6. PICK rest \in Seq(Characters) :
        /\ rest = SubSeq(wire, n + 1, Len(wire)) /\ Len(rest) = w - n
        /\ \A j \in 1..(w - n) : rest[j] = Stream((R + n) + j)
  <2>1. \A i \in (n + 1)..w : i \in 1..w
    BY <1>4, SMT
  <2>2. \A i \in (n + 1)..w : wire[i] \in Characters
    BY <1>1, <1>3, <2>1, ElementOfSeq, Zenon
  <2>3. n + 1 \in Int /\ w \in Int
    BY <1>4
  <2>4. /\ SubSeq(wire, n + 1, w) \in Seq(Characters)
        /\ Len(SubSeq(wire, n + 1, w)) = IF n + 1 <= w THEN w - (n + 1) + 1 ELSE 0
        /\ \A i \in 1..(w - (n + 1) + 1) : SubSeq(wire, n + 1, w)[i] = wire[(n + 1) + i - 1]
    BY <2>2, <2>3, SubSeqProperties
  <2>5. /\ (IF n + 1 <= w THEN w - (n + 1) + 1 ELSE 0) = w - n /\ w - (n + 1) + 1 = w - n
        /\ \A i \in 1..(w - n) : (n + 1) + i - 1 = n + i /\ n + i \in 1..w /\ R + (n + i) = (R + n) + i
    BY <1>4, SMT
  <2>6. /\ SubSeq(wire, n + 1, w) \in Seq(Characters) /\ Len(SubSeq(wire, n + 1, w)) = w - n
        /\ \A i \in 1..(w - n) : SubSeq(wire, n + 1, w)[i] = wire[n + i]
    BY <2>4, <2>5, Zenon
  <2>7. \A i \in 1..(w - n) : wire[n + i] = Stream((R + n) + i)
    BY <1>3, <2>5, Zenon
  <2> QED  BY <1>1, <2>6, <2>7, Zenon
<1>7. PICK s, t : /\ s = [scan EXCEPT !.buf = scan.buf \o chunk] /\ t = Scan(s)
                  /\ wire' = rest /\ scan' = [t EXCEPT !.found = <<>>]
                  /\ got' = got \o t.found /\ sent' = sent
  BY <1>5, <1>6, Zenon DEF Read
<1>8. scan \in ScannerType
  BY <1>3, Zenon DEF Tracks
<1>e. PICK e : e = End(k)
  OBVIOUS
<1>9. PICK b \in Nat : b = Len(scan.buf) /\ e = End(k) /\ scan.buf \in Seq(Characters)
  <2>1. scan.buf \in Seq(Characters) /\ Len(scan.buf) \in Nat
    BY <1>8 DEF ScannerType
  <2> QED  BY <1>e, <2>1
<1>b. e + b = R /\ \A i \in 1..b : scan.buf[i] = Stream(e + i)
  BY <1>3, <1>9, Zenon DEF Tracks, Buffered
<1>10. k \in 0..Len(sent) /\ e \in Nat /\ Len(sent) \in Nat /\ k \in Nat
  <2>1. k \in 0..Len(sent) /\ Len(sent) \in Nat
    BY <1>3, TotalIsLastEnd, Zenon DEF Tracks, Buffered
  <2>2. CASE k = 0
    BY <1>9, <2>1, <2>2 DEF End
  <2>3. CASE k # 0
    <3>1. k \in 1..Len(sent)
      BY <2>1, <2>3, SMT
    <3>2. SentInv
      BY <1>3
    <3>3. End(k) = sent[k].end /\ sent[k].end \in Nat
      BY <3>1, <3>2, SentFacts, Zenon
    <3> QED  BY <1>9, <2>1, <3>3
  <2> QED  BY <2>2, <2>3
<1>11. /\ s \in ScannerType /\ Len(s.buf) = b + n /\ s.from = b /\ s.found = <<>>
       /\ \A i \in 1..(b + n) : s.buf[i] = IF i <= b THEN scan.buf[i] ELSE chunk[i - b]
       /\ s.start = scan.start /\ LexOf(s) = LexOf(scan)
  <2>1. PICK q \in Seq(Characters) : q = scan.buf \o chunk
    BY <1>5, <1>9, ConcatProperties, Zenon
  <2>2. /\ Len(q) = b + n
        /\ \A i \in 1..(b + n) : q[i] = IF i <= b THEN scan.buf[i] ELSE chunk[i - b]
    <3>1. \A p, r \in Seq(Characters) : /\ Len(p \o r) = Len(p) + Len(r)
            /\ \A i \in 1..(Len(p) + Len(r)) : (p \o r)[i] = IF i <= Len(p) THEN p[i] ELSE r[i - Len(p)]
      BY ConcatProperties, Zenon
    <3>2. PICK p \in Seq(Characters) : p = scan.buf
      BY <1>9
    <3>3. /\ Len(p \o chunk) = b + n
          /\ \A i \in 1..(b + n) : (p \o chunk)[i] = IF i <= b THEN p[i] ELSE chunk[i - b]
      <4>1. Len(p) = b /\ Len(chunk) = n
        BY <1>5, <1>9, <3>2, Zenon
      <4>2. /\ Len(p \o chunk) = Len(p) + Len(chunk)
            /\ \A i \in 1..(Len(p) + Len(chunk)) :
                 (p \o chunk)[i] = IF i <= Len(p) THEN p[i] ELSE chunk[i - Len(p)]
        BY <3>1, Zenon
      <4> QED  BY <4>1, <4>2, Zenon
    <3> QED  BY <2>1, <3>2, <3>3, Zenon
  <2>3. s = [scan EXCEPT !.buf = q]
    BY <1>7, <2>1, Zenon
  <2>4. /\ s \in ScannerType /\ s.buf = q /\ s.from = scan.from /\ s.found = scan.found
        /\ s.start = scan.start /\ s.depth = scan.depth
        /\ s.inString = scan.inString /\ s.escaped = scan.escaped
    BY <1>8, <2>3 DEF ScannerType
  <2>5. LexOf(s) = LexOf(scan)
    BY <2>4, Zenon DEF LexOf
  <2> QED  BY <1>3, <1>9, <2>2, <2>4, <2>5, Zenon
<1>12. Tracks(s, R + n, k)
  <2>1. ASSUME NEW i \in 1..(b + n)
        PROVE  s.buf[i] = Stream(e + i)
    <3>1. CASE i <= b
      <4>1. i \in 1..b
        BY <3>1, SMT
      <4> QED  BY <1>b, <1>11, <3>1, <4>1, Zenon
    <3>2. CASE ~(i <= b)
      <4>1. PICK j : j = i - b
        OBVIOUS
      <4>2. j \in 1..n
        BY <1>4, <3>2, <4>1, SMT
      <4>3. R + j = e + i
        <5>1. (e + b) + (i - b) = e + i
          BY <1>10, SMT
        <5> QED  BY <1>b, <4>1, <5>1, Zenon
      <4>4. chunk[j] = Stream(R + j)
        BY <1>5, <4>2, Zenon
      <4> QED  BY <1>11, <3>2, <4>1, <4>3, <4>4, Zenon
    <3> QED  BY <3>1, <3>2
  <2>2. e + (b + n) = R + n /\ b <= b + n
    <3>1. e + (b + n) = (e + b) + n /\ b <= b + n
      BY <1>4, <1>10, SMT
    <3> QED  BY <1>b, <3>1, Zenon
  <2>3. Buffered(s, R + n, k)
    BY <1>9, <1>10, <1>11, <2>1, <2>2, Zenon DEF Buffered
  <2>4. Between(s, k) \/ Within(s, k)
    <3>1. s.from = scan.from
      BY <1>3, <1>9, <1>11, Zenon
    <3>2. CASE Between(scan, k)
      BY <1>11, <3>1, <3>2, Zenon DEF Between
    <3>3. CASE Within(scan, k)
      BY <1>11, <3>1, <3>3, Zenon DEF Within
    <3> QED  BY <1>3, <3>2, <3>3 DEF Tracks
  <2>5. Len(s.found) = 0 /\ 1..0 = {} /\ 0 <= k
    BY <1>10, <1>11
  <2> QED  BY <1>11, <2>3, <2>4, <2>5, Zenon DEF Tracks
<1>13. PICK j : /\ Tracks(t, R + n, j) /\ j - Len(t.found) = k - 0 /\ t.from = Len(t.buf)
  <2>1. Len(s.found) = 0
    BY <1>11
  <2>2. R + n <= Total
    BY <1>1, <1>4, Zenon
  <2> QED  BY <1>3, <1>7, <1>12, <2>1, <2>2, ScanTracks, Zenon
<1>14. PICK f \in Nat : /\ f = Len(t.found) /\ t.found \in Seq(Seq(Characters)) /\ t \in ScannerType
                        /\ j \in Nat /\ k + f = j /\ f <= j
                        /\ \A i \in 1..f : t.found[i] = sent[(j - f) + i].object
  <2>1. t \in ScannerType /\ j \in 0..Len(sent)
    BY <1>13, Zenon DEF Tracks, Buffered
  <2>2. t.found \in Seq(Seq(Characters)) /\ Len(t.found) \in Nat
    BY <2>1 DEF ScannerType
  <2>3. j \in Nat
    BY <1>10, <2>1
  <2>4. \A a \in Nat, c \in Nat : a - c = k - 0 => k + c = a /\ c <= a
    BY <1>10, SMT
  <2>5. k + Len(t.found) = j /\ Len(t.found) <= j
    BY <1>13, <2>2, <2>3, <2>4, Zenon
  <2>6. \A i \in 1..Len(t.found) : t.found[i] = sent[(j - Len(t.found)) + i].object
    BY <1>13, Zenon DEF Tracks
  <2> QED  BY <2>1, <2>2, <2>3, <2>5, <2>6, Zenon
<1>15. PICK u : u = scan'
  OBVIOUS
<1>16. /\ u \in ScannerType /\ u.buf = t.buf /\ u.from = t.from /\ u.found = <<>>
       /\ u.start = t.start /\ LexOf(u) = LexOf(t)
  <2>1. u = [t EXCEPT !.found = <<>>] /\ <<>> \in Seq(Seq(Characters))
    BY <1>7, <1>15
  <2>2. /\ u \in ScannerType /\ u.buf = t.buf /\ u.from = t.from /\ u.found = <<>>
        /\ u.start = t.start /\ u.depth = t.depth
        /\ u.inString = t.inString /\ u.escaped = t.escaped
    BY <1>14, <2>1 DEF ScannerType
  <2> QED  BY <2>2, Zenon DEF LexOf
<1>17. Tracks(u, R + n, j)
  <2>1. Buffered(u, R + n, j)
    <3>1. Buffered(t, R + n, j)
      BY <1>13, Zenon DEF Tracks
    <3>2. u.buf = t.buf /\ u.from = t.from
      BY <1>16
    <3> QED  BY <3>1, <3>2 DEF Buffered
  <2>2. u.from = t.from /\ u.start = t.start /\ LexOf(u) = LexOf(t)
    BY <1>16
  <2>3. Between(u, j) \/ Within(u, j)
    <3>1. CASE Between(t, j)
      BY <2>2, <3>1, Zenon DEF Between
    <3>2. CASE Within(t, j)
      BY <2>2, <3>2, Zenon DEF Within
    <3> QED  BY <1>13, <3>1, <3>2 DEF Tracks
  <2>4. Len(u.found) = 0 /\ 1..0 = {} /\ 0 <= j
    BY <1>14, <1>16
  <2> QED  BY <1>16, <2>1, <2>3, <2>4, Zenon DEF Tracks
<1>18. /\ got' \in Seq(Seq(Characters)) /\ Len(got') = j
       /\ \A i \in 1..j : got'[i] = sent[i].object
  <2>1. got \in Seq(Seq(Characters)) /\ \A i \in 1..k : got[i] = sent[i].object
    BY <1>1, Zenon DEF FInv
  <2>2. /\ got \o t.found \in Seq(Seq(Characters))
        /\ Len(got \o t.found) = Len(got) + Len(t.found)
        /\ \A i \in 1..(Len(got) + Len(t.found)) :
             (got \o t.found)[i] = IF i <= Len(got) THEN got[i] ELSE t.found[i - Len(got)]
    BY <1>14, <2>1, ConcatProperties, Zenon
  <2>3. /\ got' \in Seq(Seq(Characters)) /\ Len(got') = j
        /\ \A i \in 1..j : got'[i] = IF i <= k THEN got[i] ELSE t.found[i - k]
    BY <1>1, <1>7, <1>14, <2>2, Zenon
  <2>4. ASSUME NEW i \in 1..j
        PROVE  got'[i] = sent[i].object
    <3>1. CASE i <= k
      <4>1. i \in 1..k
        BY <1>10, <3>1, SMT
      <4> QED  BY <2>1, <2>3, <3>1, <4>1, Zenon
    <3>2. CASE ~(i <= k)
      <4>1. i - k \in 1..f /\ (j - f) + (i - k) = i
        <5>1. \A c \in Nat, d \in Nat : c + d = j => (j - d) + (i - c) = i /\ (~(i <= c) => i - c \in 1..d)
          BY <1>14, SMT
        <5>2. k + f = j
          BY <1>14, Zenon
        <5> QED  BY <1>10, <3>2, <5>1, <5>2, Zenon
      <4> QED  BY <1>14, <2>3, <3>2, <4>1, Zenon
    <3> QED  BY <3>1, <3>2
  <2> QED  BY <2>3, <2>4, Zenon
<1>19. /\ SentInv' /\ Total' = T /\ Len(wire') = w - n /\ ReadSoFar' = R + n
  <2>1. SentInv' /\ Total' = T
    BY <1>1, <1>3, <1>7, SameStream, Zenon
  <2>2. T - (w - n) = (T - w) + n
    BY <1>4, SMT
  <2> QED  BY <1>2, <1>6, <1>7, <2>1, <2>2, Zenon DEF ReadSoFar
<1>20. Len(wire') <= Total'
  <2>1. w - n <= T
    BY <1>1, <1>4, SMT
  <2> QED  BY <1>19, <2>1, Zenon
<1>21. \A i \in 1..Len(wire') : wire'[i] = Stream((R + n) + i)'
  BY <1>6, <1>7, <1>19, SameStream, Zenon
<1>22. scan'.found = <<>> /\ scan'.from = Len(scan'.buf)
  BY <1>13, <1>15, <1>16, Zenon
<1>23. Tracks(scan, R + n, j)'
  BY <1>7, <1>15, <1>17, SameStream, Zenon
<1>24. \A i \in 1..Len(got') : got'[i] = sent'[i].object
  BY <1>7, <1>18, Zenon
<1> QED  BY <1>6, <1>7, <1>18, <1>19, <1>20, <1>21, <1>22, <1>23, <1>24, Zenon DEF FInv

LEMMA StepFramed == FInv /\ [Next]_vars => FInv'
<1> SUFFICES ASSUME FInv, [Next]_vars PROVE FInv'
  OBVIOUS
<1>1. ASSUME NEW object \in Objects, NEW gap \in Gaps, Send(object, gap)
      PROVE  FInv'
  BY <1>1, SendFramed
<1>2. ASSUME NEW n \in 1..Len(wire), Read(n)
      PROVE  FInv'
  BY <1>2, ReadFramed
<1>3. CASE UNCHANGED vars
  <2>1. wire' = wire /\ sent' = sent /\ scan' = scan /\ got' = got
    BY <1>3 DEF vars
  <2>2. ReadSoFar' = ReadSoFar /\ Total' = Total /\ (SentInv' <=> SentInv)
    BY <2>1, SameStream, Zenon DEF ReadSoFar
  <2>3. \A a : Stream(a)' = Stream(a)
    BY <2>1, SameStream, Zenon
  <2>4. \A s, rd, k : Tracks(s, rd, k)' <=> Tracks(s, rd, k)
    BY <2>1, SameStream, Zenon
  <2>5. Tracks(scan, ReadSoFar, Len(got))'
    <3>1. PICK s, rd, k : s = scan /\ rd = ReadSoFar /\ k = Len(got)
      OBVIOUS
    <3>2. Tracks(s, rd, k)
      BY <3>1, Zenon DEF FInv
    <3>3. Tracks(s, rd, k)'
      BY <2>4, <3>2, Zenon
    <3> QED  BY <2>1, <2>2, <3>1, <3>3, Zenon
  <2>6. ASSUME NEW i \in 1..Len(wire')
        PROVE  wire'[i] = Stream(ReadSoFar + i)'
    <3>1. PICK r : r = ReadSoFar
      OBVIOUS
    <3>2. wire[i] = Stream(r + i)
      BY <2>1, <3>1, Zenon DEF FInv
    <3> QED  BY <2>1, <2>2, <2>3, <3>1, <3>2, Zenon
  <2> QED  BY <2>1, <2>2, <2>5, <2>6, Zenon DEF FInv
<1> QED  BY <1>1, <1>2, <1>3 DEF Next

\* For any objects SST can send, whatever stands between them and wherever the
\* network breaks the bytes into chunks, _runOnce hands on exactly the objects
\* that have been read to their last byte, unaltered and in order.
THEOREM FramingCutsExactly == Spec => []FramingIsExact
<1>1. Spec => []FInv
  BY InitFramed, StepFramed, PTL DEF Spec
<1> QED  BY <1>1, FramedIsExact, PTL
=============================================================================
