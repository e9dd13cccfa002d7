----------------------------- MODULE LoggerProofs ----------------------------
(***************************************************************************)
(* Proofs about the module Logger: Format() is exact for every format      *)
(* string and all arguments, and the lines of all threads reach the file   *)
(* whole, in order, and before Log() goes on.                              *)
(***************************************************************************)
EXTENDS Logger, FiniteSetTheorems, SequenceTheorems, WellFoundedInduction, TLAPS

-----------------------------------------------------------------------------
(* FlattenSeq *)

LEMMA LeastNumber ==
  ASSUME NEW S \in SUBSET Nat, S # {}
  PROVE  \E m \in S : \A n \in S : m <= n
<1>1. PICK m \in S : \A n \in S : <<n, m>> \notin OpToRel(<, Nat)
  BY WFMin, NatLessThanWellFounded
<1>2. \A n \in S : ~(n < m)
  BY <1>1 DEF OpToRel
<1> QED  BY <1>2

\* Induction, about the set of the numbers that have a property.
LEMMA InductiveSet ==
  ASSUME NEW P \in SUBSET Nat, 0 \in P, \A n \in P : n + 1 \in P
  PROVE  \A n \in Nat : n \in P
<1>1. SUFFICES ASSUME Nat \ P # {} PROVE FALSE
  OBVIOUS
<1>2. PICK m \in Nat \ P : \A n \in Nat \ P : m <= n
  BY <1>1, LeastNumber
<1>3. m # 0 /\ m - 1 \in Nat
  OBVIOUS
<1>4. m - 1 \in P
  BY <1>2, <1>3
<1> QED  BY <1>3, <1>4

\* f holds the first sequence, the first two one after the other, and so on.
FlattensTo(f, seqs, n) ==
  /\ f = [i \in 1..n |-> f[i]]
  /\ n >= 1 => f[1] = seqs[1]
  /\ \A i \in 2..n : f[i] = f[i - 1] \o seqs[i]

LEMMA FlattensAt ==
  ASSUME NEW f, NEW seqs, NEW n \in Nat, FlattensTo(f, seqs, n), NEW i \in 1..n
  PROVE  f[i] = IF i = 1 THEN seqs[i] ELSE f[i - 1] \o seqs[i]
<1>1. CASE i = 1
  <2>1. n >= 1
    OBVIOUS
  <2>2. f[1] = seqs[1]
    BY <2>1 DEF FlattensTo
  <2> QED  BY <1>1, <2>2
<1>2. CASE i # 1
  <2>1. i \in 2..n
    BY <1>2
  <2>2. f[i] = f[i - 1] \o seqs[i]
    BY <2>1 DEF FlattensTo
  <2> QED  BY <1>2, <2>2
<1> QED  BY <1>1, <1>2

\* The recursive function of FlattenSeq() exists.
LEMMA FlattenExists ==
  ASSUME NEW seqs, NEW k \in Nat
  PROVE  \E f : FlattensTo(f, seqs, k)
<1> DEFINE missing == {n \in Nat : ~\E f : FlattensTo(f, seqs, n)}
<1>1. SUFFICES ASSUME missing # {} PROVE FALSE
  OBVIOUS
<1>2. PICK m \in missing : \A n \in missing : m <= n
  BY <1>1, LeastNumber
<1>3. m # 0
  <2>1. FlattensTo([i \in 1..0 |-> 0], seqs, 0)
    BY DEF FlattensTo
  <2> QED  BY <2>1
<1>4. PICK f : FlattensTo(f, seqs, m - 1)
  BY <1>2, <1>3
<1>m. m \in Nat /\ ~\E g : FlattensTo(g, seqs, m)
  OBVIOUS
<1> HIDE DEF missing
<1>g. PICK g : g = [i \in 1..m |-> IF i = 1 THEN seqs[i]
                                   ELSE f[i - 1] \o seqs[i]]
  OBVIOUS
<1>5. \A i \in 1..m - 1 : g[i] = f[i]
  <2> TAKE i \in 1..m - 1
  <2>1. f[i] = IF i = 1 THEN seqs[i] ELSE f[i - 1] \o seqs[i]
    BY <1>m, <1>4, FlattensAt
  <2> QED  BY <1>m, <1>g, <2>1
<1>6. \A i \in 2..m : g[i] = g[i - 1] \o seqs[i]
  <2> TAKE i \in 2..m
  <2>1. i \in 1..m /\ i # 1 /\ i - 1 \in 1..m - 1
    BY <1>m
  <2>2. g[i - 1] = f[i - 1]
    BY <1>5, <2>1
  <2> QED  BY <1>g, <2>1, <2>2
<1>7. FlattensTo(g, seqs, m)
  <2>1. m >= 1 => g[1] = seqs[1]
    BY <1>m, <1>g
  <2>2. g = [i \in 1..m |-> g[i]]
    BY <1>g
  <2> QED  BY <1>6, <2>1, <2>2 DEF FlattensTo
<1> QED  BY <1>m, <1>7

LEMMA FlattenIsLast ==
  ASSUME NEW S, NEW seqs \in Seq(S), seqs # <<>>
  PROVE  \E f : FlattensTo(f, seqs, Len(seqs)) /\ FlattenSeq(seqs) = f[Len(seqs)]
<1>1. Len(seqs) \in Nat /\ Len(seqs) # 0
  BY LenProperties, EmptySeq
<1> DEFINE Step(g) == [i \in 1..Len(seqs) |->
                         IF i = 1 THEN seqs[i] ELSE g[i - 1] \o seqs[i]]
<1>2. FlattenSeq(seqs) = (CHOOSE g : g = Step(g))[Len(seqs)]
  BY <1>1 DEF FlattenSeq
<1>3. \E g : g = Step(g)
  <2>1. PICK g : FlattensTo(g, seqs, Len(seqs))
    BY <1>1, FlattenExists
  <2>2. PICK h : h = Step(g)
    OBVIOUS
  <2>3. \A i \in 1..Len(seqs) : h[i] = g[i]
    <3> TAKE i \in 1..Len(seqs)
    <3>1. g[i] = IF i = 1 THEN seqs[i] ELSE g[i - 1] \o seqs[i]
      BY <1>1, <2>1, FlattensAt
    <3> QED  BY <2>2, <3>1
  <2>4. g = h
    BY <2>1, <2>2, <2>3 DEF FlattensTo
  <2> QED  BY <2>2, <2>4
<1>4. PICK f : f = (CHOOSE g : g = Step(g))
  OBVIOUS
<1>5. f = Step(f)
  BY <1>3, <1>4
<1>6. PICK h : h = Step(f)
  OBVIOUS
<1>7. \A i \in 1..Len(seqs) : h[i] = IF i = 1 THEN seqs[i] ELSE f[i - 1] \o seqs[i]
  BY <1>6
<1>8. f = h
  BY <1>5, <1>6
<1>9. h = [i \in 1..Len(seqs) |-> h[i]]
  BY <1>6
<1> HIDE DEF Step
<1>10. FlattensTo(f, seqs, Len(seqs))
  <2>1. \A i \in 1..Len(seqs) : f[i] = IF i = 1 THEN seqs[i] ELSE f[i - 1] \o seqs[i]
    BY <1>7, <1>8
  <2>2. \A i \in 2..Len(seqs) : f[i] = f[i - 1] \o seqs[i]
    <3> TAKE i \in 2..Len(seqs)
    <3>1. i \in 1..Len(seqs) /\ i # 1
      BY <1>1
    <3> QED  BY <2>1, <3>1
  <2>3. f[1] = seqs[1]
    BY <1>1, <2>1
  <2>4. f = [i \in 1..Len(seqs) |-> f[i]]
    BY <1>8, <1>9
  <2> QED  BY <2>2, <2>3, <2>4 DEF FlattensTo
<1> QED  BY <1>2, <1>4, <1>10

LEMMA FlattenEmpty == FlattenSeq(<<>>) = <<>>
BY DEF FlattenSeq

\* Such functions agree as long as the sequences do.
LEMMA FlattensAgree ==
  ASSUME NEW s, NEW t, NEW f, NEW g, NEW n \in Nat, NEW m \in Nat, n <= m,
         FlattensTo(f, s, n), FlattensTo(g, t, m),
         \A i \in 1..n : s[i] = t[i]
  PROVE  \A i \in 1..n : f[i] = g[i]
<1> DEFINE bad == {i \in 1..n : f[i] # g[i]}
<1>1. SUFFICES ASSUME bad # {} PROVE FALSE
  OBVIOUS
<1>2. PICK i \in bad : \A j \in bad : i <= j
  <2>1. bad \in SUBSET Nat
    OBVIOUS
  <2> HIDE DEF bad
  <2> QED  BY <1>1, <2>1, LeastNumber
<1>3. i # 1 /\ i - 1 \in 1..n
  BY DEF FlattensTo
<1>4. f[i - 1] = g[i - 1]
  BY <1>2, <1>3
<1>5. f[i] = f[i - 1] \o s[i] /\ g[i] = g[i - 1] \o t[i]
  <2>1. i \in 2..n /\ i \in 2..m
    BY <1>3
  <2> QED  BY <2>1 DEF FlattensTo
<1> QED  BY <1>4, <1>5

\* FlattenSeq() of one sequence more.
LEMMA FlattenAppend ==
  ASSUME NEW S, NEW s \in Seq(Seq(S)), NEW x \in Seq(S)
  PROVE  FlattenSeq(Append(s, x)) = FlattenSeq(s) \o x
<1>1. PICK t : t = Append(s, x)
  OBVIOUS
<1>2. /\ t \in Seq(Seq(S)) /\ t # <<>> /\ Len(t) = Len(s) + 1 /\ Len(s) \in Nat
      /\ \A i \in 1..Len(s) : t[i] = s[i]
      /\ t[Len(s) + 1] = x
  BY <1>1, AppendProperties, LenProperties
<1>3. PICK g : FlattensTo(g, t, Len(t)) /\ FlattenSeq(t) = g[Len(t)]
  BY <1>2, FlattenIsLast
<1>4. CASE s = <<>>
  <2>1. Len(t) = 1
    BY <1>2, <1>4
  <2>2. FlattenSeq(t) = x
    BY <1>2, <1>3, <2>1 DEF FlattensTo
  <2> QED  BY <1>1, <1>4, <2>2, FlattenEmpty, ConcatEmptySeq
<1>5. CASE s # <<>>
  <2>1. PICK f : FlattensTo(f, s, Len(s)) /\ FlattenSeq(s) = f[Len(s)]
    BY <1>5, FlattenIsLast
  <2>n. PICK n : n = Len(s)
    OBVIOUS
  <2>2. n \in Nat /\ n \in 1..n /\ n + 1 \in Nat /\ n + 1 \in 1..n + 1
    BY <1>2, <1>5, <2>n, EmptySeq
  <2>3. FlattensTo(f, s, n) /\ FlattensTo(g, t, n + 1)
    BY <1>2, <1>3, <2>1, <2>n
  <2>4. \A i \in 1..n : s[i] = t[i]
    BY <1>2, <2>n
  <2>5. f[n] = g[n]
    <3>m. PICK m : m = n + 1
      OBVIOUS
    <3>1. n \in Nat /\ m \in Nat /\ n <= m
      BY <2>2, <3>m
    <3>2. FlattensTo(f, s, n) /\ FlattensTo(g, t, m)
      BY <2>3, <3>m
    <3>3. \A i \in 1..n : f[i] = g[i]
      BY <3>1, <3>2, <2>4, FlattensAgree
    <3> QED  BY <2>2, <3>3
  <2>6. g[n + 1] = g[n] \o t[n + 1]
    <3>1. g[n + 1] = IF n + 1 = 1 THEN t[n + 1] ELSE g[(n + 1) - 1] \o t[n + 1]
      BY <2>2, <2>3, FlattensAt
    <3>2. n + 1 # 1 /\ (n + 1) - 1 = n
      BY <2>2
    <3> QED  BY <3>1, <3>2
  <2> QED  BY <1>1, <1>2, <1>3, <2>1, <2>n, <2>5, <2>6
<1> QED  BY <1>4, <1>5

LEMMA FlattenType ==
  ASSUME NEW S, NEW s \in Seq(Seq(S))
  PROVE  FlattenSeq(s) \in Seq(S)
<1> DEFINE P == {n \in Nat : \A r \in Seq(Seq(S)) : Len(r) = n => FlattenSeq(r) \in Seq(S)}
<1>1. 0 \in P
  <2>1. \A r \in Seq(Seq(S)) : Len(r) = 0 => r = <<>>
    BY EmptySeq
  <2> QED  BY <2>1, FlattenEmpty, EmptySeq
<1>2. ASSUME NEW n \in P PROVE n + 1 \in P
  <2>n. n \in Nat /\ n + 1 \in Nat
    OBVIOUS
  <2> SUFFICES ASSUME NEW r \in Seq(Seq(S)), Len(r) = n + 1
               PROVE  FlattenSeq(r) \in Seq(S)
    BY <2>n
  <2>r. r # <<>>
    BY <2>n, EmptySeq
  <2>1. PICK q \in Seq(Seq(S)), x \in Seq(S) : r = Append(q, x)
    BY SequenceEmptyOrAppend, <2>r
  <2>2. Len(q) = n
    BY <2>1, AppendProperties, LenProperties
  <2>3. FlattenSeq(q) \in Seq(S)
    BY <2>2
  <2> QED  BY <2>1, <2>3, FlattenAppend, ConcatProperties
<1>3. P \in SUBSET Nat
  OBVIOUS
<1> HIDE DEF P
<1>4. Len(s) \in P
  BY <1>1, <1>2, <1>3, InductiveSet, LenProperties
<1> QED  BY <1>4 DEF P

\* FlattenSeq() of one sequence more, in front.
LEMMA FlattenCons ==
  ASSUME NEW S, NEW x \in Seq(S), NEW s \in Seq(Seq(S))
  PROVE  FlattenSeq(<<x>> \o s) = x \o FlattenSeq(s)
<1> DEFINE P == {n \in Nat : \A r \in Seq(Seq(S)) :
                   Len(r) = n => FlattenSeq(<<x>> \o r) = x \o FlattenSeq(r)}
<1>0. <<x>> \in Seq(Seq(S)) /\ <<>> \in Seq(Seq(S)) /\ <<x>> = Append(<<>>, x)
  BY EmptySeq
<1>1. 0 \in P
  <2>1. \A r \in Seq(Seq(S)) : Len(r) = 0 => r = <<>>
    BY EmptySeq
  <2>2. FlattenSeq(<<x>>) = <<>> \o x
    BY <1>0, FlattenAppend, FlattenEmpty
  <2>3. <<x>> \o <<>> = <<x>> /\ <<>> \o x = x \o <<>>
    BY <1>0, ConcatEmptySeq
  <2> QED  BY <2>1, <2>2, <2>3, FlattenEmpty
<1>2. ASSUME NEW n \in P PROVE n + 1 \in P
  <2>n. n \in Nat /\ n + 1 \in Nat
    OBVIOUS
  <2> SUFFICES ASSUME NEW r \in Seq(Seq(S)), Len(r) = n + 1
               PROVE  FlattenSeq(<<x>> \o r) = x \o FlattenSeq(r)
    BY <2>n
  <2>r. r # <<>>
    BY <2>n, EmptySeq
  <2>1. PICK q \in Seq(Seq(S)), y \in Seq(S) : r = Append(q, y)
    BY SequenceEmptyOrAppend, <2>r
  <2>2. Len(q) = n
    BY <2>1, AppendProperties, LenProperties
  <2>3. FlattenSeq(<<x>> \o q) = x \o FlattenSeq(q)
    BY <2>2
  <2>4. <<x>> \o r = Append(<<x>> \o q, y) /\ <<x>> \o q \in Seq(Seq(S))
    <3>1. r = q \o <<y>> /\ <<y>> \in Seq(Seq(S))
      BY <2>1, AppendIsConcat
    <3>2. <<x>> \o q \in Seq(Seq(S))
      BY <1>0, ConcatProperties
    <3>3. Append(<<x>> \o q, y) = (<<x>> \o q) \o <<y>>
      BY <3>2, AppendIsConcat
    <3>4. (<<x>> \o q) \o <<y>> = <<x>> \o (q \o <<y>>)
      BY <1>0, <3>1, ConcatAssociative
    <3> QED  BY <3>1, <3>2, <3>3, <3>4
  <2>5. FlattenSeq(<<x>> \o r) = (x \o FlattenSeq(q)) \o y
    BY <2>3, <2>4, FlattenAppend
  <2>6. FlattenSeq(r) = FlattenSeq(q) \o y /\ FlattenSeq(q) \in Seq(S)
    BY <2>1, FlattenAppend, FlattenType
  <2>7. (x \o FlattenSeq(q)) \o y = x \o (FlattenSeq(q) \o y)
    BY <2>1, <2>6, ConcatAssociative
  <2> QED  BY <2>5, <2>6, <2>7
<1>3. P \in SUBSET Nat
  OBVIOUS
<1> HIDE DEF P
<1>4. Len(s) \in P
  BY <1>1, <1>2, <1>3, InductiveSet, LenProperties
<1> QED  BY <1>4 DEF P

-----------------------------------------------------------------------------
(* Numbers *)

\* The characters, which are strings; the provers do not know that of those
\* which the code names.
Chars ==
  STRING \cup {Digit[1], Digit[2], Digit[3], Digit[4], Digit[5], Digit[6], Digit[7],
             Digit[8], Digit[9], Digit[10]}
    \cup {LevelStr[1], LevelStr[2], LevelStr[3], LevelStr[4], LevelStr[5]}
    \cup {LeftBrace, RightBrace, Bracket, "[", ":", "file", "(", "\n"}

HighDigits(f, i) == IF i < 10 THEN <<>> ELSE f[i \div 10]

LastDigit(i) == <<Digit[(i % 10) + 1]>>

\* f holds the strings of the numbers up to n.
StringsTo(f, n) ==
  /\ f = [i \in 0..n |-> f[i]]
  /\ \A i \in 0..n : f[i] = HighDigits(f, i) \o LastDigit(i)

LEMMA StringsExist ==
  ASSUME NEW k \in Nat
  PROVE  \E f : StringsTo(f, k)
<1> DEFINE P == {n \in Nat : \E f : StringsTo(f, n)}
<1>1. 0 \in P
  <2>1. PICK g : g = [i \in 0..0 |-> HighDigits(<<>>, i) \o LastDigit(i)]
    OBVIOUS
  <2>2. StringsTo(g, 0)
    BY <2>1 DEF StringsTo, HighDigits
  <2> QED  BY <2>2
<1>2. ASSUME NEW n \in P PROVE n + 1 \in P
  <2>1. n \in Nat /\ n + 1 \in Nat
    OBVIOUS
  <2>2. PICK f : StringsTo(f, n)
    OBVIOUS
  <2>3. PICK g : g = [i \in 0..n + 1 |-> HighDigits(f, i) \o LastDigit(i)]
    OBVIOUS
  <2>4. \A i \in 0..n : g[i] = f[i]
    <3> TAKE i \in 0..n
    <3>1. i \in 0..n + 1
      BY <2>1
    <3>2. f[i] = HighDigits(f, i) \o LastDigit(i)
      BY <2>2 DEF StringsTo
    <3> QED  BY <2>3, <3>1, <3>2
  <2>5. \A i \in 0..n + 1 : HighDigits(g, i) = HighDigits(f, i)
    <3>1. \A i \in 0..n + 1 : i >= 10 => i \div 10 \in 0..n
      BY <2>1
    <3> QED  BY <2>1, <2>4, <3>1 DEF HighDigits
  <2>6. \A i \in 0..n + 1 : g[i] = HighDigits(g, i) \o LastDigit(i)
    BY <2>3, <2>5
  <2>7. StringsTo(g, n + 1)
    BY <2>3, <2>6 DEF StringsTo
  <2> QED  BY <2>1, <2>7
<1>3. P \in SUBSET Nat
  OBVIOUS
<1> HIDE DEF P
<1>4. k \in P
  BY <1>1, <1>2, <1>3, InductiveSet
<1> QED  BY <1>4 DEF P

LEMMA StringsAgree ==
  ASSUME NEW f, NEW g, NEW n \in Nat, NEW m \in Nat, n <= m,
         StringsTo(f, n), StringsTo(g, m)
  PROVE  \A i \in 0..n : f[i] = g[i]
<1> DEFINE bad == {i \in 0..n : f[i] # g[i]}
<1>1. SUFFICES ASSUME bad # {} PROVE FALSE
  OBVIOUS
<1>2. PICK i \in bad : \A j \in bad : i <= j
  <2>1. bad \in SUBSET Nat
    OBVIOUS
  <2> HIDE DEF bad
  <2> QED  BY <1>1, <2>1, LeastNumber
<1>3. i \in 0..n /\ i \in 0..m
  OBVIOUS
<1>4. i >= 10 => i \div 10 \in 0..n /\ ~(i <= i \div 10)
  BY <1>3
<1>5. HighDigits(f, i) = HighDigits(g, i)
  BY <1>2, <1>3, <1>4 DEF HighDigits
<1>6. /\ f[i] = HighDigits(f, i) \o LastDigit(i)
      /\ g[i] = HighDigits(g, i) \o LastDigit(i)
  BY <1>3 DEF StringsTo
<1>7. f[i] # g[i]
  OBVIOUS
<1> HIDE DEF bad
<1> QED  BY <1>3, <1>5, <1>6, <1>7

\* A number is printed as text.
LEMMA IntToStringType ==
  ASSUME NEW k \in Nat
  PROVE  IntToString(k) \in Seq(Chars)
<1> DEFINE Step(g) == [i \in Nat |-> HighDigits(g, i) \o LastDigit(i)]
           Upto(n) == CHOOSE f : StringsTo(f, n)
<1>1. IntToString(k) = (CHOOSE g : g = Step(g))[k]
  BY DEF IntToString, HighDigits, LastDigit
<1>2. PICK d : d = [i \in Nat |-> Upto(i)[i]]
  OBVIOUS
<1>3. \A n \in Nat : StringsTo(Upto(n), n)
  BY StringsExist
<1> HIDE DEF Upto
<1>4. ASSUME NEW i \in Nat
      PROVE  d[i] = HighDigits(d, i) \o LastDigit(i)
  <2>1. i \in 0..i /\ (i >= 10 => i \div 10 \in Nat /\ i \div 10 <= i)
    OBVIOUS
  <2>2. Upto(i)[i] = HighDigits(Upto(i), i) \o LastDigit(i)
    BY <1>3, <2>1 DEF StringsTo
  <2>3. ASSUME i >= 10 PROVE Upto(i)[i \div 10] = Upto(i \div 10)[i \div 10]
    <3>1. PICK j \in Nat : j = i \div 10 /\ j <= i /\ j \in 0..j
      BY <2>1, <2>3
    <3>2. StringsTo(Upto(i), i) /\ StringsTo(Upto(j), j)
      BY <1>3
    <3>3. \A x \in 0..j : Upto(j)[x] = Upto(i)[x]
      BY <3>1, <3>2, StringsAgree
    <3> QED  BY <3>1, <3>3
  <2>4. i >= 10 => d[i \div 10] = Upto(i \div 10)[i \div 10]
    BY <1>2, <2>1
  <2>5. HighDigits(d, i) = HighDigits(Upto(i), i)
    BY <2>3, <2>4 DEF HighDigits
  <2> QED  BY <1>2, <2>2, <2>5
<1>5. d = Step(d)
  <2>1. PICK h : h = Step(d)
    OBVIOUS
  <2>2. \A i \in Nat : h[i] = d[i]
    BY <1>4, <2>1
  <2>3. h = [i \in Nat |-> h[i]] /\ d = [i \in Nat |-> d[i]]
    BY <1>2, <2>1
  <2> QED  BY <2>1, <2>2, <2>3
<1>6. PICK f : f = (CHOOSE g : g = Step(g))
  OBVIOUS
<1>7. f = Step(f)
  BY <1>5, <1>6
<1>8. PICK h : h = Step(f)
  OBVIOUS
<1>9. \A i \in Nat : f[i] = HighDigits(f, i) \o LastDigit(i)
  <2>1. \A i \in Nat : h[i] = HighDigits(f, i) \o LastDigit(i)
    BY <1>8
  <2> QED  BY <1>7, <1>8, <2>1
<1> HIDE DEF Step
<1> DEFINE bad == {i \in Nat : f[i] \notin Seq(Chars)}
<1>10. bad = {}
  <2>1. SUFFICES ASSUME bad # {} PROVE FALSE
    OBVIOUS
  <2>2. PICK i \in bad : \A j \in bad : i <= j
    BY <2>1, LeastNumber
  <2>3. i \in Nat /\ f[i] \notin Seq(Chars)
    OBVIOUS
  <2>4. i >= 10 => i \div 10 \in Nat /\ ~(i <= i \div 10)
    BY <2>3
  <2>5. i >= 10 => f[i \div 10] \in Seq(Chars)
    BY <2>2, <2>4
  <2>6. LastDigit(i) \in Seq(Chars)
    <3>1. (i % 10) + 1 \in 1..10
      BY <2>3
    <3>2. /\ Digit[1] \in Chars /\ Digit[2] \in Chars /\ Digit[3] \in Chars
          /\ Digit[4] \in Chars /\ Digit[5] \in Chars /\ Digit[6] \in Chars
          /\ Digit[7] \in Chars /\ Digit[8] \in Chars /\ Digit[9] \in Chars
          /\ Digit[10] \in Chars
      BY DEF Chars
    <3>3. Digit[(i % 10) + 1] \in Chars
      BY <3>1, <3>2
    <3> QED  BY <3>3 DEF LastDigit
  <2>7. f[i] = HighDigits(f, i) \o LastDigit(i)
    BY <1>9, <2>3
  <2>8. HighDigits(f, i) \in Seq(Chars)
    <3>1. CASE i < 10
      BY <3>1, EmptySeq DEF HighDigits
    <3>2. CASE ~(i < 10)
      <4>1. i >= 10
        BY <2>3, <3>2
      <4> QED  BY <2>5, <3>2, <4>1 DEF HighDigits
    <3> QED  BY <3>1, <3>2
  <2> QED  BY <2>3, <2>6, <2>7, <2>8, ConcatProperties
<1> QED  BY <1>1, <1>6, <1>10

-----------------------------------------------------------------------------
(* The loop of Format() *)

After(f, text, j, used) == {text \o rest : rest \in f[j][used]}

\* One turn of the loop of Format(), at the i-th character.
Turn(format, values, f, i, idx) ==
  LET c == At(format, i)
      next == At(format, i + 1)
  IN CASE i > Len(format) -> IF idx = Len(values) THEN {<<>>} ELSE {}
       [] c = LeftBrace /\ next = RightBrace ->
            IF idx < Len(values) THEN After(f, values[idx + 1], i + 2, idx + 1) ELSE {}
       [] c \in {LeftBrace, RightBrace} /\ next = c -> After(f, <<c>>, i + 2, idx)
       [] c \in {LeftBrace, RightBrace} /\ next # c /\ ~(c = LeftBrace /\ next = RightBrace) -> {}
       [] OTHER -> After(f, <<c>>, i + 1, idx)

\* f holds what the loop writes from the k-th character on.
WritesFrom(f, format, values, k) ==
  /\ f = [i \in k..Len(format) + 2 |-> f[i]]
  /\ \A i \in k..Len(format) + 2 :
       f[i] = [idx \in 0..Len(values) + 1 |-> Turn(format, values, f, i, idx)]

LEMMA BracesDiffer ==
  LeftBrace # RightBrace /\ LeftBrace # "end" /\ RightBrace # "end"
<1>1. LeftBrace # RightBrace
  BY Zenon DEF LeftBrace, RightBrace
<1>2. LeftBrace # "end" /\ RightBrace # "end"
  BY Zenon DEF LeftBrace, RightBrace
<1> QED  BY <1>1, <1>2

IsBrace(c) == c \in {LeftBrace, RightBrace}

\* The string of one character.
Unit(c) == <<c>>

\* What a turn does, case by case.
LEMMA TurnAtEnd ==
  ASSUME NEW format, NEW values, NEW f, NEW i, NEW idx,
         format \in Seq(Chars), i \in Nat, i > Len(format)
  PROVE  Turn(format, values, f, i, idx) = IF idx = Len(values) THEN {<<>>} ELSE {}
<1>1. Len(format) \in Nat /\ DOMAIN format = 1..Len(format)
  BY LenProperties
<1>2. At(format, i) = "end"
  BY <1>1 DEF At
<1> QED  BY <1>2, BracesDiffer DEF Turn

LEMMA TurnAtArgument ==
  ASSUME NEW format, NEW values, NEW f, NEW i, NEW idx,
         ~(i > Len(format)), At(format, i) = LeftBrace, At(format, i + 1) = RightBrace
  PROVE  Turn(format, values, f, i, idx)
           = IF idx < Len(values) THEN After(f, values[idx + 1], i + 2, idx + 1) ELSE {}
BY BracesDiffer DEF Turn

LEMMA TurnAtDouble ==
  ASSUME NEW format, NEW values, NEW f, NEW i, NEW idx,
         ~(i > Len(format)), IsBrace(At(format, i)),
         At(format, i + 1) = At(format, i)
  PROVE  Turn(format, values, f, i, idx) = After(f, Unit(At(format, i)), i + 2, idx)
BY BracesDiffer DEF Turn, IsBrace, Unit

LEMMA TurnAtStray ==
  ASSUME NEW format, NEW values, NEW f, NEW i, NEW idx,
         ~(i > Len(format)), IsBrace(At(format, i)),
         At(format, i + 1) # At(format, i),
         ~(At(format, i) = LeftBrace /\ At(format, i + 1) = RightBrace)
  PROVE  Turn(format, values, f, i, idx) = {}
BY BracesDiffer DEF Turn, IsBrace

LEMMA TurnAtOther ==
  ASSUME NEW format, NEW values, NEW f, NEW i, NEW idx,
         ~(i > Len(format)), ~IsBrace(At(format, i))
  PROVE  Turn(format, values, f, i, idx) = After(f, Unit(At(format, i)), i + 1, idx)
BY BracesDiffer DEF Turn, IsBrace, Unit

\* A turn looks at what comes later only.
LEMMA TurnLooksAhead ==
  ASSUME NEW format, NEW values, NEW f, NEW g, NEW i, NEW idx,
         format \in Seq(Chars), i \in 1..Len(format) + 2,
         \A j \in i + 1..Len(format) + 2 : f[j] = g[j]
  PROVE  Turn(format, values, f, i, idx) = Turn(format, values, g, i, idx)
<1>1. Len(format) \in Nat /\ i \in Nat
  BY LenProperties
<1>2. CASE i > Len(format)
  <2>1. ASSUME NEW h
        PROVE  Turn(format, values, h, i, idx) = IF idx = Len(values) THEN {<<>>} ELSE {}
    BY <1>1, <1>2, TurnAtEnd
  <2> QED  BY <2>1
<1>3. CASE ~(i > Len(format))
  <2>1. i + 1 \in i + 1..Len(format) + 2 /\ i + 2 \in i + 1..Len(format) + 2
    BY <1>1, <1>3
  <2>2. f[i + 1] = g[i + 1] /\ f[i + 2] = g[i + 2]
    BY <2>1
  <2>3. \A text, used : /\ After(f, text, i + 1, used) = After(g, text, i + 1, used)
                        /\ After(f, text, i + 2, used) = After(g, text, i + 2, used)
    BY <2>2 DEF After
  <2>4. CASE At(format, i) = LeftBrace /\ At(format, i + 1) = RightBrace
    <3>1. ASSUME NEW h
          PROVE  Turn(format, values, h, i, idx)
                   = IF idx < Len(values) THEN After(h, values[idx + 1], i + 2, idx + 1)
                     ELSE {}
      BY <1>3, <2>4, TurnAtArgument
    <3> QED  BY <2>3, <3>1
  <2>5. CASE IsBrace(At(format, i)) /\ At(format, i + 1) = At(format, i)
    <3>1. ASSUME NEW h
          PROVE  Turn(format, values, h, i, idx) = After(h, Unit(At(format, i)), i + 2, idx)
      BY <1>3, <2>5, TurnAtDouble
    <3> QED  BY <2>3, <3>1
  <2>6. CASE /\ IsBrace(At(format, i))
             /\ At(format, i + 1) # At(format, i)
             /\ ~(At(format, i) = LeftBrace /\ At(format, i + 1) = RightBrace)
    BY <1>3, <2>6, TurnAtStray
  <2>7. CASE ~IsBrace(At(format, i))
    <3>1. ASSUME NEW h
          PROVE  Turn(format, values, h, i, idx) = After(h, Unit(At(format, i)), i + 1, idx)
      BY <1>3, <2>7, TurnAtOther
    <3> QED  BY <2>3, <3>1
  <2> QED  BY <2>4, <2>5, <2>6, <2>7 DEF IsBrace
<1> QED  BY <1>2, <1>3

\* The recursive function of FormatFrom() exists.
LEMMA WritesExist ==
  ASSUME NEW format \in Seq(Chars), NEW values
  PROVE  \E f : WritesFrom(f, format, values, 1)
<1>l. PICK end : end \in Nat /\ end = Len(format) + 2 /\ end >= 2
  BY LenProperties
<1> DEFINE P == {n \in Nat : n < end => \E f : WritesFrom(f, format, values, end - n)}
<1>1. 0 \in P
  <2>1. PICK g : g = [i \in end..end |->
                        [idx \in 0..Len(values) + 1 |-> Turn(format, values, <<>>, i, idx)]]
    OBVIOUS
  <2>2. \A idx : Turn(format, values, <<>>, end, idx) = Turn(format, values, g, end, idx)
    <3>1. end > Len(format)
      BY <1>l, LenProperties
    <3> QED  BY <1>l, <3>1, TurnAtEnd
  <2>3. WritesFrom(g, format, values, end)
    <3>1. g = [i \in end..end |-> g[i]]
      BY <2>1
    <3>2. end..end = {end}
      BY <1>l
    <3>3. g[end] = [idx \in 0..Len(values) + 1 |-> Turn(format, values, <<>>, end, idx)]
      BY <2>1, <3>2
    <3>4. g[end] = [idx \in 0..Len(values) + 1 |-> Turn(format, values, g, end, idx)]
      BY <2>2, <3>3
    <3> QED  BY <1>l, <3>1, <3>2, <3>4 DEF WritesFrom
  <2> QED  BY <1>l, <2>3
<1>2. ASSUME NEW n \in P PROVE n + 1 \in P
  <2>1. n \in Nat /\ n + 1 \in Nat
    OBVIOUS
  <2> SUFFICES ASSUME n + 1 < end
               PROVE  \E f : WritesFrom(f, format, values, end - (n + 1))
    BY <2>1
  <2>k. PICK k : k = end - (n + 1) /\ k \in 1..end - 1 /\ end - n = k + 1
    BY <1>l, <2>1
  <2>2. PICK f : WritesFrom(f, format, values, k + 1)
    BY <1>l, <2>1, <2>k
  <2> HIDE DEF P
  <2>3. PICK g : g = [i \in k..end |->
                        IF i = k THEN [idx \in 0..Len(values) + 1 |->
                                         Turn(format, values, f, i, idx)]
                        ELSE f[i]]
    OBVIOUS
  <2>4. \A i \in k + 1..end : g[i] = f[i]
    BY <1>l, <2>k, <2>3
  <2>5. ASSUME NEW i \in k..end, NEW idx
        PROVE  Turn(format, values, f, i, idx) = Turn(format, values, g, i, idx)
    <3>1. i \in 1..Len(format) + 2 /\ i + 1 >= k + 1
      BY <1>l, <2>k
    <3>2. \A j \in i + 1..Len(format) + 2 : f[j] = g[j]
      BY <1>l, <2>k, <2>4, <3>1
    <3> QED  BY <3>1, <3>2, TurnLooksAhead
  <2>6. \A i \in k..end :
          g[i] = [idx \in 0..Len(values) + 1 |-> Turn(format, values, f, i, idx)]
    <3> TAKE i \in k..end
    <3>1. CASE i = k
      BY <2>3, <3>1
    <3>2. CASE i # k
      <4>1. i \in k + 1..end
        BY <1>l, <2>k, <3>2
      <4> QED  BY <1>l, <2>2, <2>4, <4>1 DEF WritesFrom
    <3> QED  BY <3>1, <3>2
  <2>7. \A i \in k..end :
          g[i] = [idx \in 0..Len(values) + 1 |-> Turn(format, values, g, i, idx)]
    BY <2>5, <2>6
  <2>8. WritesFrom(g, format, values, k)
    BY <1>l, <2>3, <2>7 DEF WritesFrom
  <2> QED  BY <2>k, <2>8
<1>3. P \in SUBSET Nat
  OBVIOUS
<1> HIDE DEF P
<1>4. end - 1 \in P
  BY <1>l, <1>1, <1>2, <1>3, InductiveSet
<1>5. end - 1 < end /\ end - (end - 1) = 1
  BY <1>l
<1> QED  BY <1>4, <1>5 DEF P

\* FormatFrom() satisfies its equation.
LEMMA FormatFromWrites ==
  ASSUME NEW format \in Seq(Chars), NEW values
  PROVE  \A i \in 1..Len(format) + 2, idx \in 0..Len(values) + 1 :
           FormatFrom(format, values)[i][idx]
             = Turn(format, values, FormatFrom(format, values), i, idx)
<1> DEFINE Step(g) == [i \in 1..Len(format) + 2 |-> [idx \in 0..Len(values) + 1 |->
                         Turn(format, values, g, i, idx)]]
<1>1. FormatFrom(format, values) = (CHOOSE g : g = Step(g))
  BY DEF FormatFrom, Turn, After
<1>2. PICK f : WritesFrom(f, format, values, 1)
  BY WritesExist
<1>3. f = Step(f)
  <2>1. PICK h : h = Step(f)
    OBVIOUS
  <2>2. \A i \in 1..Len(format) + 2 : h[i] = f[i]
    BY <1>2, <2>1 DEF WritesFrom
  <2>3. h = f
    BY <1>2, <2>1, <2>2 DEF WritesFrom
  <2> QED  BY <2>1, <2>3
<1>4. PICK d : d = FormatFrom(format, values)
  OBVIOUS
<1>5. d = Step(d)
  BY <1>1, <1>3, <1>4
<1>6. PICK h : h = Step(d)
  OBVIOUS
<1>7. \A i \in 1..Len(format) + 2, idx \in 0..Len(values) + 1 :
        h[i][idx] = Turn(format, values, d, i, idx)
  BY <1>6
<1> QED  BY <1>4, <1>5, <1>6, <1>7

-----------------------------------------------------------------------------
(* How a format string is cut *)

IsPair(format, i) ==
  /\ IsBrace(format[i])
  /\ \/ format[i + 1] = format[i]
     \/ format[i] = LeftBrace /\ format[i + 1] = RightBrace

\* The ways to cut the format from the k-th character on.
CutsFrom(format, k) ==
  {pairs \in SUBSET (k..Len(format) - 1) :
     /\ \A i \in pairs : IsPair(format, i) /\ i + 1 \notin pairs
     /\ \A i \in k..Len(format) : IsBrace(format[i]) => i \in pairs \/ i - 1 \in pairs}

LEMMA CutsIsCutsFrom ==
  ASSUME NEW format, format \in Seq(Chars)
  PROVE  Cuts(format) = CutsFrom(format, 1)
<1>1. DOMAIN format = 1..Len(format)
  BY LenProperties
<1> QED  BY <1>1 DEF Cuts, CutsFrom, IsPair, IsBrace

LEMMA CutsAtEnd ==
  ASSUME NEW format, format \in Seq(Chars)
  PROVE  CutsFrom(format, Len(format) + 1) = {{}}
<1>1. PICK n : n = Len(format) /\ n \in Nat
  BY LenProperties
<1>2. (n + 1)..(n - 1) = {} /\ (n + 1)..n = {}
  BY <1>1
<1> QED  BY <1>1, <1>2 DEF CutsFrom

With(k, pairs) == {k} \cup pairs

\* A pair is cut off, for no pair may begin inside it.
LEMMA CutsAtPair ==
  ASSUME NEW format, NEW k, format \in Seq(Chars), k \in 1..Len(format) - 1,
         IsPair(format, k)
  PROVE  CutsFrom(format, k) = {With(k, q) : q \in CutsFrom(format, k + 2)}
<1>1. PICK n : n = Len(format) /\ n \in Nat
  BY LenProperties
<1>2. k \in Nat /\ k \in k..n /\ k \in 1..n - 1
  BY <1>1
<1>3. ASSUME NEW p \in CutsFrom(format, k)
      PROVE  \E q \in CutsFrom(format, k + 2) : p = With(k, q)
  <2>1. /\ p \subseteq k..n - 1
        /\ \A i \in p : IsPair(format, i) /\ i + 1 \notin p
        /\ \A i \in k..n : IsBrace(format[i]) => i \in p \/ i - 1 \in p
    BY <1>1 DEF CutsFrom
  <2>2. k \in p
    <3>1. k - 1 \notin p
      BY <1>2, <2>1
    <3> QED  BY <1>2, <2>1, <3>1 DEF IsPair
  <2>3. PICK q : q = p \ {k}
    OBVIOUS
  <2>4. q \subseteq k + 2..n - 1
    <3> SUFFICES ASSUME NEW i \in q PROVE i \in k + 2..n - 1
      OBVIOUS
    <3>1. i \in k..n - 1 /\ i # k /\ i # k + 1
      BY <2>1, <2>2, <2>3
    <3> QED  BY <1>1, <1>2, <3>1
  <2>5. \A i \in q : IsPair(format, i) /\ i + 1 \notin q
    BY <2>1, <2>3
  <2>6. ASSUME NEW i \in k + 2..n, IsBrace(format[i])
        PROVE  i \in q \/ i - 1 \in q
    <3>1. i \in k..n /\ i # k /\ i - 1 # k
      BY <1>1, <1>2
    <3> QED  BY <2>1, <2>3, <2>6, <3>1
  <2>7. q \in CutsFrom(format, k + 2)
    BY <1>1, <2>4, <2>5, <2>6 DEF CutsFrom
  <2> QED  BY <2>2, <2>3, <2>7 DEF With
<1>4. ASSUME NEW q \in CutsFrom(format, k + 2)
      PROVE  With(k, q) \in CutsFrom(format, k)
  <2>1. /\ q \subseteq k + 2..n - 1
        /\ \A i \in q : IsPair(format, i) /\ i + 1 \notin q
        /\ \A i \in k + 2..n : IsBrace(format[i]) => i \in q \/ i - 1 \in q
    BY <1>1 DEF CutsFrom
  <2>2. PICK p : p = {k} \cup q
    OBVIOUS
  <2>3. p \subseteq k..n - 1
    BY <1>1, <1>2, <2>1, <2>2
  <2>4. ASSUME NEW i \in p
        PROVE  IsPair(format, i) /\ i + 1 \notin p
    <3>1. k + 1 \notin p
      BY <1>1, <1>2, <2>1, <2>2
    <3>2. CASE i = k
      BY <3>1, <3>2
    <3>3. CASE i \in q
      <4>1. i + 1 # k
        BY <1>1, <1>2, <2>1, <3>3
      <4> QED  BY <2>1, <2>2, <3>3, <4>1
    <3> QED  BY <2>2, <3>2, <3>3
  <2>5. ASSUME NEW i \in k..n, IsBrace(format[i])
        PROVE  i \in p \/ i - 1 \in p
    <3>1. i = k \/ i = k + 1 \/ i \in k + 2..n
      BY <1>1, <1>2
    <3>2. CASE i = k
      BY <2>2, <3>2
    <3>3. CASE i = k + 1
      BY <1>2, <2>2, <3>3
    <3>4. CASE i \in k + 2..n
      BY <2>1, <2>2, <2>5, <3>4
    <3> QED  BY <3>1, <3>2, <3>3, <3>4
  <2>6. p \in CutsFrom(format, k)
    BY <1>1, <2>3, <2>4, <2>5 DEF CutsFrom
  <2> QED  BY <2>2, <2>6 DEF With
<1> QED  BY <1>3, <1>4

\* A brace that begins no pair cannot be cut.
LEMMA CutsAtStray ==
  ASSUME NEW format, NEW k, format \in Seq(Chars), k \in 1..Len(format),
         IsBrace(format[k]), k < Len(format) => ~IsPair(format, k)
  PROVE  CutsFrom(format, k) = {}
<1>1. PICK n : n = Len(format) /\ n \in Nat
  BY LenProperties
<1>2. SUFFICES ASSUME NEW p \in CutsFrom(format, k) PROVE FALSE
  OBVIOUS
<1>3. p \subseteq k..n - 1 /\ \A i \in p : IsPair(format, i)
  BY <1>1 DEF CutsFrom
<1>4. k \in p \/ k - 1 \in p
  <2>1. k \in k..n
    BY <1>1
  <2> QED  BY <1>1, <2>1 DEF CutsFrom
<1>5. k - 1 \notin p
  BY <1>1, <1>3
<1>6. k \in p /\ k < n
  BY <1>1, <1>3, <1>4, <1>5
<1> QED  BY <1>1, <1>3, <1>6

LEMMA CutsAtOther ==
  ASSUME NEW format, NEW k, format \in Seq(Chars), k \in 1..Len(format),
         ~IsBrace(format[k])
  PROVE  CutsFrom(format, k) = CutsFrom(format, k + 1)
<1>1. PICK n : n = Len(format) /\ n \in Nat
  BY LenProperties
<1>2. k \in Nat /\ k \in 1..n
  BY <1>1
<1>3. ASSUME NEW p \in CutsFrom(format, k)
      PROVE  p \in CutsFrom(format, k + 1)
  <2>1. /\ p \subseteq k..n - 1
        /\ \A i \in p : IsPair(format, i) /\ i + 1 \notin p
        /\ \A i \in k..n : IsBrace(format[i]) => i \in p \/ i - 1 \in p
    BY <1>1 DEF CutsFrom
  <2>2. k \notin p
    BY <2>1 DEF IsPair
  <2>3. p \subseteq k + 1..n - 1
    <3> SUFFICES ASSUME NEW i \in p PROVE i \in k + 1..n - 1
      OBVIOUS
    <3>1. i \in k..n - 1 /\ i # k
      BY <2>1, <2>2
    <3> QED  BY <1>1, <1>2, <3>1
  <2>4. \A i \in k + 1..n : i \in k..n
    BY <1>1, <1>2
  <2> QED  BY <1>1, <2>1, <2>3, <2>4 DEF CutsFrom
<1>4. ASSUME NEW p \in CutsFrom(format, k + 1)
      PROVE  p \in CutsFrom(format, k)
  <2>1. /\ p \subseteq k + 1..n - 1
        /\ \A i \in p : IsPair(format, i) /\ i + 1 \notin p
        /\ \A i \in k + 1..n : IsBrace(format[i]) => i \in p \/ i - 1 \in p
    BY <1>1 DEF CutsFrom
  <2>2. p \subseteq k..n - 1
    BY <1>1, <1>2, <2>1
  <2>3. ASSUME NEW i \in k..n, IsBrace(format[i])
        PROVE  i \in p \/ i - 1 \in p
    <3>1. i \in k + 1..n
      BY <1>1, <1>2, <2>3
    <3> QED  BY <2>1, <2>3, <3>1
  <2> QED  BY <1>1, <2>1, <2>2, <2>3 DEF CutsFrom
<1> QED  BY <1>3, <1>4

-----------------------------------------------------------------------------
(* What a cut makes of a format string *)

\* What is written for the i-th character when idx arguments have been used
\* before the first of the pairs.
Piece(format, values, pairs, idx, i) ==
  CASE i \in Places(format, pairs) ->
         values[idx + Cardinality({j \in Places(format, pairs) : j <= i})]
    [] i - 1 \in pairs -> <<>>
    [] OTHER -> <<format[i]>>

\* What is written from the k-th character on.
TextFrom(format, values, pairs, idx, k) ==
  FlattenSeq([m \in 1..(Len(format) + 1) - k |->
                Piece(format, values, pairs, idx, (m + k) - 1)])

\* The ways to cut the format from the k-th character on with a {} for each
\* argument from the idx-th on.
FitsFrom(format, values, idx, k) ==
  {p \in CutsFrom(format, k) : Cardinality(Places(format, p)) = Len(values) - idx}

Spaced(p) == \A i \in p : i + 1 \notin p

LEMMA CutFacts ==
  ASSUME NEW format, NEW k, NEW p, format \in Seq(Chars), k \in Nat,
         p \in CutsFrom(format, k)
  PROVE  /\ p \subseteq k..Len(format) - 1
         /\ Spaced(p)
         /\ IsFiniteSet(Places(format, p)) /\ Places(format, p) \subseteq p
<1>1. PICK n : n = Len(format) /\ n \in Nat
  BY LenProperties
<1>2. p \subseteq k..n - 1 /\ Spaced(p)
  BY <1>1 DEF CutsFrom, Spaced
<1>3. IsFiniteSet(k..n - 1)
  BY <1>1, FS_Interval
<1>4. Places(format, p) \subseteq p /\ Places(format, p) \subseteq k..n - 1
  BY <1>2 DEF Places
<1> QED  BY <1>1, <1>2, <1>3, <1>4, FS_Subset

PlacesUpTo(format, p, i) == {j \in Places(format, p) : j <= i}

LEMMA PieceAtPlace ==
  ASSUME NEW format, NEW values, NEW p, NEW idx, NEW i,
         Spaced(p), i \in Nat, i \in Places(format, p)
  PROVE  Piece(format, values, p, idx, i)
           = values[idx + Cardinality(PlacesUpTo(format, p, i))]
<1>1. i \in p
  BY DEF Places
<1>2. ASSUME i - 1 \in p PROVE FALSE
  <2>1. (i - 1) + 1 \notin p
    BY <1>2 DEF Spaced
  <2> QED  BY <1>1, <2>1
<1> QED  BY <1>2 DEF Piece, PlacesUpTo

LEMMA PieceInPair ==
  ASSUME NEW format, NEW values, NEW p, NEW idx, NEW i,
         Spaced(p), i \in Nat, i - 1 \in p
  PROVE  Piece(format, values, p, idx, i) = <<>>
<1>1. i \notin Places(format, p)
  <2>1. (i - 1) + 1 \notin p
    BY DEF Spaced
  <2> QED  BY <2>1 DEF Places
<1> QED  BY <1>1 DEF Piece

LEMMA PieceElsewhere ==
  ASSUME NEW format, NEW values, NEW p, NEW idx, NEW i,
         i \notin Places(format, p), i - 1 \notin p
  PROVE  Piece(format, values, p, idx, i) = <<format[i]>>
BY DEF Piece

\* The pieces are text.
LEMMA PieceType ==
  ASSUME NEW format, NEW values, NEW idx, NEW k, NEW p, NEW i,
         format \in Seq(Chars), values \in Seq(Seq(Chars)), idx \in 0..Len(values),
         k \in Nat \ {0}, p \in FitsFrom(format, values, idx, k), i \in k..Len(format)
  PROVE  Piece(format, values, p, idx, i) \in Seq(Chars)
<1>1. PICK n : n = Len(format) /\ n \in Nat
  BY LenProperties
<1>2. PICK v : v = Len(values) /\ v \in Nat
  BY LenProperties
<1>3. p \in CutsFrom(format, k) /\ Cardinality(Places(format, p)) = v - idx
  BY <1>2 DEF FitsFrom
<1>4. /\ p \subseteq k..n - 1 /\ Spaced(p)
      /\ IsFiniteSet(Places(format, p)) /\ Places(format, p) \subseteq p
  BY <1>1, <1>3, CutFacts
<1>5. i \in Nat /\ i \in 1..n
  BY <1>1, <1>4
<1>6. CASE i \in Places(format, p)
  <2>1. PICK s : s = PlacesUpTo(format, p, i)
    OBVIOUS
  <2>2. s \subseteq Places(format, p) /\ i \in s
    BY <1>5, <1>6, <2>1 DEF PlacesUpTo
  <2>3. IsFiniteSet(s) /\ Cardinality(s) <= v - idx
    BY <1>3, <1>4, <2>2, FS_Subset
  <2>4. Cardinality(s) \in Nat /\ Cardinality(s) # 0
    BY <2>2, <2>3, FS_CardinalityType, FS_EmptySet
  <2>5. idx + Cardinality(s) \in 1..v
    BY <1>2, <2>3, <2>4
  <2>6. values[idx + Cardinality(s)] \in Seq(Chars)
    BY <1>2, <2>5, ElementOfSeq
  <2>7. Piece(format, values, p, idx, i)
          = values[idx + Cardinality(PlacesUpTo(format, p, i))]
    BY <1>4, <1>5, <1>6, PieceAtPlace
  <2> QED  BY <2>1, <2>6, <2>7
<1>7. CASE i - 1 \in p
  BY <1>4, <1>5, <1>7, PieceInPair, EmptySeq
<1>8. CASE i \notin Places(format, p) /\ i - 1 \notin p
  <2>1. format[i] \in Chars
    BY <1>1, <1>5, ElementOfSeq
  <2>2. Piece(format, values, p, idx, i) = <<format[i]>>
    BY <1>8, PieceElsewhere
  <2> QED  BY <2>1, <2>2
<1> QED  BY <1>6, <1>7, <1>8

\* The text from a character on is its piece and the text from the next one on.
LEMMA TextFromCons ==
  ASSUME NEW format, NEW values, NEW p, NEW idx, NEW k,
         format \in Seq(Chars), k \in 1..Len(format),
         \A i \in k..Len(format) : Piece(format, values, p, idx, i) \in Seq(Chars)
  PROVE  TextFrom(format, values, p, idx, k)
           = Piece(format, values, p, idx, k) \o TextFrom(format, values, p, idx, k + 1)
<1>1. PICK n : n = Len(format) /\ n \in Nat
  BY LenProperties
<1>2. PICK f : f = [i \in k..n |-> Piece(format, values, p, idx, i)]
  OBVIOUS
<1>3. PICK s : s = [m \in 1..(n + 1) - k |-> f[(m + k) - 1]]
  OBVIOUS
<1>4. PICK r : r = [m \in 1..(n + 1) - (k + 1) |-> f[(m + (k + 1)) - 1]]
  OBVIOUS
<1>5. \A i \in k..n : f[i] \in Seq(Chars) /\ f[i] = Piece(format, values, p, idx, i)
  BY <1>1, <1>2
<1>6. s = [m \in 1..(n + 1) - k |-> Piece(format, values, p, idx, (m + k) - 1)]
  BY <1>1, <1>3, <1>5
<1>7. r = [m \in 1..(n + 1) - (k + 1) |-> Piece(format, values, p, idx, (m + (k + 1)) - 1)]
  BY <1>1, <1>4, <1>5
<1>8. k \in Nat /\ k \in k..n /\ (n + 1) - k \in Nat /\ (n + 1) - (k + 1) \in Nat
  BY <1>1
<1>9. r \in Seq(Seq(Chars)) /\ Len(r) = n - k
  BY <1>1, <1>4, <1>5, <1>8
<1>10. s \in Seq(Seq(Chars)) /\ Len(s) = (n + 1) - k
  BY <1>1, <1>3, <1>5, <1>8
<1>11. PICK x : x = f[k] /\ x \in Seq(Chars)
  BY <1>5, <1>8
<1>12. s = <<x>> \o r
  <2>1. <<x>> \in Seq(Seq(Chars)) /\ Len(<<x>>) = 1 /\ <<x>>[1] = x
    BY <1>11
  <2>2. PICK t : t = <<x>> \o r
    OBVIOUS
  <2>3. /\ t \in Seq(Seq(Chars)) /\ Len(t) = 1 + (n - k)
        /\ \A m \in 1..1 + (n - k) : t[m] = IF m <= 1 THEN <<x>>[m] ELSE r[m - 1]
    BY <1>9, <2>1, <2>2, ConcatProperties
  <2>4. ASSUME NEW m \in 1..(n + 1) - k PROVE s[m] = t[m]
    <3>1. s[m] = f[(m + k) - 1]
      BY <1>3
    <3>2. CASE m = 1
      <4>1. (m + k) - 1 = k /\ m \in 1..1 + (n - k)
        BY <1>1, <1>8, <3>2
      <4>2. t[m] = <<x>>[m]
        BY <2>3, <3>2, <4>1
      <4> QED  BY <1>11, <2>1, <3>1, <3>2, <4>1, <4>2
    <3>3. CASE m # 1
      <4>1. m - 1 \in 1..(n + 1) - (k + 1) /\ ((m - 1) + (k + 1)) - 1 = (m + k) - 1
        BY <1>1, <1>8, <3>3
      <4>2. r[m - 1] = f[(m + k) - 1]
        BY <1>4, <4>1
      <4>3. m \in 1..1 + (n - k) /\ ~(m <= 1)
        BY <1>1, <1>8, <3>3
      <4>4. t[m] = r[m - 1]
        BY <2>3, <4>3
      <4> QED  BY <3>1, <4>2, <4>4
    <3> QED  BY <3>2, <3>3
  <2>5. Len(s) = Len(t)
    BY <1>1, <1>8, <1>10, <2>3
  <2>6. s = t
    BY <1>10, <2>3, <2>4, <2>5, SeqEqual
  <2> QED  BY <2>2, <2>6
<1>13. FlattenSeq(s) = x \o FlattenSeq(r)
  BY <1>9, <1>11, <1>12, FlattenCons
<1> QED  BY <1>1, <1>5, <1>6, <1>7, <1>8, <1>11, <1>13 DEF TextFrom

\* The text is made of the pieces from its character on.
LEMMA TextFromSame ==
  ASSUME NEW format, NEW values, NEW p, NEW q, NEW idx, NEW jdx, NEW k,
         format \in Seq(Chars), k \in Nat,
         \A i \in k..Len(format) :
           Piece(format, values, p, idx, i) = Piece(format, values, q, jdx, i)
  PROVE  TextFrom(format, values, p, idx, k) = TextFrom(format, values, q, jdx, k)
<1>1. PICK n : n = Len(format) /\ n \in Nat
  BY LenProperties
<1>2. \A m \in 1..(n + 1) - k : (m + k) - 1 \in k..n
  BY <1>1
<1>3. \A m \in 1..(n + 1) - k : Piece(format, values, p, idx, (m + k) - 1)
                                  = Piece(format, values, q, jdx, (m + k) - 1)
  BY <1>1, <1>2
<1>4. [m \in 1..(n + 1) - k |-> Piece(format, values, p, idx, (m + k) - 1)]
        = [m \in 1..(n + 1) - k |-> Piece(format, values, q, jdx, (m + k) - 1)]
  BY <1>3
<1> QED  BY <1>1, <1>4 DEF TextFrom

LEMMA TextFromType ==
  ASSUME NEW format, NEW values, NEW p, NEW idx, NEW k,
         format \in Seq(Chars), k \in 1..Len(format) + 1,
         \A i \in k..Len(format) : Piece(format, values, p, idx, i) \in Seq(Chars)
  PROVE  TextFrom(format, values, p, idx, k) \in Seq(Chars)
<1>1. PICK n : n = Len(format) /\ n \in Nat
  BY LenProperties
<1>2. PICK s : s = [m \in 1..(n + 1) - k |-> Piece(format, values, p, idx, (m + k) - 1)]
  OBVIOUS
<1>3. (n + 1) - k \in Nat /\ \A m \in 1..(n + 1) - k : (m + k) - 1 \in k..n
  BY <1>1
<1>4. \A m \in 1..(n + 1) - k : Piece(format, values, p, idx, (m + k) - 1) \in Seq(Chars)
  BY <1>1, <1>3
<1>5. s \in Seq(Seq(Chars))
  BY <1>2, <1>3, <1>4
<1> QED  BY <1>1, <1>2, <1>5, FlattenType DEF TextFrom

SamePieces(format, values, p, idx, q, jdx, k) ==
  \A i \in k..Len(format) :
    Piece(format, values, p, idx, i) = Piece(format, values, q, jdx, i)

LEMMA SameText ==
  ASSUME NEW format, NEW values, NEW p, NEW idx, NEW q, NEW jdx, NEW k,
         format \in Seq(Chars), k \in Nat,
         SamePieces(format, values, p, idx, q, jdx, k)
  PROVE  TextFrom(format, values, p, idx, k) = TextFrom(format, values, q, jdx, k)
<1>1. \A i \in k..Len(format) :
        Piece(format, values, p, idx, i) = Piece(format, values, q, jdx, i)
  BY DEF SamePieces
<1> QED  BY <1>1, TextFromSame

\* A cut with a pair in front, piece by piece.
LEMMA PairPieces ==
  ASSUME NEW format, NEW values, NEW idx, NEW k, NEW q, NEW jdx,
         format \in Seq(Chars), values \in Seq(Seq(Chars)), idx \in 0..Len(values),
         k \in 1..Len(format) - 1, q \in CutsFrom(format, k + 2),
         With(k, q) \in FitsFrom(format, values, idx, k),
         SamePieces(format, values, With(k, q), idx, q, jdx, k + 2)
  PROVE  /\ TextFrom(format, values, With(k, q), idx, k)
              = Piece(format, values, With(k, q), idx, k)
                  \o TextFrom(format, values, q, jdx, k + 2)
         /\ TextFrom(format, values, q, jdx, k + 2) \in Seq(Chars)
<1>1. PICK n : n = Len(format) /\ n \in Nat
  BY LenProperties
<1>2. PICK p : p = With(k, q)
  OBVIOUS
<1>p. p = {k} \cup q
  BY <1>2 DEF With
<1>3. k \in Nat /\ k \in Nat \ {0} /\ k \in 1..n /\ k + 1 \in 1..n /\ (k + 1) + 1 = k + 2
  BY <1>1
<1>4. \A i \in k..n : Piece(format, values, p, idx, i) \in Seq(Chars)
  BY <1>1, <1>2, <1>3, PieceType
<1>5. \A i \in k + 1..n : Piece(format, values, p, idx, i) \in Seq(Chars)
  <2>1. \A i \in k + 1..n : i \in k..n
    BY <1>1
  <2> QED  BY <1>4, <2>1
<1>6. \A i \in k + 2..n : Piece(format, values, p, idx, i) \in Seq(Chars)
  <2>1. \A i \in k + 2..n : i \in k..n
    BY <1>1
  <2> QED  BY <1>4, <2>1
<1>t. PICK text : text = Piece(format, values, p, idx, k)
  OBVIOUS
<1>7. TextFrom(format, values, p, idx, k) = text \o TextFrom(format, values, p, idx, k + 1)
  BY <1>1, <1>t, <1>3, <1>4, TextFromCons
<1>8. Piece(format, values, p, idx, k + 1) = <<>>
  <2>1. p \in CutsFrom(format, k)
    BY <1>2 DEF FitsFrom
  <2>2. Spaced(p)
    BY <1>3, <2>1, CutFacts
  <2>3. k + 1 \in Nat /\ (k + 1) - 1 \in p
    BY <1>p, <1>3
  <2> QED  BY <2>2, <2>3, PieceInPair
<1>9. TextFrom(format, values, p, idx, k + 1)
        = <<>> \o TextFrom(format, values, p, idx, k + 2)
  <2>1. PICK j : j = k + 1
    OBVIOUS
  <2>2. j \in 1..n /\ j + 1 = k + 2
    BY <1>3, <2>1
  <2>3. \A i \in j..n : Piece(format, values, p, idx, i) \in Seq(Chars)
    BY <1>5, <2>1
  <2>4. TextFrom(format, values, p, idx, j)
          = Piece(format, values, p, idx, j) \o TextFrom(format, values, p, idx, j + 1)
    BY <1>1, <2>2, <2>3, TextFromCons
  <2> QED  BY <1>8, <2>1, <2>2, <2>4
<1>10. TextFrom(format, values, p, idx, k + 2) = TextFrom(format, values, q, jdx, k + 2)
  <2>1. k + 2 \in Nat
    BY <1>3
  <2> QED  BY <1>2, <2>1, SameText
<1>11. TextFrom(format, values, p, idx, k + 2) \in Seq(Chars)
  <2>1. k + 2 \in 1..n + 1
    BY <1>1
  <2> QED  BY <1>1, <1>6, <2>1, TextFromType
<1>12. text \in Seq(Chars)
  <2>1. k \in k..n
    BY <1>1
  <2> QED  BY <1>t, <1>4, <2>1
<1> QED  BY <1>2, <1>t, <1>7, <1>9, <1>10, <1>11, <1>12, ConcatEmptySeq

IsConcat(text, s, rest) == text = s \o rest

\* A {} takes the next argument.
LEMMA ArgumentFits ==
  ASSUME NEW format, NEW values, NEW idx, NEW k, NEW q,
         format \in Seq(Chars), values \in Seq(Seq(Chars)), idx \in 0..Len(values),
         k \in 1..Len(format) - 1, IsPair(format, k), format[k] # format[k + 1],
         q \in CutsFrom(format, k + 2)
  PROVE  With(k, q) \in FitsFrom(format, values, idx, k)
           <=> idx < Len(values) /\ q \in FitsFrom(format, values, idx + 1, k + 2)
<1>1. PICK n : n = Len(format) /\ n \in Nat
  BY LenProperties
<1>2. PICK v : v = Len(values) /\ v \in Nat
  BY LenProperties
<1>3. PICK p : p = With(k, q)
  OBVIOUS
<1>p. p = {k} \cup q
  BY <1>3 DEF With
<1>4. k \in Nat /\ k + 2 \in Nat
  BY <1>1
<1>5. p \in CutsFrom(format, k)
  BY <1>3, CutsAtPair
<1>6. /\ q \subseteq k + 2..n - 1 /\ Spaced(q)
      /\ IsFiniteSet(Places(format, q)) /\ Places(format, q) \subseteq q
  BY <1>1, <1>4, CutFacts
<1>8. Places(format, p) = Places(format, q) \cup {k} /\ k \notin q
  BY <1>1, <1>p, <1>6 DEF Places
<1>9. PICK c : c = Cardinality(Places(format, q)) /\ c \in Nat
  BY <1>6, FS_CardinalityType
<1>10. Cardinality(Places(format, p)) = c + 1
  BY <1>6, <1>8, <1>9, FS_AddElement
<1>11. p \in FitsFrom(format, values, idx, k)
         <=> idx < v /\ q \in FitsFrom(format, values, idx + 1, k + 2)
  <2>1. p \in FitsFrom(format, values, idx, k) <=> c + 1 = v - idx
    BY <1>2, <1>5, <1>10 DEF FitsFrom
  <2>2. q \in FitsFrom(format, values, idx + 1, k + 2) <=> c = v - (idx + 1)
    BY <1>2, <1>9 DEF FitsFrom
  <2>3. c + 1 = v - idx <=> idx < v /\ c = v - (idx + 1)
    BY <1>2, <1>9
  <2> QED  BY <2>1, <2>2, <2>3
<1> QED  BY <1>2, <1>3, <1>11

LEMMA ArgumentText ==
  ASSUME NEW format, NEW values, NEW idx, NEW k, NEW q,
         format \in Seq(Chars), values \in Seq(Seq(Chars)), idx \in 0..Len(values),
         k \in 1..Len(format) - 1, IsPair(format, k), format[k] # format[k + 1],
         q \in CutsFrom(format, k + 2),
         With(k, q) \in FitsFrom(format, values, idx, k)
  PROVE  IsConcat(TextFrom(format, values, With(k, q), idx, k), values[idx + 1],
                  TextFrom(format, values, q, idx + 1, k + 2))
<1>1. PICK n : n = Len(format) /\ n \in Nat
  BY LenProperties
<1>2. PICK v : v = Len(values) /\ v \in Nat
  BY LenProperties
<1>3. PICK p : p = With(k, q)
  OBVIOUS
<1>p. p = {k} \cup q
  BY <1>3 DEF With
<1>4. k \in Nat /\ k + 2 \in Nat
  BY <1>1
<1>5. p \in CutsFrom(format, k)
  BY <1>3, CutsAtPair
<1>6. /\ q \subseteq k + 2..n - 1 /\ Spaced(q)
      /\ IsFiniteSet(Places(format, q)) /\ Places(format, q) \subseteq q
  BY <1>1, <1>4, CutFacts
<1>7. Spaced(p)
  BY <1>4, <1>5, CutFacts
<1>8. Places(format, p) = Places(format, q) \cup {k} /\ k \notin q
  BY <1>1, <1>p, <1>6 DEF Places
<1>12. Piece(format, values, p, idx, k) = values[idx + 1]
  <2>1. PlacesUpTo(format, p, k) = {k}
    <3>1. \A j \in Places(format, q) : ~(j <= k)
      <4>1. \A j \in k + 2..n - 1 : ~(j <= k)
        BY <1>1, <1>4
      <4>2. Places(format, q) \subseteq k + 2..n - 1
        BY <1>6
      <4> QED  BY <4>1, <4>2
    <3>2. k <= k
      BY <1>4
    <3>3. {j \in Places(format, p) : j <= k} = {k}
      <4> QED  BY <1>8, <3>1, <3>2
    <3> QED  BY <3>3 DEF PlacesUpTo
  <2>2. Cardinality({k}) = 1
    BY FS_Singleton
  <2>3. k \in Places(format, p)
    BY <1>8
  <2>4. Piece(format, values, p, idx, k)
          = values[idx + Cardinality(PlacesUpTo(format, p, k))]
    BY <1>4, <1>7, <2>3, PieceAtPlace
  <2> QED  BY <2>1, <2>2, <2>4
<1>13. ASSUME NEW i \in k + 2..n
       PROVE  Piece(format, values, p, idx, i) = Piece(format, values, q, idx + 1, i)
  <2>1. i \in Nat /\ i # k /\ i - 1 # k /\ k <= i
    BY <1>1, <1>4
  <2>2. /\ i \in Places(format, p) <=> i \in Places(format, q)
        /\ i - 1 \in p <=> i - 1 \in q
    BY <1>p, <1>8, <2>1
  <2>3. CASE i \in Places(format, q)
    <3>1. PlacesUpTo(format, p, i) = PlacesUpTo(format, q, i) \cup {k}
      BY <1>8, <2>1 DEF PlacesUpTo
    <3>2. PICK d : d = Cardinality(PlacesUpTo(format, q, i)) /\ d \in Nat
                   /\ Cardinality(PlacesUpTo(format, p, i)) = d + 1
      <4>1. PlacesUpTo(format, q, i) \subseteq Places(format, q)
        BY DEF PlacesUpTo
      <4>2. IsFiniteSet(PlacesUpTo(format, q, i)) /\ k \notin PlacesUpTo(format, q, i)
        BY <1>6, <1>8, <4>1, FS_Subset
      <4>3. PICK d : d = Cardinality(PlacesUpTo(format, q, i)) /\ d \in Nat
        BY <4>2, FS_CardinalityType
      <4>4. Cardinality(PlacesUpTo(format, q, i) \cup {k}) = d + 1
        BY <4>2, <4>3, FS_AddElement
      <4> QED  BY <3>1, <4>3, <4>4
    <3>3. Piece(format, values, p, idx, i) = values[idx + (d + 1)]
      BY <1>7, <2>1, <2>2, <2>3, <3>2, PieceAtPlace
    <3>4. Piece(format, values, q, idx + 1, i) = values[(idx + 1) + d]
      BY <1>6, <2>1, <2>3, <3>2, PieceAtPlace
    <3>5. idx + (d + 1) = (idx + 1) + d
      BY <1>2, <3>2
    <3> QED  BY <3>3, <3>4, <3>5
  <2>4. CASE i - 1 \in q
    BY <1>6, <1>7, <2>1, <2>2, <2>4, PieceInPair
  <2>5. CASE i \notin Places(format, q) /\ i - 1 \notin q
    BY <2>2, <2>5, PieceElsewhere
  <2> QED  BY <2>3, <2>4, <2>5
<1>14. TextFrom(format, values, p, idx, k)
         = values[idx + 1] \o TextFrom(format, values, q, idx + 1, k + 2)
  <2>1. SamePieces(format, values, With(k, q), idx, q, idx + 1, k + 2)
    BY <1>1, <1>3, <1>13 DEF SamePieces
  <2>2. Piece(format, values, With(k, q), idx, k) = values[idx + 1]
    BY <1>3, <1>12
  <2>3. With(k, q) \in FitsFrom(format, values, idx, k)
    BY <1>3
  <2>4. /\ TextFrom(format, values, With(k, q), idx, k)
             = Piece(format, values, With(k, q), idx, k)
                 \o TextFrom(format, values, q, idx + 1, k + 2)
        /\ TextFrom(format, values, q, idx + 1, k + 2) \in Seq(Chars)
    BY <2>1, <2>3, PairPieces
  <2> QED  BY <1>3, <2>2, <2>4
<1> QED  BY <1>3, <1>14 DEF IsConcat

\* A {{ or }} stands for a brace.
LEMMA DoubleFits ==
  ASSUME NEW format, NEW values, NEW idx, NEW k, NEW q,
         format \in Seq(Chars), values \in Seq(Seq(Chars)), idx \in 0..Len(values),
         k \in 1..Len(format) - 1, IsPair(format, k), format[k] = format[k + 1],
         q \in CutsFrom(format, k + 2)
  PROVE  With(k, q) \in FitsFrom(format, values, idx, k)
           <=> q \in FitsFrom(format, values, idx, k + 2)
<1>1. PICK n : n = Len(format) /\ n \in Nat
  BY LenProperties
<1>2. PICK p : p = With(k, q)
  OBVIOUS
<1>p. p = {k} \cup q
  BY <1>2 DEF With
<1>3. k \in Nat /\ k + 2 \in Nat
  BY <1>1
<1>4. p \in CutsFrom(format, k)
  BY <1>2, CutsAtPair
<1>5. /\ q \subseteq k + 2..n - 1 /\ Spaced(q) /\ Places(format, q) \subseteq q
  BY <1>1, <1>3, CutFacts
<1>7. Places(format, p) = Places(format, q) /\ k \notin q
  BY <1>1, <1>p, <1>5 DEF Places
<1>8. p \in FitsFrom(format, values, idx, k) <=> q \in FitsFrom(format, values, idx, k + 2)
  BY <1>4, <1>7 DEF FitsFrom
<1> QED  BY <1>2, <1>8

LEMMA DoubleText ==
  ASSUME NEW format, NEW values, NEW idx, NEW k, NEW q,
         format \in Seq(Chars), values \in Seq(Seq(Chars)), idx \in 0..Len(values),
         k \in 1..Len(format) - 1, IsPair(format, k), format[k] = format[k + 1],
         q \in CutsFrom(format, k + 2),
         With(k, q) \in FitsFrom(format, values, idx, k)
  PROVE  TextFrom(format, values, With(k, q), idx, k)
           = <<format[k]>> \o TextFrom(format, values, q, idx, k + 2)
<1>1. PICK n : n = Len(format) /\ n \in Nat
  BY LenProperties
<1>2. PICK p : p = With(k, q)
  OBVIOUS
<1>p. p = {k} \cup q
  BY <1>2 DEF With
<1>3. k \in Nat /\ k + 2 \in Nat
  BY <1>1
<1>4. p \in CutsFrom(format, k)
  BY <1>2, CutsAtPair
<1>5. /\ q \subseteq k + 2..n - 1 /\ Spaced(q) /\ Places(format, q) \subseteq q
  BY <1>1, <1>3, CutFacts
<1>6. p \subseteq k..n - 1 /\ Spaced(p)
  BY <1>1, <1>3, <1>4, CutFacts
<1>7. Places(format, p) = Places(format, q) /\ k \notin q
  BY <1>1, <1>p, <1>5 DEF Places
<1>9. Piece(format, values, p, idx, k) = <<format[k]>>
  <2>1. k - 1 \notin p
    BY <1>3, <1>6
  <2>2. k \notin Places(format, p)
    BY <1>5, <1>7
  <2> QED  BY <2>1, <2>2, PieceElsewhere
<1>10. ASSUME NEW i \in k + 2..n
       PROVE  Piece(format, values, p, idx, i) = Piece(format, values, q, idx, i)
  <2>1. i \in Nat /\ i # k /\ i - 1 # k
    BY <1>1, <1>3
  <2>2. i - 1 \in p <=> i - 1 \in q
    BY <1>p, <2>1
  <2>3. CASE i \in Places(format, q)
    <3>1. PlacesUpTo(format, p, i) = PlacesUpTo(format, q, i)
      BY <1>7 DEF PlacesUpTo
    <3>2. Piece(format, values, p, idx, i)
            = values[idx + Cardinality(PlacesUpTo(format, p, i))]
      BY <1>6, <1>7, <2>1, <2>3, PieceAtPlace
    <3>3. Piece(format, values, q, idx, i)
            = values[idx + Cardinality(PlacesUpTo(format, q, i))]
      BY <1>5, <2>1, <2>3, PieceAtPlace
    <3> QED  BY <3>1, <3>2, <3>3
  <2>4. CASE i - 1 \in q
    BY <1>5, <1>6, <2>1, <2>2, <2>4, PieceInPair
  <2>5. CASE i \notin Places(format, q) /\ i - 1 \notin q
    BY <1>7, <2>2, <2>5, PieceElsewhere
  <2> QED  BY <2>3, <2>4, <2>5
<1>11. TextFrom(format, values, p, idx, k)
         = <<format[k]>> \o TextFrom(format, values, q, idx, k + 2)
  <2>1. SamePieces(format, values, With(k, q), idx, q, idx, k + 2)
    BY <1>1, <1>2, <1>10 DEF SamePieces
  <2>2. Piece(format, values, With(k, q), idx, k) = <<format[k]>>
    BY <1>2, <1>9
  <2>3. With(k, q) \in FitsFrom(format, values, idx, k)
    BY <1>2
  <2>4. /\ TextFrom(format, values, With(k, q), idx, k)
             = Piece(format, values, With(k, q), idx, k)
                 \o TextFrom(format, values, q, idx, k + 2)
        /\ TextFrom(format, values, q, idx, k + 2) \in Seq(Chars)
    BY <2>1, <2>3, PairPieces
  <2> QED  BY <1>2, <2>2, <2>4
<1> QED  BY <1>2, <1>11

\* Any other character stands for itself.
LEMMA OtherText ==
  ASSUME NEW format, NEW values, NEW idx, NEW k, NEW p,
         format \in Seq(Chars), values \in Seq(Seq(Chars)), idx \in 0..Len(values),
         k \in 1..Len(format), ~IsBrace(format[k]), p \in CutsFrom(format, k)
  PROVE  /\ p \in FitsFrom(format, values, idx, k)
              <=> p \in FitsFrom(format, values, idx, k + 1)
         /\ p \in FitsFrom(format, values, idx, k) =>
              /\ TextFrom(format, values, p, idx, k)
                   = <<format[k]>> \o TextFrom(format, values, p, idx, k + 1)
              /\ TextFrom(format, values, p, idx, k + 1) \in Seq(Chars)
<1>1. PICK n : n = Len(format) /\ n \in Nat
  BY LenProperties
<1>2. k \in Nat /\ k \in Nat \ {0} /\ k + 1 \in Nat /\ k + 1 \in 1..n + 1
  BY <1>1
<1>3. p \in CutsFrom(format, k + 1)
  BY CutsAtOther
<1>4. p \in FitsFrom(format, values, idx, k) <=> p \in FitsFrom(format, values, idx, k + 1)
  BY <1>3 DEF FitsFrom
<1>5. p \subseteq k + 1..n - 1 /\ Places(format, p) \subseteq p
  BY <1>1, <1>2, <1>3, CutFacts
<1>6. Piece(format, values, p, idx, k) = <<format[k]>>
  <2>1. k - 1 \notin p /\ k \notin p
    BY <1>2, <1>5
  <2>2. k \notin Places(format, p)
    BY <1>5, <2>1
  <2> QED  BY <2>1, <2>2, PieceElsewhere
<1>7. ASSUME p \in FitsFrom(format, values, idx, k)
      PROVE  /\ TextFrom(format, values, p, idx, k)
                  = <<format[k]>> \o TextFrom(format, values, p, idx, k + 1)
             /\ TextFrom(format, values, p, idx, k + 1) \in Seq(Chars)
  <2>1. \A i \in k..n : Piece(format, values, p, idx, i) \in Seq(Chars)
    BY <1>1, <1>2, <1>7, PieceType
  <2>2. \A i \in k + 1..n : Piece(format, values, p, idx, i) \in Seq(Chars)
    <3>1. \A i \in k + 1..n : i \in k..n
      BY <1>1, <1>2
    <3> QED  BY <2>1, <3>1
  <2>3. TextFrom(format, values, p, idx, k)
          = Piece(format, values, p, idx, k) \o TextFrom(format, values, p, idx, k + 1)
    BY <1>1, <2>1, TextFromCons
  <2>4. TextFrom(format, values, p, idx, k + 1) \in Seq(Chars)
    BY <1>1, <1>2, <2>2, TextFromType
  <2> QED  BY <1>6, <2>3, <2>4
<1> QED  BY <1>4, <1>7

-----------------------------------------------------------------------------
(* Format() is exact *)

Prefixed(text, texts) == {text \o rest : rest \in texts}

Texts(format, values, idx, k) ==
  {TextFrom(format, values, p, idx, k) : p \in FitsFrom(format, values, idx, k)}

LEMMA TextsAtEnd ==
  ASSUME NEW format, NEW values, NEW idx,
         format \in Seq(Chars), values \in Seq(Seq(Chars)), idx \in 0..Len(values)
  PROVE  Texts(format, values, idx, Len(format) + 1)
           = IF idx = Len(values) THEN {<<>>} ELSE {}
<1>1. PICK n : n = Len(format) /\ n \in Nat
  BY LenProperties
<1>2. PICK v : v = Len(values) /\ v \in Nat
  BY LenProperties
<1>3. CutsFrom(format, n + 1) = {{}}
  BY <1>1, CutsAtEnd
<1>4. Cardinality(Places(format, {})) = 0
  <2>1. Places(format, {}) = {}
    BY DEF Places
  <2> QED  BY <2>1, FS_EmptySet
<1>5. TextFrom(format, values, {}, idx, n + 1) = <<>>
  <2>1. PICK s : s = [m \in 1..(n + 1) - (n + 1) |->
                        Piece(format, values, {}, idx, (m + (n + 1)) - 1)]
    OBVIOUS
  <2>2. s \in Seq(Seq(Chars)) /\ Len(s) = 0
    BY <1>1, <2>1
  <2>3. s = <<>>
    BY <2>2, EmptySeq
  <2> QED  BY <1>1, <2>1, <2>3, FlattenEmpty DEF TextFrom
<1>6. FitsFrom(format, values, idx, n + 1) = IF idx = v THEN {{}} ELSE {}
  <2>1. 0 = v - idx <=> idx = v
    BY <1>2
  <2> QED  BY <1>2, <1>3, <1>4, <2>1 DEF FitsFrom
<1> QED  BY <1>1, <1>2, <1>5, <1>6 DEF Texts

LEMMA TextsAtArgument ==
  ASSUME NEW format, NEW values, NEW idx, NEW k,
         format \in Seq(Chars), values \in Seq(Seq(Chars)), idx \in 0..Len(values),
         k \in 1..Len(format) - 1, IsPair(format, k), format[k] # format[k + 1]
  PROVE  Texts(format, values, idx, k)
           = IF idx < Len(values)
             THEN Prefixed(values[idx + 1], Texts(format, values, idx + 1, k + 2))
             ELSE {}
<1> DEFINE Later == {values[idx + 1] \o rest : rest \in Texts(format, values, idx + 1, k + 2)}
<1>1. ASSUME NEW out \in Texts(format, values, idx, k)
      PROVE  idx < Len(values) /\ out \in Later
  <2>1. PICK p : /\ p \in FitsFrom(format, values, idx, k)
                 /\ out = TextFrom(format, values, p, idx, k)
    BY <1>1 DEF Texts
  <2>2. p \in CutsFrom(format, k)
    BY <2>1 DEF FitsFrom
  <2>3. PICK q \in CutsFrom(format, k + 2) : p = With(k, q)
    BY <2>2, CutsAtPair
  <2>4. idx < Len(values) /\ q \in FitsFrom(format, values, idx + 1, k + 2)
    BY <2>1, <2>3, ArgumentFits
  <2>5. With(k, q) \in FitsFrom(format, values, idx, k)
    BY <2>1, <2>3
  <2>6. IsConcat(TextFrom(format, values, With(k, q), idx, k), values[idx + 1],
                 TextFrom(format, values, q, idx + 1, k + 2))
    BY <2>5, ArgumentText
  <2>7. out = values[idx + 1] \o TextFrom(format, values, q, idx + 1, k + 2)
    BY <2>1, <2>3, <2>6 DEF IsConcat
  <2> QED  BY <2>4, <2>7 DEF Texts
<1>2. ASSUME NEW out \in Later, idx < Len(values)
      PROVE  out \in Texts(format, values, idx, k)
  <2>1. PICK q : /\ q \in FitsFrom(format, values, idx + 1, k + 2)
                 /\ out = values[idx + 1] \o TextFrom(format, values, q, idx + 1, k + 2)
    BY <1>2 DEF Texts
  <2>2. q \in CutsFrom(format, k + 2)
    BY <2>1 DEF FitsFrom
  <2>3. With(k, q) \in FitsFrom(format, values, idx, k)
    BY <1>2, <2>1, <2>2, ArgumentFits
  <2>4. IsConcat(TextFrom(format, values, With(k, q), idx, k), values[idx + 1],
                 TextFrom(format, values, q, idx + 1, k + 2))
    BY <2>2, <2>3, ArgumentText
  <2>5. out = TextFrom(format, values, With(k, q), idx, k)
    BY <2>1, <2>4 DEF IsConcat
  <2> QED  BY <2>3, <2>5 DEF Texts
<1> HIDE DEF Later
<1>3. Texts(format, values, idx, k) = IF idx < Len(values) THEN Later ELSE {}
  BY <1>1, <1>2
<1> QED  BY <1>3 DEF Later, Prefixed, Unit

LEMMA TextsAtDouble ==
  ASSUME NEW format, NEW values, NEW idx, NEW k,
         format \in Seq(Chars), values \in Seq(Seq(Chars)), idx \in 0..Len(values),
         k \in 1..Len(format) - 1, IsPair(format, k), format[k] = format[k + 1]
  PROVE  Texts(format, values, idx, k)
           = Prefixed(Unit(format[k]), Texts(format, values, idx, k + 2))
<1> DEFINE Later == {<<format[k]>> \o rest : rest \in Texts(format, values, idx, k + 2)}
<1>1. ASSUME NEW out \in Texts(format, values, idx, k)
      PROVE  out \in Later
  <2>1. PICK p : /\ p \in FitsFrom(format, values, idx, k)
                 /\ out = TextFrom(format, values, p, idx, k)
    BY <1>1 DEF Texts
  <2>2. p \in CutsFrom(format, k)
    BY <2>1 DEF FitsFrom
  <2>3. PICK q \in CutsFrom(format, k + 2) : p = With(k, q)
    BY <2>2, CutsAtPair
  <2>4. q \in FitsFrom(format, values, idx, k + 2)
    BY <2>1, <2>3, DoubleFits
  <2>5. With(k, q) \in FitsFrom(format, values, idx, k)
    BY <2>1, <2>3
  <2>6. TextFrom(format, values, With(k, q), idx, k)
          = <<format[k]>> \o TextFrom(format, values, q, idx, k + 2)
    BY <2>5, DoubleText
  <2>7. out = <<format[k]>> \o TextFrom(format, values, q, idx, k + 2)
    BY <2>1, <2>3, <2>6
  <2> QED  BY <2>4, <2>7 DEF Texts
<1>2. ASSUME NEW out \in Later
      PROVE  out \in Texts(format, values, idx, k)
  <2>1. PICK q : /\ q \in FitsFrom(format, values, idx, k + 2)
                 /\ out = <<format[k]>> \o TextFrom(format, values, q, idx, k + 2)
    BY <1>2 DEF Texts
  <2>2. q \in CutsFrom(format, k + 2)
    BY <2>1 DEF FitsFrom
  <2>3. With(k, q) \in FitsFrom(format, values, idx, k)
    BY <2>1, <2>2, DoubleFits
  <2>4. TextFrom(format, values, With(k, q), idx, k)
          = <<format[k]>> \o TextFrom(format, values, q, idx, k + 2)
    BY <2>2, <2>3, DoubleText
  <2>5. out = TextFrom(format, values, With(k, q), idx, k)
    BY <2>1, <2>4
  <2> QED  BY <2>3, <2>5 DEF Texts
<1> HIDE DEF Later
<1>3. Texts(format, values, idx, k) = Later
  BY <1>1, <1>2
<1> QED  BY <1>3 DEF Later, Prefixed, Unit

LEMMA TextsAtOther ==
  ASSUME NEW format, NEW values, NEW idx, NEW k,
         format \in Seq(Chars), values \in Seq(Seq(Chars)), idx \in 0..Len(values),
         k \in 1..Len(format), ~IsBrace(format[k])
  PROVE  Texts(format, values, idx, k)
           = Prefixed(Unit(format[k]), Texts(format, values, idx, k + 1))
<1> DEFINE Later == {<<format[k]>> \o rest : rest \in Texts(format, values, idx, k + 1)}
<1>1. ASSUME NEW out \in Texts(format, values, idx, k)
      PROVE  out \in Later
  <2>1. PICK p : /\ p \in FitsFrom(format, values, idx, k)
                 /\ out = TextFrom(format, values, p, idx, k)
    BY <1>1 DEF Texts
  <2>2. p \in CutsFrom(format, k)
    BY <2>1 DEF FitsFrom
  <2>3. p \in FitsFrom(format, values, idx, k + 1)
    BY <2>1, <2>2, OtherText
  <2>4. out = <<format[k]>> \o TextFrom(format, values, p, idx, k + 1)
    BY <2>1, <2>2, OtherText
  <2> QED  BY <2>3, <2>4 DEF Texts
<1>2. ASSUME NEW out \in Later
      PROVE  out \in Texts(format, values, idx, k)
  <2>1. PICK p : /\ p \in FitsFrom(format, values, idx, k + 1)
                 /\ out = <<format[k]>> \o TextFrom(format, values, p, idx, k + 1)
    BY <1>2 DEF Texts
  <2>2. p \in CutsFrom(format, k)
    BY <2>1, CutsAtOther DEF FitsFrom
  <2>3. p \in FitsFrom(format, values, idx, k)
    BY <2>1, <2>2, OtherText
  <2>4. out = TextFrom(format, values, p, idx, k)
    BY <2>1, <2>2, <2>3, OtherText
  <2> QED  BY <2>3, <2>4 DEF Texts
<1> HIDE DEF Later
<1>3. Texts(format, values, idx, k) = Later
  BY <1>1, <1>2
<1> QED  BY <1>3 DEF Later, Prefixed, Unit

LEMMA TextsAtStray ==
  ASSUME NEW format, NEW values, NEW idx, NEW k,
         format \in Seq(Chars), k \in 1..Len(format),
         IsBrace(format[k]), k < Len(format) => ~IsPair(format, k)
  PROVE  Texts(format, values, idx, k) = {}
<1>1. CutsFrom(format, k) = {}
  BY CutsAtStray
<1> QED  BY <1>1 DEF Texts, FitsFrom

\* What the loop makes of each character, in terms of the ways to cut.
Exact(format, values, k) ==
  \A idx \in 0..Len(values) :
    FormatFrom(format, values)[k][idx] = Texts(format, values, idx, k)

LEMMA ExactAt ==
  ASSUME NEW format, NEW values, NEW idx, NEW k,
         idx \in 0..Len(values), Exact(format, values, k)
  PROVE  FormatFrom(format, values)[k][idx] = Texts(format, values, idx, k)
BY DEF Exact

LEMMA TurnIs ==
  ASSUME NEW format, NEW values, NEW idx, NEW k,
         format \in Seq(Chars), idx \in 0..Len(values) + 1, k \in 1..Len(format) + 2
  PROVE  FormatFrom(format, values)[k][idx]
           = Turn(format, values, FormatFrom(format, values), k, idx)
BY FormatFromWrites

LEMMA LastExact ==
  ASSUME NEW format, NEW values, NEW k,
         format \in Seq(Chars), values \in Seq(Seq(Chars)), k = Len(format) + 1
  PROVE  Exact(format, values, k)
<1>1. PICK n : n = Len(format) /\ n \in Nat /\ k = n + 1
  BY LenProperties
<1>2. PICK v : v = Len(values) /\ v \in Nat
  BY LenProperties
<1>3. SUFFICES ASSUME NEW idx \in 0..v
               PROVE  FormatFrom(format, values)[k][idx] = Texts(format, values, idx, k)
  BY <1>2 DEF Exact
<1>4. idx \in 0..v + 1 /\ k \in 1..n + 2 /\ k \in Nat /\ k > n
  BY <1>1, <1>2
<1>5. PICK f : f = FormatFrom(format, values)
  OBVIOUS
<1>6. f[k][idx] = Turn(format, values, f, k, idx)
  BY <1>1, <1>2, <1>4, <1>5, TurnIs
<1>7. Turn(format, values, f, k, idx) = IF idx = v THEN {<<>>} ELSE {}
  BY <1>1, <1>2, <1>4, TurnAtEnd
<1>8. Texts(format, values, idx, k) = IF idx = v THEN {<<>>} ELSE {}
  BY <1>1, <1>2, TextsAtEnd
<1> QED  BY <1>5, <1>6, <1>7, <1>8

LEMMA StepExact ==
  ASSUME NEW format, NEW values, NEW k,
         format \in Seq(Chars), values \in Seq(Seq(Chars)), k \in 1..Len(format),
         Exact(format, values, k + 1), k < Len(format) => Exact(format, values, k + 2)
  PROVE  Exact(format, values, k)
<1>1. PICK n : n = Len(format) /\ n \in Nat
  BY LenProperties
<1>2. PICK v : v = Len(values) /\ v \in Nat
  BY LenProperties
<1>3. SUFFICES ASSUME NEW idx \in 0..v
               PROVE  FormatFrom(format, values)[k][idx] = Texts(format, values, idx, k)
  BY <1>2 DEF Exact
<1>4. idx \in 0..v + 1 /\ k \in 1..n + 2 /\ k \in Nat /\ ~(k > n) /\ idx \in Nat
  BY <1>1, <1>2
<1>n. ~(k > Len(format))
  BY <1>1, <1>4
<1>5. PICK f : f = FormatFrom(format, values)
  OBVIOUS
<1>6. f[k][idx] = Turn(format, values, f, k, idx)
  BY <1>1, <1>2, <1>4, <1>5, TurnIs
<1>7. At(format, k) = format[k] /\ (k < n => At(format, k + 1) = format[k + 1])
      /\ (~(k < n) => At(format, k + 1) = "end")
  <2>1. DOMAIN format = 1..n
    BY <1>1, LenProperties
  <2>2. k \in 1..n /\ (k < n <=> k + 1 \in 1..n)
    BY <1>1, <1>4
  <2> QED  BY <2>1, <2>2 DEF At
<1>8. CASE At(format, k) = LeftBrace /\ At(format, k + 1) = RightBrace
  <2>1. k < n /\ format[k] = LeftBrace /\ format[k + 1] = RightBrace
    BY <1>7, <1>8, BracesDiffer
  <2>2. k \in 1..Len(format) - 1 /\ IsPair(format, k) /\ format[k] # format[k + 1]
    BY <1>1, <1>4, <2>1, BracesDiffer DEF IsPair, IsBrace
  <2>3. Turn(format, values, f, k, idx)
          = IF idx < Len(values) THEN After(f, values[idx + 1], k + 2, idx + 1) ELSE {}
    BY <1>n, <1>8, TurnAtArgument
  <2>4. Texts(format, values, idx, k)
          = IF idx < Len(values)
            THEN Prefixed(values[idx + 1], Texts(format, values, idx + 1, k + 2))
            ELSE {}
    BY <1>2, <2>2, TextsAtArgument
  <2>5. CASE idx < v
    <3>1. idx + 1 \in 0..v
      BY <1>2, <1>4, <2>5
    <3>2. f[k + 2][idx + 1] = Texts(format, values, idx + 1, k + 2)
      BY <1>1, <1>2, <1>5, <2>1, <3>1, ExactAt
    <3> QED  BY <1>2, <1>5, <1>6, <2>3, <2>4, <2>5, <3>2 DEF After, Prefixed
  <2>6. CASE ~(idx < v)
    BY <1>2, <1>5, <1>6, <2>3, <2>4, <2>6
  <2> QED  BY <2>5, <2>6
<1>9. CASE IsBrace(At(format, k)) /\ At(format, k + 1) = At(format, k)
  <2>1. k < n /\ IsBrace(format[k]) /\ format[k + 1] = format[k]
    BY <1>7, <1>9, BracesDiffer DEF IsBrace
  <2>2. k \in 1..Len(format) - 1 /\ IsPair(format, k) /\ format[k] = format[k + 1]
    BY <1>1, <1>4, <2>1 DEF IsPair
  <2>3. Turn(format, values, f, k, idx) = After(f, Unit(At(format, k)), k + 2, idx)
    BY <1>n, <1>9, TurnAtDouble
  <2>4. Texts(format, values, idx, k)
          = Prefixed(Unit(format[k]), Texts(format, values, idx, k + 2))
    <3>1. idx \in 0..Len(values)
      BY <1>2
    <3> QED  BY <2>2, <3>1, TextsAtDouble
  <2>5. f[k + 2][idx] = Texts(format, values, idx, k + 2)
    BY <1>1, <1>2, <1>5, <2>1, ExactAt
  <2> QED  BY <1>5, <1>6, <1>7, <2>3, <2>4, <2>5 DEF After, Prefixed
<1>10. CASE /\ IsBrace(At(format, k))
            /\ At(format, k + 1) # At(format, k)
            /\ ~(At(format, k) = LeftBrace /\ At(format, k + 1) = RightBrace)
  <2>1. Turn(format, values, f, k, idx) = {}
    BY <1>n, <1>10, TurnAtStray
  <2>2. IsBrace(format[k]) /\ (k < n => ~IsPair(format, k))
    BY <1>7, <1>10 DEF IsPair
  <2>3. Texts(format, values, idx, k) = {}
    BY <1>1, <2>2, TextsAtStray
  <2> QED  BY <1>5, <1>6, <2>1, <2>3
<1>11. CASE ~IsBrace(At(format, k))
  <2>1. Turn(format, values, f, k, idx) = After(f, Unit(At(format, k)), k + 1, idx)
    BY <1>n, <1>11, TurnAtOther
  <2>2. Texts(format, values, idx, k)
          = Prefixed(Unit(format[k]), Texts(format, values, idx, k + 1))
    <3>1. idx \in 0..Len(values) /\ ~IsBrace(format[k])
      BY <1>2, <1>7, <1>11
    <3> QED  BY <3>1, TextsAtOther
  <2>3. f[k + 1][idx] = Texts(format, values, idx, k + 1)
    BY <1>2, <1>5, ExactAt
  <2> QED  BY <1>5, <1>6, <1>7, <2>1, <2>2, <2>3 DEF After, Prefixed
<1> QED  BY <1>8, <1>9, <1>10, <1>11

LEMMA AllExact ==
  ASSUME NEW format, NEW values,
         format \in Seq(Chars), values \in Seq(Seq(Chars))
  PROVE  Exact(format, values, 1)
<1>1. PICK n : n = Len(format) /\ n \in Nat
  BY LenProperties
<1> DEFINE P == {m \in Nat : m <= n => /\ Exact(format, values, (n + 1) - m)
                                       /\ m > 0 => Exact(format, values, (n + 2) - m)}
<1>2. 0 \in P
  BY <1>1, LastExact
<1>3. ASSUME NEW m \in P PROVE m + 1 \in P
  <2>1. m \in Nat /\ m + 1 \in Nat
    OBVIOUS
  <2> SUFFICES ASSUME m + 1 <= n
               PROVE  /\ Exact(format, values, (n + 1) - (m + 1))
                      /\ Exact(format, values, (n + 2) - (m + 1))
    BY <2>1
  <2>2. PICK k : k = (n + 1) - (m + 1) /\ k \in 1..n /\ k + 1 = (n + 1) - m
                 /\ k + 2 = (n + 2) - m /\ (n + 2) - (m + 1) = k + 1 /\ (k < n => m > 0)
    BY <1>1, <2>1
  <2>3. Exact(format, values, k + 1) /\ (k < n => Exact(format, values, k + 2))
    BY <1>1, <2>1, <2>2
  <2> HIDE DEF P
  <2>4. Exact(format, values, k)
    BY <1>1, <2>2, <2>3, StepExact
  <2> QED  BY <2>2, <2>3, <2>4
<1>4. P \in SUBSET Nat
  OBVIOUS
<1> HIDE DEF P
<1>5. n \in P
  BY <1>1, <1>2, <1>3, <1>4, InductiveSet
<1>6. n <= n /\ (n + 1) - n = 1
  BY <1>1
<1> QED  BY <1>5, <1>6 DEF P

-----------------------------------------------------------------------------
(* The output fits in the string that Format() has sized before *)

ArgsFrom(values, idx) == [m \in 1..Len(values) - idx |-> values[idx + m]]

\* The length of the arguments after the first idx.
ArgsSize(values, idx) == Len(FlattenSeq(ArgsFrom(values, idx)))

LEMMA ArgsFromType ==
  ASSUME NEW values, NEW idx, values \in Seq(Seq(Chars)), idx \in 0..Len(values)
  PROVE  ArgsFrom(values, idx) \in Seq(Seq(Chars))
<1>1. PICK v : v = Len(values) /\ v \in Nat /\ v - idx \in Nat
  BY LenProperties
<1>2. \A m \in 1..v - idx : values[idx + m] \in Seq(Chars)
  <2> TAKE m \in 1..v - idx
  <2>1. idx + m \in 1..v
    BY <1>1
  <2> QED  BY <1>1, <2>1, ElementOfSeq
<1>3. PICK s : s = [m \in 1..v - idx |-> values[idx + m]]
  OBVIOUS
<1>4. s \in Seq(Seq(Chars))
  BY <1>1, <1>2, <1>3
<1> QED  BY <1>1, <1>3, <1>4 DEF ArgsFrom

LEMMA ArgsSizeType ==
  ASSUME NEW values, NEW idx, values \in Seq(Seq(Chars)), idx \in 0..Len(values)
  PROVE  ArgsSize(values, idx) \in Nat
<1>1. ArgsFrom(values, idx) \in Seq(Seq(Chars))
  BY ArgsFromType
<1>2. FlattenSeq(ArgsFrom(values, idx)) \in Seq(Chars)
  BY <1>1, FlattenType
<1> QED  BY <1>2, LenProperties DEF ArgsSize

LEMMA ArgsSizeAll ==
  ASSUME NEW values, values \in Seq(Seq(Chars))
  PROVE  ArgsSize(values, 0) = Len(FlattenSeq(values))
<1>1. PICK v : v = Len(values) /\ v \in Nat
  BY LenProperties
<1>2. values = [m \in 1..v |-> values[m]]
  BY <1>1, LenProperties
<1>3. PICK s : s = [m \in 1..v - 0 |-> values[0 + m]]
  OBVIOUS
<1>4. v - 0 = v /\ \A m \in 1..v : 0 + m = m
  BY <1>1
<1>5. s = values
  BY <1>2, <1>3, <1>4
<1> QED  BY <1>1, <1>3, <1>5 DEF ArgsSize, ArgsFrom

LEMMA ArgsSizeStep ==
  ASSUME NEW values, NEW idx,
         values \in Seq(Seq(Chars)), idx \in 0..Len(values), idx < Len(values)
  PROVE  ArgsSize(values, idx) = Len(values[idx + 1]) + ArgsSize(values, idx + 1)
<1>1. PICK v : v = Len(values) /\ v \in Nat /\ idx \in Nat /\ idx + 1 \in 0..v
               /\ v - idx \in Nat /\ v - (idx + 1) \in Nat
  BY LenProperties
<1>2. PICK s : s = ArgsFrom(values, idx)
  OBVIOUS
<1>3. PICK r : r = ArgsFrom(values, idx + 1)
  OBVIOUS
<1>4. PICK x : x = values[idx + 1]
  OBVIOUS
<1>5. x \in Seq(Chars)
  <2>1. idx + 1 \in 1..v
    BY <1>1
  <2> QED  BY <1>1, <1>4, <2>1, ElementOfSeq
<1>6. s \in Seq(Seq(Chars)) /\ r \in Seq(Seq(Chars))
  BY <1>1, <1>2, <1>3, ArgsFromType
<1>7. /\ Len(s) = v - idx /\ Len(r) = v - (idx + 1)
      /\ \A m \in 1..v - idx : s[m] = values[idx + m]
      /\ \A m \in 1..v - (idx + 1) : r[m] = values[(idx + 1) + m]
  BY <1>1, <1>2, <1>3 DEF ArgsFrom
<1>8. s = <<x>> \o r
  <2>1. <<x>> \in Seq(Seq(Chars)) /\ Len(<<x>>) = 1 /\ <<x>>[1] = x
    BY <1>5
  <2>2. PICK t : t = <<x>> \o r
    OBVIOUS
  <2>3. /\ t \in Seq(Seq(Chars)) /\ Len(t) = 1 + (v - (idx + 1))
        /\ \A m \in 1..1 + (v - (idx + 1)) : t[m] = IF m <= 1 THEN <<x>>[m] ELSE r[m - 1]
    BY <1>6, <1>7, <2>1, <2>2, ConcatProperties
  <2>4. ASSUME NEW m \in 1..v - idx PROVE s[m] = t[m]
    <3>1. s[m] = values[idx + m] /\ m \in 1..1 + (v - (idx + 1))
      BY <1>1, <1>7
    <3>2. CASE m = 1
      BY <1>4, <2>1, <2>3, <3>1, <3>2
    <3>3. CASE m # 1
      <4>1. m - 1 \in 1..v - (idx + 1) /\ (idx + 1) + (m - 1) = idx + m
        BY <1>1, <3>3
      <4>2. r[m - 1] = values[idx + m]
        BY <1>7, <4>1
      <4>3. t[m] = r[m - 1]
        BY <1>1, <2>3, <3>1, <3>3
      <4> QED  BY <3>1, <4>2, <4>3
    <3> QED  BY <3>2, <3>3
  <2>5. Len(s) = Len(t)
    BY <1>1, <1>7, <2>3
  <2>6. s = t
    BY <1>6, <1>7, <2>3, <2>4, <2>5, SeqEqual
  <2> QED  BY <2>2, <2>6
<1>9. FlattenSeq(s) = x \o FlattenSeq(r)
  BY <1>5, <1>6, <1>8, FlattenCons
<1>10. FlattenSeq(r) \in Seq(Chars)
  BY <1>6, FlattenType
<1>11. Len(x \o FlattenSeq(r)) = Len(x) + Len(FlattenSeq(r))
  BY <1>5, <1>10, ConcatProperties
<1> QED  BY <1>2, <1>3, <1>4, <1>9, <1>11 DEF ArgsSize

LEMMA ArgsSizeEnd ==
  ASSUME NEW values, values \in Seq(Seq(Chars))
  PROVE  ArgsSize(values, Len(values)) = 0
<1>1. PICK v : v = Len(values) /\ v \in Nat
  BY LenProperties
<1>2. PICK s : s = [m \in 1..v - v |-> values[v + m]]
  OBVIOUS
<1>3. s = <<>>
  <2>1. s \in Seq(Seq(Chars)) /\ Len(s) = 0
    BY <1>1, <1>2
  <2> QED  BY <2>1, EmptySeq
<1> QED  BY <1>1, <1>2, <1>3, FlattenEmpty, EmptySeq DEF ArgsSize, ArgsFrom

\* What is written from the k-th character on fits in what is left.
Fits(format, values, idx, k, out) ==
  /\ out \in Seq(Chars)
  /\ Len(out) + 2 * (Len(values) - idx)
       <= ((Len(format) + 1) - k) + ArgsSize(values, idx)

Sized(format, values, k) ==
  \A idx \in 0..Len(values) :
    \A out \in FormatFrom(format, values)[k][idx] : Fits(format, values, idx, k, out)

LEMMA SizedAt ==
  ASSUME NEW format, NEW values, NEW idx, NEW k, NEW out,
         idx \in 0..Len(values), Sized(format, values, k),
         out \in FormatFrom(format, values)[k][idx]
  PROVE  Fits(format, values, idx, k, out)
BY DEF Sized

LEMMA LastSized ==
  ASSUME NEW format, NEW values, NEW k,
         format \in Seq(Chars), values \in Seq(Seq(Chars)), k = Len(format) + 1
  PROVE  Sized(format, values, k)
<1>1. PICK n : n = Len(format) /\ n \in Nat /\ k = n + 1
  BY LenProperties
<1>2. PICK v : v = Len(values) /\ v \in Nat
  BY LenProperties
<1>3. SUFFICES ASSUME NEW idx \in 0..v, NEW out \in FormatFrom(format, values)[k][idx]
               PROVE  Fits(format, values, idx, k, out)
  BY <1>2 DEF Sized
<1>4. idx \in 0..v + 1 /\ k \in 1..n + 2 /\ k \in Nat /\ k > n
  BY <1>1, <1>2
<1>5. PICK f : f = FormatFrom(format, values)
  OBVIOUS
<1>6. f[k][idx] = Turn(format, values, f, k, idx)
  BY <1>1, <1>2, <1>4, <1>5, TurnIs
<1>7. Turn(format, values, f, k, idx) = IF idx = v THEN {<<>>} ELSE {}
  BY <1>1, <1>2, <1>4, TurnAtEnd
<1>8. out = <<>> /\ idx = v
  BY <1>5, <1>6, <1>7
<1>9. ArgsSize(values, idx) = 0
  BY <1>2, <1>8, ArgsSizeEnd
<1>10. out \in Seq(Chars) /\ Len(out) = 0
  BY <1>8, EmptySeq
<1> QED  BY <1>1, <1>2, <1>8, <1>9, <1>10 DEF Fits

LEMMA StepSized ==
  ASSUME NEW format, NEW values, NEW k,
         format \in Seq(Chars), values \in Seq(Seq(Chars)), k \in 1..Len(format),
         Sized(format, values, k + 1), k < Len(format) => Sized(format, values, k + 2)
  PROVE  Sized(format, values, k)
<1>1. PICK n : n = Len(format) /\ n \in Nat
  BY LenProperties
<1>2. PICK v : v = Len(values) /\ v \in Nat
  BY LenProperties
<1>3. SUFFICES ASSUME NEW idx \in 0..v, NEW out \in FormatFrom(format, values)[k][idx]
               PROVE  Fits(format, values, idx, k, out)
  BY <1>2 DEF Sized
<1>4. idx \in 0..v + 1 /\ k \in 1..n + 2 /\ k \in Nat /\ ~(k > n) /\ idx \in Nat
  BY <1>1, <1>2
<1>n. ~(k > Len(format))
  BY <1>1, <1>4
<1>5. PICK f : f = FormatFrom(format, values)
  OBVIOUS
<1>6. out \in Turn(format, values, f, k, idx)
  BY <1>1, <1>2, <1>4, <1>5, TurnIs
<1>7. At(format, k) = format[k] /\ (~(k < n) => At(format, k + 1) = "end")
      /\ format[k] \in Chars
  <2>1. DOMAIN format = 1..n
    BY <1>1, LenProperties
  <2>2. k \in 1..n /\ (k < n <=> k + 1 \in 1..n)
    BY <1>1, <1>4
  <2> QED  BY <1>1, <2>1, <2>2, ElementOfSeq DEF At
<1>8. CASE At(format, k) = LeftBrace /\ At(format, k + 1) = RightBrace
  <2>1. k < n
    BY <1>7, <1>8, BracesDiffer
  <2>2. Turn(format, values, f, k, idx)
          = IF idx < Len(values) THEN After(f, values[idx + 1], k + 2, idx + 1) ELSE {}
    BY <1>n, <1>8, TurnAtArgument
  <2>3. idx < v /\ out \in After(f, values[idx + 1], k + 2, idx + 1)
    BY <1>2, <1>6, <2>2
  <2>4. PICK rest \in f[k + 2][idx + 1] : out = values[idx + 1] \o rest
    BY <2>3 DEF After
  <2>5. idx + 1 \in 0..v /\ idx + 1 \in 1..v
    BY <1>2, <1>4, <2>3
  <2>6. Fits(format, values, idx + 1, k + 2, rest)
    BY <1>1, <1>2, <1>5, <2>1, <2>5, SizedAt
  <2>7. PICK x : x = values[idx + 1] /\ x \in Seq(Chars)
    BY <1>2, <2>5, ElementOfSeq
  <2>8. /\ rest \in Seq(Chars)
        /\ Len(rest) + 2 * (v - (idx + 1)) <= ((n + 1) - (k + 2)) + ArgsSize(values, idx + 1)
    BY <1>1, <1>2, <2>6 DEF Fits
  <2>9. out \in Seq(Chars) /\ Len(out) = Len(x) + Len(rest)
    BY <2>4, <2>7, <2>8, ConcatProperties
  <2>10. ArgsSize(values, idx) = Len(x) + ArgsSize(values, idx + 1)
    BY <1>2, <2>3, <2>7, ArgsSizeStep
  <2>11. ArgsSize(values, idx + 1) \in Nat /\ Len(x) \in Nat /\ Len(rest) \in Nat
    BY <1>2, <2>5, <2>7, <2>8, ArgsSizeType, LenProperties
  <2>12. Len(out) + 2 * (v - idx) <= ((n + 1) - k) + ArgsSize(values, idx)
    <3>1. PICK lx : lx = Len(x) /\ lx \in Nat
      BY <2>11
    <3>2. PICK lr : lr = Len(rest) /\ lr \in Nat
      BY <2>11
    <3>3. PICK a : a = ArgsSize(values, idx + 1) /\ a \in Nat
      BY <2>11
    <3>4. lr + 2 * (v - (idx + 1)) <= ((n + 1) - (k + 2)) + a
      BY <2>8, <3>2, <3>3
    <3>5. k \in Int /\ idx \in Int /\ n \in Int /\ v \in Int
      BY <1>1, <1>2, <1>4
    <3>6. (lx + lr) + 2 * (v - idx) <= ((n + 1) - k) + (lx + a)
      BY <3>1, <3>2, <3>3, <3>4, <3>5
    <3> QED  BY <2>9, <2>10, <3>1, <3>2, <3>3, <3>6
  <2> QED  BY <1>1, <1>2, <2>9, <2>12 DEF Fits
<1>9. CASE IsBrace(At(format, k)) /\ At(format, k + 1) = At(format, k)
  <2>1. k < n
    BY <1>7, <1>9, BracesDiffer DEF IsBrace
  <2>2. Turn(format, values, f, k, idx) = After(f, Unit(At(format, k)), k + 2, idx)
    BY <1>n, <1>9, TurnAtDouble
  <2>3. PICK rest \in f[k + 2][idx] : out = <<format[k]>> \o rest
    BY <1>6, <1>7, <2>2 DEF After, Unit
  <2>4. Fits(format, values, idx, k + 2, rest)
    BY <1>1, <1>2, <1>5, <2>1, SizedAt
  <2>5. /\ rest \in Seq(Chars)
        /\ Len(rest) + 2 * (v - idx) <= ((n + 1) - (k + 2)) + ArgsSize(values, idx)
    BY <1>1, <1>2, <2>4 DEF Fits
  <2>6. <<format[k]>> \in Seq(Chars) /\ Len(<<format[k]>>) = 1
    BY <1>7
  <2>7. out \in Seq(Chars) /\ Len(out) = 1 + Len(rest)
    BY <2>3, <2>5, <2>6, ConcatProperties
  <2>8. ArgsSize(values, idx) \in Nat /\ Len(rest) \in Nat
    BY <1>2, <2>5, ArgsSizeType, LenProperties
  <2>9. Len(out) + 2 * (v - idx) <= ((n + 1) - k) + ArgsSize(values, idx)
    BY <1>1, <1>2, <1>4, <2>5, <2>7, <2>8
  <2> QED  BY <1>1, <1>2, <2>7, <2>9 DEF Fits
<1>10. CASE /\ IsBrace(At(format, k))
            /\ At(format, k + 1) # At(format, k)
            /\ ~(At(format, k) = LeftBrace /\ At(format, k + 1) = RightBrace)
  BY <1>n, <1>6, <1>10, TurnAtStray
<1>11. CASE ~IsBrace(At(format, k))
  <2>1. Turn(format, values, f, k, idx) = After(f, Unit(At(format, k)), k + 1, idx)
    BY <1>n, <1>11, TurnAtOther
  <2>2. PICK rest \in f[k + 1][idx] : out = <<format[k]>> \o rest
    BY <1>6, <1>7, <2>1 DEF After, Unit
  <2>3. Fits(format, values, idx, k + 1, rest)
    BY <1>1, <1>2, <1>5, SizedAt
  <2>4. /\ rest \in Seq(Chars)
        /\ Len(rest) + 2 * (v - idx) <= ((n + 1) - (k + 1)) + ArgsSize(values, idx)
    BY <1>1, <1>2, <2>3 DEF Fits
  <2>5. <<format[k]>> \in Seq(Chars) /\ Len(<<format[k]>>) = 1
    BY <1>7
  <2>6. out \in Seq(Chars) /\ Len(out) = 1 + Len(rest)
    BY <2>2, <2>4, <2>5, ConcatProperties
  <2>7. ArgsSize(values, idx) \in Nat /\ Len(rest) \in Nat
    BY <1>2, <2>4, ArgsSizeType, LenProperties
  <2>8. Len(out) + 2 * (v - idx) <= ((n + 1) - k) + ArgsSize(values, idx)
    BY <1>1, <1>2, <1>4, <2>4, <2>6, <2>7
  <2> QED  BY <1>1, <1>2, <2>6, <2>8 DEF Fits
<1> QED  BY <1>8, <1>9, <1>10, <1>11

LEMMA AllSized ==
  ASSUME NEW format, NEW values,
         format \in Seq(Chars), values \in Seq(Seq(Chars))
  PROVE  Sized(format, values, 1)
<1>1. PICK n : n = Len(format) /\ n \in Nat
  BY LenProperties
<1> DEFINE P == {m \in Nat : m <= n => /\ Sized(format, values, (n + 1) - m)
                                       /\ m > 0 => Sized(format, values, (n + 2) - m)}
<1>2. 0 \in P
  BY <1>1, LastSized
<1>3. ASSUME NEW m \in P PROVE m + 1 \in P
  <2>1. m \in Nat /\ m + 1 \in Nat
    OBVIOUS
  <2> SUFFICES ASSUME m + 1 <= n
               PROVE  /\ Sized(format, values, (n + 1) - (m + 1))
                      /\ Sized(format, values, (n + 2) - (m + 1))
    BY <2>1
  <2>2. PICK k : k = (n + 1) - (m + 1) /\ k \in 1..n /\ k + 1 = (n + 1) - m
                 /\ k + 2 = (n + 2) - m /\ (n + 2) - (m + 1) = k + 1 /\ (k < n => m > 0)
    BY <1>1, <2>1
  <2>3. Sized(format, values, k + 1) /\ (k < n => Sized(format, values, k + 2))
    BY <1>1, <2>1, <2>2
  <2> HIDE DEF P
  <2>4. Sized(format, values, k)
    BY <1>1, <2>2, <2>3, StepSized
  <2> QED  BY <2>2, <2>3, <2>4
<1>4. P \in SUBSET Nat
  OBVIOUS
<1> HIDE DEF P
<1>5. n \in P
  BY <1>1, <1>2, <1>3, <1>4, InductiveSet
<1>6. n <= n /\ (n + 1) - n = 1
  BY <1>1
<1> QED  BY <1>5, <1>6 DEF P

-----------------------------------------------------------------------------
(* Format() as a whole *)

LEMMA ExpansionIsText ==
  ASSUME NEW format, NEW values, NEW p,
         format \in Seq(Chars), p \in CutsFrom(format, 1)
  PROVE  Expansion(format, p, values) = TextFrom(format, values, p, 0, 1)
<1>1. PICK n : n = Len(format) /\ n \in Nat /\ DOMAIN format = 1..n
  BY LenProperties
<1>2. /\ p \subseteq 1..n - 1 /\ Spaced(p)
      /\ IsFiniteSet(Places(format, p)) /\ Places(format, p) \subseteq p
  BY <1>1, CutFacts
<1> DEFINE PieceOf(i) ==
      CASE i \in Places(format, p) ->
             values[Cardinality({j \in Places(format, p) : j <= i})]
        [] i - 1 \in p -> <<>>
        [] OTHER -> <<format[i]>>
<1>3. ASSUME NEW i \in 1..n
      PROVE  PieceOf(i) = Piece(format, values, p, 0, i)
  <2>1. PICK c : c = Cardinality({j \in Places(format, p) : j <= i}) /\ c \in Nat
    <3>1. {j \in Places(format, p) : j <= i} \subseteq Places(format, p)
      OBVIOUS
    <3> QED  BY <1>2, <3>1, FS_Subset, FS_CardinalityType
  <2>2. 0 + c = c
    BY <2>1
  <2> QED  BY <2>1, <2>2 DEF Piece
<1> HIDE DEF PieceOf
<1>4. PICK s : s = [i \in 1..n |-> PieceOf(i)]
  OBVIOUS
<1>5. PICK t : t = [m \in 1..(n + 1) - 1 |-> Piece(format, values, p, 0, (m + 1) - 1)]
  OBVIOUS
<1>6. s = t
  <2>1. (n + 1) - 1 = n /\ \A m \in 1..n : (m + 1) - 1 = m
    BY <1>1
  <2> QED  BY <1>3, <1>4, <1>5, <2>1
<1>7. Expansion(format, p, values) = FlattenSeq(s)
  BY <1>1, <1>4 DEF Expansion, PieceOf
<1> QED  BY <1>1, <1>5, <1>6, <1>7 DEF TextFrom

\* A format that strlen() sees the whole of has no terminating character inside.
LEMMA NoNulInside ==
  ASSUME NEW format
  PROVE  LengthIsStrlen(format) <=> "NUL" \notin Range(format)
BY Zenon DEF LengthIsStrlen, Range

LEMMA ExpansionsAreTexts ==
  ASSUME NEW format, NEW values,
         format \in Seq(Chars), values \in Seq(Seq(Chars)), LengthIsStrlen(format)
  PROVE  Expansions(format, values) = Texts(format, values, 0, 1)
<1>1. PICK v : v = Len(values) /\ v \in Nat /\ v - 0 = v
  BY LenProperties
<1>2. {p \in Cuts(format) : Cardinality(Places(format, p)) = Len(values)}
        = FitsFrom(format, values, 0, 1)
  BY <1>1, CutsIsCutsFrom DEF FitsFrom
<1>3. \A p \in FitsFrom(format, values, 0, 1) :
        Expansion(format, p, values) = TextFrom(format, values, p, 0, 1)
  BY ExpansionIsText DEF FitsFrom
<1>4. "NUL" \notin Range(format)
  BY NoNulInside
<1>5. Expansions(format, values)
        = {Expansion(format, p, values) : p \in FitsFrom(format, values, 0, 1)}
  BY <1>2, <1>4 DEF Expansions
<1> QED  BY <1>3, <1>5 DEF Texts

\* What Format() returns is an expansion of the format string, is text and fits
\* in the string that new_size was computed for; when that is negative, or a '\0'
\* ends the format string early, there is no expansion.
LEMMA FormatOfText ==
  ASSUME NEW format, NEW values,
         format \in Seq(Chars), values \in Seq(Seq(Chars))
  PROVE  /\ Format(format, values) = Expansions(format, values)
         /\ \A out \in Expansions(format, values) :
              out \in Seq(Chars) /\ Len(out) <= Room(format, values)
<1>1. PICK n : n = Len(format) /\ n \in Nat
  BY LenProperties
<1>2. PICK v : v = Len(values) /\ v \in Nat /\ 0 \in 0..v
  BY LenProperties
<1>3. PICK e : e = Len(FlattenSeq(values)) /\ e \in Nat
  BY FlattenType, LenProperties
<1>4. ASSUME LengthIsStrlen(format)
      PROVE  FormatFrom(format, values)[1][0] = Expansions(format, values)
  <2>1. Exact(format, values, 1)
    BY AllExact
  <2>2. FormatFrom(format, values)[1][0] = Texts(format, values, 0, 1)
    BY <1>2, <2>1, ExactAt
  <2> QED  BY <1>4, <2>2, ExpansionsAreTexts
<1>5. ASSUME NEW out \in Expansions(format, values)
      PROVE  out \in Seq(Chars) /\ Len(out) <= Room(format, values)
             /\ Room(format, values) >= 0 /\ LengthIsStrlen(format)
  <2>0. LengthIsStrlen(format)
    BY NoNulInside DEF Expansions
  <2>1. Fits(format, values, 0, 1, out)
    <3>1. Sized(format, values, 1)
      BY AllSized
    <3> QED  BY <1>2, <1>4, <2>0, <3>1, SizedAt
  <2>2. out \in Seq(Chars) /\ Len(out) + 2 * (v - 0) <= ((n + 1) - 1) + e
    BY <1>1, <1>2, <1>3, <2>1, ArgsSizeAll DEF Fits
  <2>3. Len(out) \in Nat
    BY <2>2, LenProperties
  <2> QED  BY <1>1, <1>2, <1>3, <2>0, <2>2, <2>3 DEF Room
<1>6. Room(format, values) \in Int
  BY <1>1, <1>2, <1>3 DEF Room
<1>7. Format(format, values) = Expansions(format, values)
  <2>1. CASE LengthIsStrlen(format) /\ Room(format, values) >= 0
    BY <1>4, <2>1 DEF Format
  <2>2. CASE ~(LengthIsStrlen(format) /\ Room(format, values) >= 0)
    <3>1. Expansions(format, values) = {}
      BY <1>5, <1>6, <2>2
    <3> QED  BY <2>2, <3>1 DEF Format
  <2> QED  BY <2>1, <2>2
<1> QED  BY <1>5, <1>7

LEMMA CallsAreText ==
  ASSUME NEW c, c \in Calls
  PROVE  c.format \in Seq(Chars) /\ c.values \in Seq(Seq(Chars))
<1>1. c.format \in Seq(STRING) /\ c.values \in Seq(Seq(STRING))
  BY LoggerAssumption DEF LoggerAssumption
<1>2. STRING \subseteq Chars
  BY DEF Chars
<1>3. Seq(STRING) \subseteq Seq(Chars)
  BY <1>2, SeqMonotonic
<1> QED  BY <1>1, <1>3, SeqMonotonic

-----------------------------------------------------------------------------
(* There is one way to cut a format string at most *)

LEMMA CutsContained ==
  ASSUME NEW format, NEW p, NEW q, NEW i,
         format \in Seq(Chars), p \in CutsFrom(format, 1), q \in CutsFrom(format, 1),
         i \in p, \A j \in p \cup q : j < i => (j \in p <=> j \in q)
  PROVE  i \in q
<1>1. PICK n : n = Len(format) /\ n \in Nat
  BY LenProperties
<1>2. /\ p \subseteq 1..n - 1 /\ q \subseteq 1..n - 1
      /\ \A j \in p : IsPair(format, j) /\ j + 1 \notin p
      /\ \A j \in 1..n : IsBrace(format[j]) => j \in q \/ j - 1 \in q
  BY <1>1 DEF CutsFrom
<1>3. i \in 1..n /\ i \in Nat
  BY <1>1, <1>2
<1>4. IsBrace(format[i])
  BY <1>2 DEF IsPair
<1>5. i \in q \/ i - 1 \in q
  BY <1>2, <1>3, <1>4
<1>6. ASSUME i - 1 \in q PROVE FALSE
  <2>1. i - 1 < i /\ (i - 1) + 1 = i
    BY <1>3
  <2>2. i - 1 \in p
    BY <1>6, <2>1
  <2> QED  BY <1>2, <2>1, <2>2
<1> QED  BY <1>5, <1>6

LEMMA OneCut ==
  ASSUME NEW format, NEW p, NEW q,
         format \in Seq(Chars), p \in CutsFrom(format, 1), q \in CutsFrom(format, 1)
  PROVE  p = q
<1>1. p \subseteq Nat /\ q \subseteq Nat
  <2>1. PICK n : n = Len(format) /\ n \in Nat
    BY LenProperties
  <2>2. p \subseteq 1..n - 1 /\ q \subseteq 1..n - 1
    BY <2>1 DEF CutsFrom
  <2> QED  BY <2>1, <2>2
<1>2. PICK d : d = {i \in p \cup q : ~(i \in p /\ i \in q)}
  OBVIOUS
<1>3. SUFFICES ASSUME d # {} PROVE FALSE
  BY <1>2
<1>4. d \in SUBSET Nat
  BY <1>1, <1>2
<1>5. PICK i \in d : \A j \in d : i <= j
  BY <1>3, <1>4, LeastNumber
<1>6. i \in Nat /\ i \in p \cup q /\ ~(i \in p /\ i \in q)
  BY <1>1, <1>2
<1>7. ASSUME NEW j \in p \cup q, j < i
      PROVE  j \in p <=> j \in q
  <2>1. j \in Nat /\ ~(i <= j)
    BY <1>1, <1>6, <1>7
  <2>2. j \notin d
    BY <1>5, <2>1
  <2> QED  BY <1>2, <2>2
<1>8. CASE i \in p
  <2>1. \A j \in p \cup q : j < i => (j \in p <=> j \in q)
    BY <1>7
  <2>2. i \in q
    BY <1>8, <2>1, CutsContained
  <2> QED  BY <1>6, <1>8, <2>2
<1>9. CASE i \in q
  <2>1. \A j \in q \cup p : j < i => (j \in q <=> j \in p)
    BY <1>7
  <2>2. i \in p
    BY <1>9, <2>1, CutsContained
  <2> QED  BY <1>6, <1>9, <2>2
<1> QED  BY <1>6, <1>8, <1>9

\* Format() is deterministic.
LEMMA OneExpansion ==
  ASSUME NEW format, NEW values, NEW out, NEW other,
         format \in Seq(Chars),
         out \in Expansions(format, values), other \in Expansions(format, values)
  PROVE  out = other
<1>1. PICK p \in Cuts(format) : out = Expansion(format, p, values)
  BY DEF Expansions
<1>2. PICK q \in Cuts(format) : other = Expansion(format, q, values)
  BY DEF Expansions
<1>3. p \in CutsFrom(format, 1) /\ q \in CutsFrom(format, 1)
  BY CutsIsCutsFrom
<1>4. p = q
  BY <1>3, OneCut
<1> QED  BY <1>1, <1>2, <1>4

-----------------------------------------------------------------------------
(* The line of a message *)

LEMMA FlattenTwo ==
  ASSUME NEW S, NEW a \in Seq(S), NEW b \in Seq(S)
  PROVE  FlattenSeq(<<a, b>>) = a \o b
<1>1. <<>> \in Seq(Seq(S)) /\ <<a>> \in Seq(Seq(S)) /\ <<a>> = Append(<<>>, a)
  BY EmptySeq
<1>2. FlattenSeq(<<a>>) = <<>> \o a
  BY <1>1, FlattenAppend, FlattenEmpty
<1>3. <<>> \o a = a
  BY ConcatEmptySeq
<1>4. <<a, b>> = Append(<<a>>, b)
  BY <1>1
<1> QED  BY <1>1, <1>2, <1>3, <1>4, FlattenAppend

AreTexts(a, b, c, d, e, f, g, h) ==
  /\ a \in Seq(Chars) /\ b \in Seq(Chars) /\ c \in Seq(Chars) /\ d \in Seq(Chars)
  /\ e \in Seq(Chars) /\ f \in Seq(Chars) /\ g \in Seq(Chars) /\ h \in Seq(Chars)

AreGlued(text, a, b, c, d, e, f, g, h) ==
  text = a \o (b \o (c \o (d \o (e \o (f \o (g \o h))))))

LEMMA FlattenEight ==
  ASSUME NEW a, NEW b, NEW c, NEW d, NEW e, NEW f, NEW g, NEW h,
         AreTexts(a, b, c, d, e, f, g, h)
  PROVE  AreGlued(FlattenSeq(<<a, b, c, d, e, f, g, h>>), a, b, c, d, e, f, g, h)
<1>S. PICK S : S = Chars
  OBVIOUS
<1>1. /\ a \in Seq(S) /\ b \in Seq(S) /\ c \in Seq(S) /\ d \in Seq(S)
      /\ e \in Seq(S) /\ f \in Seq(S) /\ g \in Seq(S) /\ h \in Seq(S)
  BY <1>S DEF AreTexts
<1>2. FlattenSeq(<<g, h>>) = g \o h
  BY <1>1, FlattenTwo
<1>3. FlattenSeq(<<f, g, h>>) = f \o FlattenSeq(<<g, h>>)
  <2>1. <<f, g, h>> = <<f>> \o <<g, h>> /\ <<g, h>> \in Seq(Seq(S))
    BY <1>1
  <2> QED  BY <1>1, <2>1, FlattenCons
<1>4. FlattenSeq(<<e, f, g, h>>) = e \o FlattenSeq(<<f, g, h>>)
  <2>1. <<e, f, g, h>> = <<e>> \o <<f, g, h>> /\ <<f, g, h>> \in Seq(Seq(S))
    BY <1>1
  <2> QED  BY <1>1, <2>1, FlattenCons
<1>5. FlattenSeq(<<d, e, f, g, h>>) = d \o FlattenSeq(<<e, f, g, h>>)
  <2>1. <<d, e, f, g, h>> = <<d>> \o <<e, f, g, h>> /\ <<e, f, g, h>> \in Seq(Seq(S))
    BY <1>1
  <2> QED  BY <1>1, <2>1, FlattenCons
<1>6. FlattenSeq(<<c, d, e, f, g, h>>) = c \o FlattenSeq(<<d, e, f, g, h>>)
  <2>1. <<c, d, e, f, g, h>> = <<c>> \o <<d, e, f, g, h>> /\ <<d, e, f, g, h>> \in Seq(Seq(S))
    BY <1>1
  <2> QED  BY <1>1, <2>1, FlattenCons
<1>7. FlattenSeq(<<b, c, d, e, f, g, h>>) = b \o FlattenSeq(<<c, d, e, f, g, h>>)
  <2>1. /\ <<b, c, d, e, f, g, h>> = <<b>> \o <<c, d, e, f, g, h>>
        /\ <<c, d, e, f, g, h>> \in Seq(Seq(S))
    BY <1>1
  <2> QED  BY <1>1, <2>1, FlattenCons
<1>8. FlattenSeq(<<a, b, c, d, e, f, g, h>>) = a \o FlattenSeq(<<b, c, d, e, f, g, h>>)
  <2>1. /\ <<a, b, c, d, e, f, g, h>> = <<a>> \o <<b, c, d, e, f, g, h>>
        /\ <<b, c, d, e, f, g, h>> \in Seq(Seq(S))
    BY <1>1
  <2> QED  BY <1>1, <2>1, FlattenCons
<1> QED  BY <1>2, <1>3, <1>4, <1>5, <1>6, <1>7, <1>8 DEF AreGlued

LEMMA ArgString ==
  ASSUME NEW x
  PROVE  Arg("string", x) = x
BY DEF Arg

LEMMA ArgInt ==
  ASSUME NEW x
  PROVE  Arg("int", x) = IntToString(x)
BY DEF Arg

LEMMA LettersAreNoBraces ==
  /\ ~IsBrace("[") /\ ~IsBrace(":") /\ ~IsBrace("(") /\ ~IsBrace(Bracket)
<1>1. "[" # LeftBrace /\ "[" # RightBrace
  BY Zenon DEF LeftBrace, RightBrace
<1>2. ":" # LeftBrace /\ ":" # RightBrace
  BY Zenon DEF LeftBrace, RightBrace
<1>3. "(" # LeftBrace /\ "(" # RightBrace
  BY Zenon DEF LeftBrace, RightBrace
<1>4. Bracket # LeftBrace /\ Bracket # RightBrace
  BY Zenon DEF LeftBrace, RightBrace, Bracket
<1> QED  BY <1>1, <1>2, <1>3, <1>4 DEF IsBrace

LEMMA LogFormatAt ==
  /\ LogFormat \in Seq(Chars) /\ Len(LogFormat) = 12
  /\ At(LogFormat, 1) = "[" /\ At(LogFormat, 2) = LeftBrace
  /\ At(LogFormat, 3) = RightBrace /\ At(LogFormat, 4) = ":"
  /\ At(LogFormat, 5) = LeftBrace /\ At(LogFormat, 6) = RightBrace
  /\ At(LogFormat, 7) = "(" /\ At(LogFormat, 8) = LeftBrace
  /\ At(LogFormat, 9) = RightBrace /\ At(LogFormat, 10) = Bracket
  /\ At(LogFormat, 11) = LeftBrace /\ At(LogFormat, 12) = RightBrace
<1>1. /\ "[" \in Chars /\ ":" \in Chars /\ "(" \in Chars /\ Bracket \in Chars
      /\ LeftBrace \in Chars /\ RightBrace \in Chars
  BY DEF Chars
<1>2. LogFormat \in Seq(Chars) /\ Len(LogFormat) = 12
  BY <1>1 DEF LogFormat
<1>3. DOMAIN LogFormat = 1..12
  BY DEF LogFormat
<1> QED  BY <1>2, <1>3 DEF LogFormat, At

\* What Format() may write from the k-th character on.
Writes(format, values, k, idx, out) == out \in FormatFrom(format, values)[k][idx]

\* One turn of the loop, at a character and at a {}.
LEMMA UnitTurn ==
  ASSUME NEW format, NEW values, NEW k, NEW idx, NEW out, NEW c, NEW j,
         format \in Seq(Chars), k \in 1..Len(format), idx \in 0..Len(values) + 1,
         At(format, k) = c, ~IsBrace(c), j = k + 1,
         Writes(format, values, k, idx, out)
  PROVE  \E rest : Writes(format, values, j, idx, rest) /\ IsConcat(out, Unit(c), rest)
<1>1. PICK n : n = Len(format) /\ n \in Nat
  BY LenProperties
<1>2. ~(k > Len(format)) /\ k \in 1..n + 2
  BY <1>1
<1>3. PICK f : f = FormatFrom(format, values)
  OBVIOUS
<1>4. out \in Turn(format, values, f, k, idx)
  BY <1>1, <1>2, <1>3, TurnIs DEF Writes
<1>5. Turn(format, values, f, k, idx) = After(f, Unit(At(format, k)), k + 1, idx)
  BY <1>2, TurnAtOther
<1> QED  BY <1>3, <1>4, <1>5 DEF After, IsConcat, Writes

LEMMA ArgumentTurn ==
  ASSUME NEW format, NEW values, NEW k, NEW idx, NEW out, NEW x, NEW j, NEW jdx,
         format \in Seq(Chars), k \in 1..Len(format), idx \in 0..Len(values) + 1,
         At(format, k) = LeftBrace, At(format, k + 1) = RightBrace,
         j = k + 2, jdx = idx + 1, values[jdx] = x,
         Writes(format, values, k, idx, out)
  PROVE  \E rest : Writes(format, values, j, jdx, rest) /\ IsConcat(out, x, rest)
<1>1. PICK n : n = Len(format) /\ n \in Nat
  BY LenProperties
<1>2. ~(k > Len(format)) /\ k \in 1..n + 2
  BY <1>1
<1>3. PICK f : f = FormatFrom(format, values)
  OBVIOUS
<1>4. out \in Turn(format, values, f, k, idx)
  BY <1>1, <1>2, <1>3, TurnIs DEF Writes
<1>5. Turn(format, values, f, k, idx)
        = IF idx < Len(values) THEN After(f, values[idx + 1], k + 2, idx + 1) ELSE {}
  BY <1>2, TurnAtArgument
<1>6. out \in After(f, values[idx + 1], k + 2, idx + 1)
  BY <1>4, <1>5
<1> QED  BY <1>3, <1>6 DEF After, IsConcat, Writes

LEMMA EndTurn ==
  ASSUME NEW format, NEW values, NEW k, NEW idx, NEW out,
         format \in Seq(Chars), k = Len(format) + 1, idx \in 0..Len(values) + 1,
         Writes(format, values, k, idx, out)
  PROVE  out = <<>>
<1>1. PICK n : n = Len(format) /\ n \in Nat
  BY LenProperties
<1>2. k > Len(format) /\ k \in 1..n + 2 /\ k \in Nat
  BY <1>1
<1>3. PICK f : f = FormatFrom(format, values)
  OBVIOUS
<1>4. out \in Turn(format, values, f, k, idx)
  BY <1>1, <1>2, <1>3, TurnIs DEF Writes
<1>5. Turn(format, values, f, k, idx) = IF idx = Len(values) THEN {<<>>} ELSE {}
  BY <1>2, TurnAtEnd
<1> QED  BY <1>4, <1>5

\* The texts that a line is made of.
LineParts(lev, message) ==
  <<<<"[">>, <<LevelStr[lev]>>, <<":">>, <<"file">>, <<"(">>,
    Arg("int", 10), <<Bracket>>, message>>

LEMMA LinePartsType ==
  ASSUME NEW lev, NEW message, lev \in 1..5, message \in Seq(Chars)
  PROVE  /\ <<"[">> \in Seq(Chars) /\ <<LevelStr[lev]>> \in Seq(Chars)
         /\ <<":">> \in Seq(Chars) /\ <<"file">> \in Seq(Chars)
         /\ <<"(">> \in Seq(Chars) /\ Arg("int", 10) \in Seq(Chars)
         /\ <<Bracket>> \in Seq(Chars)
<1>1. "[" \in Chars /\ ":" \in Chars /\ "(" \in Chars /\ "file" \in Chars /\ Bracket \in Chars
  BY DEF Chars
<1>2. LevelStr[lev] \in Chars
  <2>1. lev = 1 \/ lev = 2 \/ lev = 3 \/ lev = 4 \/ lev = 5
    OBVIOUS
  <2>2. /\ LevelStr[1] \in Chars /\ LevelStr[2] \in Chars /\ LevelStr[3] \in Chars
        /\ LevelStr[4] \in Chars /\ LevelStr[5] \in Chars
    BY DEF Chars
  <2> QED  BY <2>1, <2>2
<1>3. Arg("int", 10) \in Seq(Chars)
  BY ArgInt, IntToStringType
<1> QED  BY <1>1, <1>2, <1>3

\* Log() makes the line of its level, its place and the message.
LEMMA LineIs ==
  ASSUME NEW lev, NEW message, NEW text,
         lev \in 1..5, message \in Seq(Chars), text \in LineOf(lev, message)
  PROVE  text = StrCat(LineParts(lev, message))
<1>1. PICK a : a = <<LevelStr[lev]>> /\ a \in Seq(Chars)
  BY LinePartsType
<1>2. PICK b : b = <<"file">> /\ b \in Seq(Chars)
  BY LinePartsType
<1>3. PICK c : c = Arg("int", 10) /\ c \in Seq(Chars)
  BY LinePartsType
<1>4. PICK values : values = <<a, b, c, message>>
  OBVIOUS
<1>5. /\ Len(values) = 4 /\ values[1] = a /\ values[2] = b /\ values[3] = c
      /\ values[4] = message
  BY <1>4
<1>6. \A idx \in 0..4 : idx \in 0..Len(values) + 1
  BY <1>5
<1>7. Writes(LogFormat, values, 1, 0, text)
  <2>1. /\ Arg("string", <<LevelStr[lev]>>) = a /\ Arg("string", <<"file">>) = b
        /\ Arg("int", 10) = c /\ Arg("string", message) = message
    BY <1>1, <1>2, <1>3, ArgString, Zenon
  <2>2. values = <<Arg("string", <<LevelStr[lev]>>), Arg("string", <<"file">>),
                   Arg("int", 10), Arg("string", message)>>
    BY <1>4, <2>1
  <2>3. LineOf(lev, message) = Format(LogFormat, values)
    BY <2>2 DEF LineOf
  <2> QED  BY <2>3 DEF Format, Writes
<1>8. PICK r1 : Writes(LogFormat, values, 2, 0, r1) /\ IsConcat(text, Unit("["), r1)
  <2>1. 1 \in 1..Len(LogFormat) /\ 0 \in 0..Len(values) + 1 /\ 2 = 1 + 1
    BY <1>5, LogFormatAt
  <2> QED  BY <1>5, <1>7, <2>1, UnitTurn, LogFormatAt, LettersAreNoBraces
<1>9. PICK r2 : Writes(LogFormat, values, 4, 1, r2) /\ IsConcat(r1, a, r2)
  <2>1. 2 \in 1..Len(LogFormat) /\ 0 \in 0..Len(values) + 1 /\ 4 = 2 + 2
        /\ 1 = 0 + 1 /\ At(LogFormat, 2 + 1) = RightBrace
    BY <1>5, LogFormatAt
  <2> QED  BY <1>5, <1>8, <2>1, ArgumentTurn, LogFormatAt
<1>10. PICK r3 : Writes(LogFormat, values, 5, 1, r3) /\ IsConcat(r2, Unit(":"), r3)
  <2>1. 4 \in 1..Len(LogFormat) /\ 1 \in 0..Len(values) + 1 /\ 5 = 4 + 1
    BY <1>5, LogFormatAt
  <2> QED  BY <1>5, <1>9, <2>1, UnitTurn, LogFormatAt, LettersAreNoBraces
<1>11. PICK r4 : Writes(LogFormat, values, 7, 2, r4) /\ IsConcat(r3, b, r4)
  <2>1. 5 \in 1..Len(LogFormat) /\ 1 \in 0..Len(values) + 1 /\ 7 = 5 + 2
        /\ 2 = 1 + 1 /\ At(LogFormat, 5 + 1) = RightBrace
    BY <1>5, LogFormatAt
  <2> QED  BY <1>5, <1>10, <2>1, ArgumentTurn, LogFormatAt
<1>12. PICK r5 : Writes(LogFormat, values, 8, 2, r5) /\ IsConcat(r4, Unit("("), r5)
  <2>1. 7 \in 1..Len(LogFormat) /\ 2 \in 0..Len(values) + 1 /\ 8 = 7 + 1
    BY <1>5, LogFormatAt
  <2> QED  BY <1>5, <1>11, <2>1, UnitTurn, LogFormatAt, LettersAreNoBraces
<1>13. PICK r6 : Writes(LogFormat, values, 10, 3, r6) /\ IsConcat(r5, c, r6)
  <2>1. 8 \in 1..Len(LogFormat) /\ 2 \in 0..Len(values) + 1 /\ 10 = 8 + 2
        /\ 3 = 2 + 1 /\ At(LogFormat, 8 + 1) = RightBrace
    BY <1>5, LogFormatAt
  <2> QED  BY <1>5, <1>12, <2>1, ArgumentTurn, LogFormatAt
<1>14. PICK r7 : Writes(LogFormat, values, 11, 3, r7) /\ IsConcat(r6, Unit(Bracket), r7)
  <2>1. 10 \in 1..Len(LogFormat) /\ 3 \in 0..Len(values) + 1 /\ 11 = 10 + 1
    BY <1>5, LogFormatAt
  <2> QED  BY <1>5, <1>13, <2>1, UnitTurn, LogFormatAt, LettersAreNoBraces
<1>15. PICK r8 : Writes(LogFormat, values, 13, 4, r8) /\ IsConcat(r7, message, r8)
  <2>1. 11 \in 1..Len(LogFormat) /\ 3 \in 0..Len(values) + 1 /\ 13 = 11 + 2
        /\ 4 = 3 + 1 /\ At(LogFormat, 11 + 1) = RightBrace
    BY <1>5, LogFormatAt
  <2> QED  BY <1>5, <1>14, <2>1, ArgumentTurn, LogFormatAt
<1>16. r8 = <<>>
  <2>1. 13 = Len(LogFormat) + 1 /\ 4 \in 0..Len(values) + 1
    BY <1>5, LogFormatAt
  <2> QED  BY <1>15, <2>1, EndTurn, LogFormatAt
<1>17. r7 = message
  BY <1>15, <1>16, ConcatEmptySeq DEF IsConcat
<1>18. text = Unit("[") \o (a \o (Unit(":") \o (b \o (Unit("(")
                \o (c \o (Unit(Bracket) \o message))))))
  BY <1>8, <1>9, <1>10, <1>11, <1>12, <1>13, <1>14, <1>17 DEF IsConcat
<1>19. PICK p : p = <<"[">> /\ p \in Seq(Chars)
  BY LinePartsType
<1>20. PICK q : q = <<":">> /\ q \in Seq(Chars)
  BY LinePartsType
<1>21. PICK r : r = <<"(">> /\ r \in Seq(Chars)
  BY LinePartsType
<1>22. PICK s : s = <<Bracket>> /\ s \in Seq(Chars)
  BY LinePartsType
<1>23. AreGlued(FlattenSeq(<<p, a, q, b, r, c, s, message>>),
                p, a, q, b, r, c, s, message)
  <2>1. AreTexts(p, a, q, b, r, c, s, message)
    BY <1>1, <1>2, <1>3, <1>19, <1>20, <1>21, <1>22 DEF AreTexts
  <2> QED  BY <2>1, FlattenEight
<1>24. LineParts(lev, message) = <<p, a, q, b, r, c, s, message>>
  BY <1>1, <1>2, <1>3, <1>19, <1>20, <1>21, <1>22 DEF LineParts
<1> QED  BY <1>18, <1>19, <1>20, <1>21, <1>22, <1>23, <1>24 DEF StrCat, Unit, AreGlued

LEMMA LineType ==
  ASSUME NEW lev, NEW message, lev \in 1..5, message \in Seq(Chars)
  PROVE  StrCat(LineParts(lev, message)) \in Seq(Chars)
<1>1. PICK s : s = Seq(Chars)
  OBVIOUS
<1>2. /\ <<"[">> \in s /\ <<LevelStr[lev]>> \in s /\ <<":">> \in s /\ <<"file">> \in s
      /\ <<"(">> \in s /\ Arg("int", 10) \in s /\ <<Bracket>> \in s /\ message \in s
  BY <1>1, LinePartsType
<1>3. LineParts(lev, message) \in Seq(s)
  BY <1>2 DEF LineParts
<1>4. LineParts(lev, message) \in Seq(Seq(Chars))
  BY <1>1, <1>3
<1> QED  BY <1>4, FlattenType DEF StrCat

LEMMA PrintedType ==
  ASSUME NEW text, text \in Seq(Chars)
  PROVE  Printed(text) \in Seq(Chars)
<1>1. PICK n : n = Len(text) /\ n \in Nat
  BY LenProperties
<1>2. PICK found : found = {i \in 1..n : text[i] = "NUL"}
  OBVIOUS
<1>3. PICK nul : nul = IF found # {} THEN Min(found) ELSE 0
  OBVIOUS
<1>4. Printed(text) = IF nul = 0 THEN text ELSE SubSeq(text, 1, nul - 1)
  BY <1>1, <1>2, <1>3 DEF Printed, SelectInSeq
<1>5. nul = 0 \/ nul \in 1..n
  <2>1. CASE found = {}
    BY <1>3, <2>1
  <2>2. CASE found # {}
    <3>1. found \in SUBSET Nat
      BY <1>2
    <3>2. \E m \in found : \A i \in found : m <= i
      BY <2>2, <3>1, LeastNumber
    <3>3. Min(found) \in found
      BY <3>2 DEF Min
    <3> QED  BY <1>2, <1>3, <2>2, <3>3
  <2> QED  BY <2>1, <2>2
<1>6. CASE nul = 0
  BY <1>4, <1>6
<1>7. CASE nul \in 1..n
  <2>1. nul # 0 /\ nul - 1 \in 0..n
    BY <1>1, <1>7
  <2>2. SubSeq(text, 1, nul - 1) \in Seq(Chars)
    BY <1>1, <2>1, SubSeqProperties
  <2> QED  BY <1>4, <2>1, <2>2
<1> QED  BY <1>5, <1>6, <1>7

-----------------------------------------------------------------------------
(* What the lines of a file should be *)

\* Rendered(), for a call of Format().
RenderedOf(c, lev) ==
  LET message == CHOOSE out \in Expansions(c.format, c.values) : TRUE
  IN  Printed(StrCat(LineParts(lev, message))) \o <<"\n">>

\* The levels that messages of the call are logged at.
Renderable(c) == {lev \in LogLevels : RenderedOf(c, lev) \in Seq(Chars)}

LinesOf(c, levels) == FlattenSeq([i \in DOMAIN levels |-> RenderedOf(c, levels[i])])

LEMMA RenderedIs == \A lev : Rendered(lev) = RenderedOf(call, lev)
BY DEF Rendered, RenderedOf, LineParts

LEMMA LinesIs == \A l : Lines(l) = LinesOf(call, flushed[l])
BY RenderedIs DEF Lines, LinesOf

\* What a thread is about to print is the line of its message.
LEMMA LogRenders ==
  ASSUME NEW c, NEW lev, NEW message, NEW text,
         c \in Calls, lev \in LogLevels,
         message \in Format(c.format, c.values), text \in LineOf(lev, message)
  PROVE  /\ text \in Seq(Chars)
         /\ Printed(text) \o <<"\n">> = RenderedOf(c, lev)
         /\ lev \in Renderable(c)
<1>1. lev \in 1..5
  BY LoggerAssumption DEF LoggerAssumption, kDebug, kFatal
<1>2. PICK e : e = Expansions(c.format, c.values)
  OBVIOUS
<1>3. message \in e /\ message \in Seq(Chars)
  BY <1>2, CallsAreText, FormatOfText
<1>4. (CHOOSE out \in e : TRUE) = message
  <2>1. (CHOOSE out \in e : TRUE) \in e
    BY <1>3
  <2> QED  BY <1>2, <1>3, <2>1, CallsAreText, OneExpansion
<1>5. text = StrCat(LineParts(lev, message))
  BY <1>1, <1>3, LineIs
<1>6. text \in Seq(Chars)
  BY <1>1, <1>3, <1>5, LineType
<1>7. Printed(text) \o <<"\n">> = RenderedOf(c, lev)
  BY <1>2, <1>4, <1>5 DEF RenderedOf
<1>8. RenderedOf(c, lev) \in Seq(Chars)
  <2>1. "\n" \in Chars
    BY DEF Chars
  <2>2. <<"\n">> \in Seq(Chars) /\ Printed(text) \in Seq(Chars)
    BY <1>6, <2>1, PrintedType
  <2>3. Printed(text) \o <<"\n">> \in Seq(Chars)
    BY <2>2, ConcatProperties
  <2> QED  BY <1>7, <2>3
<1> QED  BY <1>6, <1>7, <1>8 DEF Renderable

LEMMA LinesType ==
  ASSUME NEW c, NEW levels, levels \in Seq(Renderable(c))
  PROVE  LinesOf(c, levels) \in Seq(Chars)
<1>1. PICK n : n = Len(levels) /\ n \in Nat /\ DOMAIN levels = 1..n
  BY LenProperties
<1>2. PICK s : s = [i \in 1..n |-> RenderedOf(c, levels[i])]
  OBVIOUS
<1>3. \A i \in 1..n : RenderedOf(c, levels[i]) \in Seq(Chars)
  <2> TAKE i \in 1..n
  <2>1. levels[i] \in Renderable(c)
    BY <1>1, ElementOfSeq
  <2> QED  BY <2>1 DEF Renderable
<1>4. s \in Seq(Seq(Chars))
  BY <1>1, <1>2, <1>3
<1> QED  BY <1>1, <1>2, <1>4, FlattenType DEF LinesOf

\* One line more.
LEMMA LinesAppend ==
  ASSUME NEW c, NEW levels, NEW lev,
         levels \in Seq(Renderable(c)), lev \in Renderable(c)
  PROVE  LinesOf(c, Append(levels, lev)) = LinesOf(c, levels) \o RenderedOf(c, lev)
<1>1. PICK n : n = Len(levels) /\ n \in Nat /\ DOMAIN levels = 1..n
  BY LenProperties
<1>2. PICK s : s = [i \in 1..n |-> RenderedOf(c, levels[i])]
  OBVIOUS
<1>3. PICK x : x = RenderedOf(c, lev) /\ x \in Seq(Chars)
  BY DEF Renderable
<1>4. \A i \in 1..n : RenderedOf(c, levels[i]) \in Seq(Chars)
  <2> TAKE i \in 1..n
  <2>1. levels[i] \in Renderable(c)
    BY <1>1, ElementOfSeq
  <2> QED  BY <2>1 DEF Renderable
<1>5. s \in Seq(Seq(Chars)) /\ Len(s) = n
  BY <1>1, <1>2, <1>4
<1>6. PICK more : more = Append(levels, lev)
  OBVIOUS
<1>7. /\ DOMAIN more = 1..n + 1 /\ more[n + 1] = lev
      /\ \A i \in 1..n : more[i] = levels[i]
  <2>1. more \in Seq(Renderable(c)) /\ Len(more) = n + 1
    BY <1>1, <1>6, AppendProperties
  <2>2. more[n + 1] = lev /\ \A i \in 1..n : more[i] = levels[i]
    BY <1>1, <1>6, AppendProperties
  <2>3. DOMAIN more = 1..Len(more)
    BY <2>1, LenProperties
  <2> QED  BY <2>1, <2>2, <2>3
<1>8. PICK t : t = [i \in 1..n + 1 |-> RenderedOf(c, more[i])]
  OBVIOUS
<1>9. t = Append(s, x)
  <2>1. PICK u : u = Append(s, x)
    OBVIOUS
  <2>2. /\ u \in Seq(Seq(Chars)) /\ Len(u) = n + 1 /\ u[n + 1] = x
        /\ \A i \in 1..n : u[i] = s[i]
    BY <1>3, <1>5, <2>1, AppendProperties
  <2>3. u = [i \in 1..n + 1 |-> u[i]]
    BY <2>2, LenProperties
  <2>4. \A i \in 1..n + 1 : RenderedOf(c, more[i]) = u[i]
    <3> TAKE i \in 1..n + 1
    <3>1. CASE i \in 1..n
      BY <1>2, <1>7, <2>2, <3>1
    <3>2. CASE i = n + 1
      BY <1>3, <1>7, <2>2, <3>2
    <3> QED  BY <1>1, <3>1, <3>2
  <2>5. t = [i \in 1..n + 1 |-> u[i]]
    BY <1>8, <2>4
  <2> QED  BY <2>1, <2>3, <2>5
<1>10. FlattenSeq(Append(s, x)) = FlattenSeq(s) \o x
  BY <1>3, <1>5, FlattenAppend
<1> QED  BY <1>1, <1>2, <1>3, <1>6, <1>7, <1>8, <1>9, <1>10 DEF LinesOf

LEMMA PrefixConcat ==
  ASSUME NEW S, NEW s \in Seq(S), NEW t \in Seq(S)
  PROVE  IsPrefix(s, s \o t)
<1>1. PICK n : n = Len(s) /\ n \in Nat
  BY LenProperties
<1>2. PICK m : m = Len(t) /\ m \in Nat
  BY LenProperties
<1>3. PICK u : u = s \o t
  OBVIOUS
<1>4. Len(u) = n + m /\ \A i \in 1..n : u[i] = s[i] /\ s[i] \in S
  BY <1>1, <1>2, <1>3, ConcatProperties, ElementOfSeq
<1>5. PICK a : a = SubSeq(s, 1, n)
  OBVIOUS
<1>6. PICK b : b = SubSeq(u, 1, n)
  OBVIOUS
<1>7. /\ a \in Seq(S) /\ Len(a) = n
      /\ \A i \in 1..n : a[i] = s[i]
  BY <1>1, <1>4, <1>5, SubSeqProperties
<1>8. /\ b \in Seq(S) /\ Len(b) = n
      /\ \A i \in 1..n : b[i] = u[i]
  BY <1>1, <1>4, <1>6, SubSeqProperties
<1>9. a = b
  BY <1>1, <1>4, <1>7, <1>8, SeqEqual
<1> QED  BY <1>1, <1>2, <1>3, <1>4, <1>5, <1>6, <1>9 DEF IsPrefix

LEMMA PrefixIsConcat ==
  ASSUME NEW S, NEW s \in Seq(S), NEW t \in Seq(S), IsPrefix(s, t)
  PROVE  \E r \in Seq(S) : t = s \o r
<1>1. PICK n : n = Len(s) /\ n \in Nat
  BY LenProperties
<1>2. PICK m : m = Len(t) /\ m \in Nat
  BY LenProperties
<1>3. n <= m /\ SubSeq(s, 1, n) = SubSeq(t, 1, n)
  BY <1>1, <1>2 DEF IsPrefix
<1>4. PICK r : r = SubSeq(t, n + 1, m)
  OBVIOUS
<1>5. \A i \in 1..m : t[i] \in S
  BY <1>2, ElementOfSeq
<1>6. \A i \in 1..n : s[i] \in S
  BY <1>1, ElementOfSeq
<1>7. /\ r \in Seq(S) /\ Len(r) = m - n
      /\ \A i \in 1..m - n : r[i] = t[n + i]
  <2>1. \A i \in n + 1..m : t[i] \in S
    BY <1>1, <1>2, <1>5
  <2>2. /\ r \in Seq(S) /\ Len(r) = IF n + 1 <= m THEN (m - (n + 1)) + 1 ELSE 0
        /\ \A i \in 1..(m - (n + 1)) + 1 : r[i] = t[((n + 1) + i) - 1]
    BY <1>1, <1>2, <1>4, <2>1, SubSeqProperties
  <2>3. (m - (n + 1)) + 1 = m - n /\ \A i \in 1..m - n : ((n + 1) + i) - 1 = n + i
    BY <1>1, <1>2
  <2>4. (IF n + 1 <= m THEN (m - (n + 1)) + 1 ELSE 0) = m - n
    BY <1>1, <1>2, <1>3
  <2>5. Len(r) = m - n
    BY <2>2, <2>4
  <2>6. ASSUME NEW i \in 1..m - n PROVE r[i] = t[n + i]
    BY <2>2, <2>3
  <2> QED  BY <2>2, <2>5, <2>6
<1>8. \A i \in 1..n : t[i] = s[i]
  <2>1. \A i \in 1..n : t[i] \in S
    BY <1>1, <1>2, <1>3, <1>5
  <2>2. \A i \in 1..n : SubSeq(t, 1, n)[i] = t[i]
    BY <1>1, <2>1, SubSeqProperties
  <2>3. \A i \in 1..n : SubSeq(s, 1, n)[i] = s[i]
    BY <1>1, <1>6, SubSeqProperties
  <2> QED  BY <1>3, <2>2, <2>3
<1>9. PICK u : u = s \o r
  OBVIOUS
<1>10. /\ u \in Seq(S) /\ Len(u) = m
       /\ \A i \in 1..m : u[i] = IF i <= n THEN s[i] ELSE r[i - n]
  <2>1. n + (m - n) = m
    BY <1>1, <1>2
  <2>2. PICK o : o = Len(r) /\ o = m - n /\ o \in Nat
    BY <1>1, <1>2, <1>3, <1>7
  <2>3. u \in Seq(S) /\ Len(u) = n + o
    BY <1>1, <1>7, <1>9, <2>2, ConcatProperties
  <2>4. \A i \in 1..n + o : u[i] = IF i <= n THEN s[i] ELSE r[i - n]
    BY <1>1, <1>7, <1>9, <2>2, ConcatProperties
  <2> QED  BY <2>1, <2>2, <2>3, <2>4
<1>11. ASSUME NEW i \in 1..m PROVE u[i] = t[i]
  <2>1. CASE i <= n
    BY <1>1, <1>8, <1>10, <2>1
  <2>2. CASE ~(i <= n)
    <3>1. i - n \in 1..m - n /\ n + (i - n) = i
      BY <1>1, <1>2, <2>2
    <3> QED  BY <1>7, <1>10, <2>2, <3>1
  <2> QED  BY <2>1, <2>2
<1>12. t = u
  BY <1>2, <1>10, <1>11, SeqEqual
<1> QED  BY <1>7, <1>9, <1>12

LEMMA PrefixGrows ==
  ASSUME NEW S, NEW s \in Seq(S), NEW t \in Seq(S), NEW u \in Seq(S), IsPrefix(s, t)
  PROVE  IsPrefix(s, t \o u)
<1>1. PICK r \in Seq(S) : t = s \o r
  BY PrefixIsConcat
<1>2. t \o u = s \o (r \o u) /\ r \o u \in Seq(S)
  BY <1>1, ConcatAssociative, ConcatProperties
<1> QED  BY <1>2, PrefixConcat

-----------------------------------------------------------------------------
(* The invariant *)

Printing == {"print", "newline", "flush"}

TypeInv ==
  /\ call \in Calls
  /\ state \in [Loggers -> {"none", "alive", "failed", "destroyed"}]
  /\ level \in [Loggers -> Int]
  /\ global \in Loggers \cup {nullptr}
  /\ pc \in [Threads -> {"idle", "lock", "print", "newline", "flush", "check"}]
  /\ line \in [Threads -> [level : Int, text : Seq(Chars), logger : Loggers \cup {nullptr}]]
  /\ logs \in 0..MaxLogs
  /\ holder \in [Loggers -> Threads \cup {nullptr}]
  /\ buffer \in [Loggers -> Seq(Chars)]
  /\ file \in [Loggers -> Seq(Chars)]
  /\ flushed \in [Loggers -> Seq(Renderable(call))]
  /\ running \in BOOLEAN

\* A thread inside Log() has the line of its message.
LineInv ==
  \A t \in Threads : pc[t] \in {"lock"} \cup Printing =>
    /\ line[t].logger \in Loggers
    /\ line[t].level \in Renderable(call)
    /\ Printed(line[t].text) \o <<"\n">> = RenderedOf(call, line[t].level)

\* The thread that prints to a sink has its mutex.
MutexInv ==
  /\ \A t \in Threads : pc[t] \in Printing => holder[line[t].logger] = t
  /\ \A l \in Loggers : holder[l] # nullptr =>
       pc[holder[l]] \in Printing /\ line[holder[l]].logger = l

\* What a thread has printed of its line.
Part(c, stage, ln) ==
  CASE stage = "newline" -> Printed(ln.text)
    [] stage = "flush" -> RenderedOf(c, ln.level)
    [] OTHER -> <<>>

\* What has been written are the lines, and what the holder has printed of one.
WrittenInv ==
  \A l \in Loggers :
    file[l] \o buffer[l]
      = LinesOf(call, flushed[l])
          \o (IF holder[l] = nullptr THEN <<>>
              ELSE Part(call, pc[holder[l]], line[holder[l]]))

KeptInv == \A l \in Loggers : IsPrefix(LinesOf(call, flushed[l]), file[l])

IInv == TypeInv /\ LineInv /\ MutexInv /\ WrittenInv /\ KeptInv

LEMMA InitInv == Init => IInv
<1> SUFFICES ASSUME Init PROVE IInv
  OBVIOUS
<1>1. <<>> \in Seq(Chars) /\ <<>> \in Seq(Renderable(call))
  BY EmptySeq
<1>2. NoLine \in [level : Int, text : Seq(Chars), logger : Loggers \cup {nullptr}]
  BY <1>1 DEF NoLine, kAll
<1>3. TypeInv
  BY <1>1, <1>2, LoggerAssumption DEF Init, TypeInv, kAll, LoggerAssumption
<1>4. LineInv /\ MutexInv
  BY DEF Init, LineInv, MutexInv, Printing
<1>5. LinesOf(call, <<>>) = <<>>
  <2>1. [i \in {} |-> RenderedOf(call, <<>>[i])] = <<>>
    OBVIOUS
  <2>2. DOMAIN <<>> = {}
    OBVIOUS
  <2> QED  BY <2>1, <2>2, FlattenEmpty DEF LinesOf
<1>6. <<>> \o <<>> = <<>>
  BY <1>1, ConcatEmptySeq
<1>7. WrittenInv
  BY <1>5, <1>6 DEF Init, WrittenInv
<1>8. KeptInv
  BY <1>1, <1>5, <1>6, PrefixConcat DEF Init, KeptInv
<1> QED  BY <1>3, <1>4, <1>7, <1>8 DEF IInv

\* A step that no thread inside Log() and no sink takes part in.
LEMMA OutsideInv ==
  ASSUME IInv, TypeInv', UNCHANGED <<call, pc, line, sinkVars>>
  PROVE  IInv'
<1>1. LineInv'
  BY DEF IInv, LineInv, sinkVars
<1>2. MutexInv'
  BY DEF IInv, MutexInv, sinkVars
<1>3. WrittenInv'
  BY DEF IInv, WrittenInv, sinkVars
<1>4. KeptInv'
  BY DEF IInv, KeptInv, sinkVars
<1> QED  BY <1>1, <1>2, <1>3, <1>4 DEF IInv

\* What was in a buffer is in the file now.
MovesOut(l) ==
  /\ file' = [file EXCEPT ![l] = @ \o buffer[l]]
  /\ buffer' = [buffer EXCEPT ![l] = <<>>]

LEMMA MovesOutInv ==
  ASSUME IInv, NEW l \in Loggers, MovesOut(l), TypeInv',
         UNCHANGED <<call, pc, line, holder, flushed>>
  PROVE  IInv'
<1>1. LineInv'
  BY DEF IInv, LineInv
<1>2. MutexInv'
  BY DEF IInv, MutexInv
<1>3. \A k \in Loggers : /\ file[k] \in Seq(Chars) /\ buffer[k] \in Seq(Chars)
                         /\ flushed[k] \in Seq(Renderable(call))
  BY DEF IInv, TypeInv
<1>4. \A k \in Loggers : k # l => file'[k] = file[k] /\ buffer'[k] = buffer[k]
  BY DEF MovesOut, IInv, TypeInv
<1>5. file'[l] = file[l] \o buffer[l] /\ buffer'[l] = <<>>
  BY DEF MovesOut, IInv, TypeInv
<1>6. \A k \in Loggers : file'[k] \o buffer'[k] = file[k] \o buffer[k]
  <2>1. file[l] \o buffer[l] \in Seq(Chars)
    BY <1>3, ConcatProperties
  <2>2. file'[l] \o buffer'[l] = file[l] \o buffer[l]
    BY <1>5, <2>1, ConcatEmptySeq
  <2> QED  BY <1>4, <2>2
<1>7. WrittenInv'
  <2> SUFFICES ASSUME NEW k \in Loggers
               PROVE  file'[k] \o buffer'[k]
                        = LinesOf(call, flushed[k])
                            \o (IF holder[k] = nullptr THEN <<>>
                                ELSE Part(call, pc[holder[k]], line[holder[k]]))
    BY DEF WrittenInv
  <2> QED  BY <1>6 DEF IInv, WrittenInv
<1>8. KeptInv'
  <2> SUFFICES ASSUME NEW k \in Loggers
               PROVE  IsPrefix(LinesOf(call, flushed[k]), file'[k])
    BY DEF KeptInv
  <2>1. IsPrefix(LinesOf(call, flushed[k]), file[k])
    BY DEF IInv, KeptInv
  <2>2. CASE k # l
    BY <1>4, <2>1, <2>2
  <2>3. CASE k = l
    <3>1. LinesOf(call, flushed[k]) \in Seq(Chars)
      BY <1>3, LinesType
    <3>2. IsPrefix(LinesOf(call, flushed[k]), file[k] \o buffer[k])
      BY <1>3, <2>1, <3>1, PrefixGrows
    <3> QED  BY <1>5, <2>3, <3>2
  <2> QED  BY <2>2, <2>3
<1> QED  BY <1>1, <1>2, <1>7, <1>8 DEF IInv

LEMMA MovesOutType ==
  ASSUME IInv, NEW l \in Loggers, MovesOut(l)
  PROVE  file' \in [Loggers -> Seq(Chars)] /\ buffer' \in [Loggers -> Seq(Chars)]
<1>1. file[l] \o buffer[l] \in Seq(Chars) /\ <<>> \in Seq(Chars)
  BY EmptySeq, ConcatProperties DEF IInv, TypeInv
<1> QED  BY <1>1 DEF MovesOut, IInv, TypeInv

LEMMA LogInv ==
  ASSUME IInv, NEW t \in Threads, NEW lev \in LogLevels, Log(t, lev)
  PROVE  IInv'
<1>1. PICK message \in Format(call.format, call.values) :
        \/ lev < level[global] /\ UNCHANGED <<pc, line>>
        \/ /\ lev >= level[global]
           /\ pc' = [pc EXCEPT ![t] = "lock"]
           /\ \E text \in LineOf(lev, message) :
                line' = [line EXCEPT ![t] = [level |-> lev, text |-> text,
                                             logger |-> global]]
  BY DEF Log
<1>2. /\ logs' = logs + 1 /\ logs < MaxLogs /\ pc[t] = "idle" /\ global # nullptr
      /\ UNCHANGED <<setupVars, sinkVars, running>>
  BY DEF Log
<1>3. logs' \in 0..MaxLogs
  BY <1>2, LoggerAssumption DEF LoggerAssumption, IInv, TypeInv
<1>4. CASE UNCHANGED <<pc, line>>
  <2>1. TypeInv'
    BY <1>2, <1>3, <1>4 DEF IInv, TypeInv, setupVars, sinkVars
  <2> QED  BY <1>2, <1>4, <2>1, OutsideInv DEF setupVars
<1>5. ASSUME NEW text \in LineOf(lev, message),
             pc' = [pc EXCEPT ![t] = "lock"],
             line' = [line EXCEPT ![t] = [level |-> lev, text |-> text, logger |-> global]]
      PROVE  IInv'
  <2>1. /\ text \in Seq(Chars) /\ lev \in Renderable(call)
        /\ Printed(text) \o <<"\n">> = RenderedOf(call, lev)
    BY <1>5, LogRenders DEF IInv, TypeInv
  <2>2. lev \in Int /\ global \in Loggers
    BY <1>2, LoggerAssumption DEF LoggerAssumption, IInv, TypeInv, kDebug, kFatal
  <2>3. TypeInv'
    BY <1>2, <1>3, <1>5, <2>1, <2>2 DEF IInv, TypeInv, setupVars, sinkVars
  <2>4. /\ pc'[t] = "lock" /\ line'[t].level = lev /\ line'[t].text = text
        /\ line'[t].logger = global
        /\ \A u \in Threads : u # t => pc'[u] = pc[u] /\ line'[u] = line[u]
    BY <1>5 DEF IInv, TypeInv
  <2>5. call' = call /\ holder' = holder /\ buffer' = buffer /\ file' = file
        /\ flushed' = flushed
    BY <1>2 DEF setupVars, sinkVars
  <2>6. LineInv'
    <3> SUFFICES ASSUME NEW u \in Threads, pc'[u] \in {"lock"} \cup Printing
                 PROVE  /\ line'[u].logger \in Loggers
                        /\ line'[u].level \in Renderable(call)
                        /\ Printed(line'[u].text) \o <<"\n">> = RenderedOf(call, line'[u].level)
      BY <2>5 DEF LineInv
    <3>1. CASE u = t
      BY <2>1, <2>2, <2>4, <3>1
    <3>2. CASE u # t
      BY <2>4, <3>2 DEF IInv, LineInv
    <3> QED  BY <3>1, <3>2
  <2>7. \A l \in Loggers : holder[l] # nullptr =>
          holder[l] # t /\ pc'[holder[l]] = pc[holder[l]] /\ line'[holder[l]] = line[holder[l]]
    <3> SUFFICES ASSUME NEW l \in Loggers, holder[l] # nullptr
                 PROVE  /\ holder[l] # t /\ pc'[holder[l]] = pc[holder[l]]
                        /\ line'[holder[l]] = line[holder[l]]
      OBVIOUS
    <3>1. holder[l] \in Threads /\ pc[holder[l]] \in Printing
      BY DEF IInv, TypeInv, MutexInv
    <3>2. holder[l] # t
      BY <1>2, <3>1 DEF Printing
    <3> QED  BY <2>4, <3>1, <3>2
  <2>8. MutexInv'
    <3>1. ASSUME NEW u \in Threads, pc'[u] \in Printing
          PROVE  holder[line'[u].logger] = u
      <4>1. u # t
        BY <2>4, <3>1 DEF Printing
      <4> QED  BY <2>4, <3>1, <4>1 DEF IInv, MutexInv
    <3>2. ASSUME NEW l \in Loggers, holder[l] # nullptr
          PROVE  pc'[holder[l]] \in Printing /\ line'[holder[l]].logger = l
      BY <2>7, <3>2 DEF IInv, MutexInv
    <3> QED  BY <2>5, <3>1, <3>2 DEF MutexInv
  <2>9. WrittenInv'
    <3> SUFFICES ASSUME NEW l \in Loggers
                 PROVE  file[l] \o buffer[l]
                          = LinesOf(call, flushed[l])
                              \o (IF holder[l] = nullptr THEN <<>>
                                  ELSE Part(call, pc'[holder[l]], line'[holder[l]]))
      BY <2>5 DEF WrittenInv
    <3> QED  BY <2>7 DEF IInv, WrittenInv
  <2>10. KeptInv'
    BY <2>5 DEF IInv, KeptInv
  <2> QED  BY <2>3, <2>6, <2>8, <2>9, <2>10 DEF IInv
<1> QED  BY <1>1, <1>4, <1>5

LEMMA LockInv ==
  ASSUME IInv, NEW t \in Threads, Lock(t)
  PROVE  IInv'
<1>1. PICK k : k = line[t].logger
  OBVIOUS
<1>2. /\ pc[t] = "lock" /\ holder[k] = nullptr
      /\ holder' = [holder EXCEPT ![k] = t]
      /\ pc' = [pc EXCEPT ![t] = "print"]
      /\ UNCHANGED <<setupVars, line, logs, buffer, file, flushed, running>>
  BY <1>1 DEF Lock
<1>3. k \in Loggers
  BY <1>1, <1>2 DEF IInv, LineInv
<1>4. TypeInv'
  BY <1>2 DEF IInv, TypeInv, setupVars
<1>5. call' = call /\ line' = line /\ buffer' = buffer /\ file' = file /\ flushed' = flushed
  BY <1>2 DEF setupVars
<1>6. /\ pc'[t] = "print" /\ \A u \in Threads : u # t => pc'[u] = pc[u]
      /\ holder'[k] = t /\ \A l \in Loggers : l # k => holder'[l] = holder[l]
  BY <1>2, <1>3 DEF IInv, TypeInv
<1>7. LineInv'
  <2> SUFFICES ASSUME NEW u \in Threads, pc'[u] \in {"lock"} \cup Printing
               PROVE  /\ line[u].logger \in Loggers
                      /\ line[u].level \in Renderable(call)
                      /\ Printed(line[u].text) \o <<"\n">> = RenderedOf(call, line[u].level)
    BY <1>5 DEF LineInv
  <2>1. pc[u] \in {"lock"} \cup Printing
    BY <1>2, <1>6
  <2> QED  BY <2>1 DEF IInv, LineInv
<1>8. \A l \in Loggers : l # k /\ holder[l] # nullptr =>
        holder[l] \in Threads /\ holder[l] # t /\ pc'[holder[l]] = pc[holder[l]]
  <2> SUFFICES ASSUME NEW l \in Loggers, holder[l] # nullptr
               PROVE  holder[l] \in Threads /\ holder[l] # t /\ pc'[holder[l]] = pc[holder[l]]
    OBVIOUS
  <2>1. holder[l] \in Threads /\ pc[holder[l]] \in Printing
    BY DEF IInv, TypeInv, MutexInv
  <2>2. holder[l] # t
    BY <1>2, <2>1 DEF Printing
  <2> QED  BY <1>6, <2>1, <2>2
<1>n. t # nullptr
  BY LoggerAssumption DEF LoggerAssumption
<1>9. MutexInv'
  <2>1. ASSUME NEW u \in Threads, pc'[u] \in Printing
        PROVE  holder'[line[u].logger] = u
    <3>1. CASE u = t
      BY <1>1, <1>6, <3>1
    <3>2. CASE u # t
      <4>1. holder[line[u].logger] = u /\ line[u].logger \in Loggers
        BY <1>6, <2>1, <3>2 DEF IInv, MutexInv, LineInv
      <4>2. u # nullptr
        BY LoggerAssumption DEF LoggerAssumption
      <4>3. line[u].logger # k
        BY <1>2, <4>1, <4>2
      <4> QED  BY <1>6, <4>1, <4>3
    <3> QED  BY <3>1, <3>2
  <2>2. ASSUME NEW l \in Loggers, holder'[l] # nullptr
        PROVE  pc'[holder'[l]] \in Printing /\ line[holder'[l]].logger = l
    <3>1. CASE l = k
      BY <1>1, <1>6, <3>1 DEF Printing
    <3>2. CASE l # k
      BY <1>6, <1>8, <2>2, <3>2 DEF IInv, MutexInv
    <3> QED  BY <3>1, <3>2
  <2> QED  BY <1>5, <2>1, <2>2 DEF MutexInv
<1>10. WrittenInv'
  <2> SUFFICES ASSUME NEW l \in Loggers
               PROVE  file[l] \o buffer[l]
                        = LinesOf(call, flushed[l])
                            \o (IF holder'[l] = nullptr THEN <<>>
                                ELSE Part(call, pc'[holder'[l]], line[holder'[l]]))
    BY <1>5 DEF WrittenInv
  <2>1. CASE l = k
    <3>1. Part(call, pc'[holder'[l]], line[holder'[l]]) = <<>>
      BY <1>6, <2>1 DEF Part
    <3> QED  BY <1>2, <1>6, <1>n, <2>1, <3>1 DEF IInv, WrittenInv
  <2>2. CASE l # k
    BY <1>6, <1>8, <2>2 DEF IInv, WrittenInv
  <2> QED  BY <2>1, <2>2
<1>11. KeptInv'
  BY <1>5 DEF IInv, KeptInv
<1> QED  BY <1>4, <1>7, <1>9, <1>10, <1>11 DEF IInv

\* What the thread that prints to a sink knows.
LEMMA HolderFacts ==
  ASSUME IInv, NEW t \in Threads, pc[t] \in Printing
  PROVE  /\ line[t].logger \in Loggers /\ holder[line[t].logger] = t
         /\ line[t].level \in Renderable(call)
         /\ RenderedOf(call, line[t].level) \in Seq(Chars)
         /\ Printed(line[t].text) \in Seq(Chars)
         /\ Printed(line[t].text) \o <<"\n">> = RenderedOf(call, line[t].level)
         /\ file[line[t].logger] \o buffer[line[t].logger]
              = LinesOf(call, flushed[line[t].logger]) \o Part(call, pc[t], line[t])
<1>1. /\ line[t].logger \in Loggers
      /\ line[t].level \in Renderable(call)
      /\ Printed(line[t].text) \o <<"\n">> = RenderedOf(call, line[t].level)
  BY DEF IInv, LineInv
<1>2. holder[line[t].logger] = t
  BY DEF IInv, MutexInv
<1>3. line[t].text \in Seq(Chars)
  BY DEF IInv, TypeInv
<1>4. t # nullptr
  BY LoggerAssumption DEF LoggerAssumption
<1>5. file[line[t].logger] \o buffer[line[t].logger]
        = LinesOf(call, flushed[line[t].logger]) \o Part(call, pc[t], line[t])
  BY <1>1, <1>2, <1>4 DEF IInv, WrittenInv
<1> QED  BY <1>1, <1>2, <1>3, <1>5, PrintedType DEF Renderable

\* The other sinks and their holders.
LEMMA OtherHolders ==
  ASSUME IInv, NEW t \in Threads, pc[t] \in Printing, NEW l \in Loggers,
         l # line[t].logger, holder[l] # nullptr
  PROVE  holder[l] \in Threads /\ holder[l] # t
<1>1. holder[l] \in Threads /\ line[holder[l]].logger = l
  BY DEF IInv, TypeInv, MutexInv
<1> QED  BY <1>1

LEMMA WriteInv ==
  ASSUME IInv, NEW t \in Threads, Write(t)
  PROVE  IInv'
<1>1. PICK k : k = line[t].logger
  OBVIOUS
<1>2. PICK part : part = IF pc[t] = "print" THEN Printed(line[t].text) ELSE <<"\n">>
  OBVIOUS
<1>3. PICK next : next = IF pc[t] = "print" THEN "newline" ELSE "flush"
  OBVIOUS
<1>4. /\ pc[t] \in {"print", "newline"}
      /\ buffer' = [buffer EXCEPT ![k] = @ \o part]
      /\ pc' = [pc EXCEPT ![t] = next]
      /\ UNCHANGED <<setupVars, line, logs, holder, file, flushed, running>>
  BY <1>1, <1>2, <1>3 DEF Write
<1>5. pc[t] \in Printing
  BY <1>4 DEF Printing
<1>6. /\ k \in Loggers /\ holder[k] = t
      /\ RenderedOf(call, line[t].level) \in Seq(Chars)
      /\ Printed(line[t].text) \in Seq(Chars)
      /\ Printed(line[t].text) \o <<"\n">> = RenderedOf(call, line[t].level)
      /\ file[k] \o buffer[k] = LinesOf(call, flushed[k]) \o Part(call, pc[t], line[t])
  BY <1>1, <1>5, HolderFacts
<1>7. <<"\n">> \in Seq(Chars) /\ part \in Seq(Chars)
  <2>1. "\n" \in Chars
    BY DEF Chars
  <2> QED  BY <1>2, <1>6, <2>1
<1>8. buffer[k] \in Seq(Chars) /\ file[k] \in Seq(Chars) /\ LinesOf(call, flushed[k]) \in Seq(Chars)
      /\ buffer[k] \o part \in Seq(Chars)
  BY <1>6, <1>7, LinesType, ConcatProperties DEF IInv, TypeInv
<1>9. TypeInv'
  BY <1>3, <1>4, <1>8 DEF IInv, TypeInv, setupVars
<1>10. /\ call' = call /\ line' = line /\ holder' = holder /\ file' = file
       /\ flushed' = flushed
  BY <1>4 DEF setupVars
<1>11. /\ pc'[t] = next /\ \A u \in Threads : u # t => pc'[u] = pc[u]
       /\ buffer'[k] = buffer[k] \o part
       /\ \A l \in Loggers : l # k => buffer'[l] = buffer[l]
  BY <1>4, <1>6 DEF IInv, TypeInv
<1>12. next \in Printing
  BY <1>3 DEF Printing
<1>13. \A u \in Threads : pc'[u] \in Printing <=> pc[u] \in Printing
  BY <1>5, <1>11, <1>12
<1>14. LineInv'
  <2> SUFFICES ASSUME NEW u \in Threads, pc'[u] \in {"lock"} \cup Printing
               PROVE  /\ line[u].logger \in Loggers
                      /\ line[u].level \in Renderable(call)
                      /\ Printed(line[u].text) \o <<"\n">> = RenderedOf(call, line[u].level)
    BY <1>10 DEF LineInv
  <2>1. pc[u] \in {"lock"} \cup Printing
    BY <1>5, <1>11
  <2> QED  BY <2>1 DEF IInv, LineInv
<1>15. MutexInv'
  <2>1. ASSUME NEW u \in Threads, pc'[u] \in Printing
        PROVE  holder[line[u].logger] = u
    BY <1>13, <2>1 DEF IInv, MutexInv
  <2>2. ASSUME NEW l \in Loggers, holder[l] # nullptr
        PROVE  pc'[holder[l]] \in Printing /\ line[holder[l]].logger = l
    BY <1>13, <2>2 DEF IInv, MutexInv, TypeInv
  <2> QED  BY <1>10, <2>1, <2>2 DEF MutexInv
<1>16. WrittenInv'
  <2> SUFFICES ASSUME NEW l \in Loggers
               PROVE  file[l] \o buffer'[l]
                        = LinesOf(call, flushed[l])
                            \o (IF holder[l] = nullptr THEN <<>>
                                ELSE Part(call, pc'[holder[l]], line[holder[l]]))
    BY <1>10 DEF WrittenInv
  <2>1. CASE l = k
    <3>1. PICK lines : lines = LinesOf(call, flushed[k]) /\ lines \in Seq(Chars)
      BY <1>8
    <3>2. PICK before : before = Part(call, pc[t], line[t]) /\ before \in Seq(Chars)
      <4>1. <<>> \in Seq(Chars)
        BY EmptySeq
      <4> QED  BY <1>4, <1>6, <4>1 DEF Part
    <3>3. file[k] \o buffer'[k] = (file[k] \o buffer[k]) \o part
      <4>1. PICK a : a = file[k] /\ a \in Seq(Chars)
        BY <1>8
      <4>2. PICK b : b = buffer[k] /\ b \in Seq(Chars)
        BY <1>8
      <4>3. part \in Seq(Chars)
        BY <1>7
      <4>4. (a \o b) \o part = a \o (b \o part)
        <5>1. a \in Seq(Chars) /\ b \in Seq(Chars)
          BY <4>1, <4>2
        <5> QED  BY <4>3, <5>1, ConcatAssociative
      <4> QED  BY <1>11, <4>1, <4>2, <4>4
    <3>4. (lines \o before) \o part = lines \o (before \o part)
      BY <1>7, <3>1, <3>2, ConcatAssociative
    <3>5. before \o part = Part(call, next, line[t])
      <4>1. CASE pc[t] = "print"
        <5>1. before = <<>> /\ part = Printed(line[t].text) /\ next = "newline"
          BY <1>2, <1>3, <3>2, <4>1 DEF Part
        <5>2. Part(call, next, line[t]) = Printed(line[t].text)
          BY <5>1 DEF Part
        <5> QED  BY <1>6, <5>1, <5>2, ConcatEmptySeq
      <4>2. CASE pc[t] = "newline"
        <5>1. before = Printed(line[t].text) /\ part = <<"\n">> /\ next = "flush"
          BY <1>2, <1>3, <3>2, <4>2 DEF Part
        <5>2. Part(call, next, line[t]) = RenderedOf(call, line[t].level)
          BY <5>1 DEF Part
        <5> QED  BY <1>6, <5>1, <5>2
      <4> QED  BY <1>4, <4>1, <4>2
    <3>6. file[k] \o buffer'[k] = lines \o Part(call, next, line[t])
      BY <1>6, <3>1, <3>2, <3>3, <3>4, <3>5
    <3>7. t # nullptr
      BY LoggerAssumption DEF LoggerAssumption
    <3> QED  BY <1>6, <1>11, <2>1, <3>1, <3>6, <3>7
  <2>2. CASE l # k
    <3>1. holder[l] # nullptr => pc'[holder[l]] = pc[holder[l]]
      BY <1>1, <1>5, <1>11, <2>2, OtherHolders
    <3> QED  BY <1>11, <2>2, <3>1 DEF IInv, WrittenInv
  <2> QED  BY <2>1, <2>2
<1>17. KeptInv'
  BY <1>10 DEF IInv, KeptInv
<1> QED  BY <1>9, <1>14, <1>15, <1>16, <1>17 DEF IInv

LEMMA FlushInv ==
  ASSUME IInv, NEW t \in Threads, Flush(t)
  PROVE  IInv'
<1>1. PICK k : k = line[t].logger
  OBVIOUS
<1>2. PICK lev : lev = line[t].level
  OBVIOUS
<1>3. /\ pc[t] = "flush"
      /\ file' = [file EXCEPT ![k] = @ \o buffer[k]]
      /\ buffer' = [buffer EXCEPT ![k] = <<>>]
      /\ flushed' = [flushed EXCEPT ![k] = Append(@, lev)]
      /\ holder' = [holder EXCEPT ![k] = nullptr]
      /\ pc' = [pc EXCEPT ![t] = "check"]
      /\ UNCHANGED <<setupVars, line, logs, running>>
  BY <1>1, <1>2 DEF Flush
<1>4. pc[t] \in Printing
  BY <1>3 DEF Printing
<1>5. /\ k \in Loggers /\ holder[k] = t /\ lev \in Renderable(call)
      /\ RenderedOf(call, lev) \in Seq(Chars)
      /\ file[k] \o buffer[k] = LinesOf(call, flushed[k]) \o Part(call, pc[t], line[t])
  BY <1>1, <1>2, <1>4, HolderFacts
<1>6. Part(call, pc[t], line[t]) = RenderedOf(call, lev)
  BY <1>2, <1>3 DEF Part
<1>7. /\ file[k] \in Seq(Chars) /\ buffer[k] \in Seq(Chars)
      /\ flushed[k] \in Seq(Renderable(call)) /\ <<>> \in Seq(Chars)
      /\ file[k] \o buffer[k] \in Seq(Chars)
  BY <1>5, EmptySeq, ConcatProperties DEF IInv, TypeInv
<1>8. Append(flushed[k], lev) \in Seq(Renderable(call))
  BY <1>5, <1>7, AppendProperties
<1>9. TypeInv'
  BY <1>3, <1>5, <1>7, <1>8 DEF IInv, TypeInv, setupVars
<1>10. call' = call /\ line' = line
  BY <1>3 DEF setupVars
<1>11. /\ pc'[t] = "check" /\ \A u \in Threads : u # t => pc'[u] = pc[u]
       /\ file'[k] = file[k] \o buffer[k] /\ buffer'[k] = <<>>
       /\ flushed'[k] = Append(flushed[k], lev) /\ holder'[k] = nullptr
       /\ \A l \in Loggers : l # k => /\ file'[l] = file[l] /\ buffer'[l] = buffer[l]
                                      /\ flushed'[l] = flushed[l] /\ holder'[l] = holder[l]
  BY <1>3, <1>5 DEF IInv, TypeInv
<1>12. file'[k] = LinesOf(call, flushed'[k]) /\ file'[k] \in Seq(Chars)
  <2>1. LinesOf(call, Append(flushed[k], lev))
          = LinesOf(call, flushed[k]) \o RenderedOf(call, lev)
    BY <1>5, <1>7, LinesAppend
  <2> QED  BY <1>5, <1>6, <1>7, <1>11, <2>1
<1>13. \A u \in Threads : u # t /\ pc[u] \in Printing => line[u].logger # k
  <2> SUFFICES ASSUME NEW u \in Threads, u # t, pc[u] \in Printing, line[u].logger = k
               PROVE  FALSE
    OBVIOUS
  <2> QED  BY <1>5 DEF IInv, MutexInv
<1>14. LineInv'
  <2> SUFFICES ASSUME NEW u \in Threads, pc'[u] \in {"lock"} \cup Printing
               PROVE  /\ line[u].logger \in Loggers
                      /\ line[u].level \in Renderable(call)
                      /\ Printed(line[u].text) \o <<"\n">> = RenderedOf(call, line[u].level)
    BY <1>10 DEF LineInv
  <2>1. pc[u] \in {"lock"} \cup Printing
    BY <1>4, <1>11
  <2> QED  BY <2>1 DEF IInv, LineInv
<1>15. MutexInv'
  <2>1. ASSUME NEW u \in Threads, pc'[u] \in Printing
        PROVE  holder'[line[u].logger] = u
    <3>1. u # t
      BY <1>11, <2>1 DEF Printing
    <3>2. pc[u] \in Printing /\ line[u].logger # k
      BY <1>11, <1>13, <2>1, <3>1
    <3>3. line[u].logger \in Loggers /\ holder[line[u].logger] = u
      BY <3>2 DEF IInv, LineInv, MutexInv
    <3> QED  BY <1>11, <3>2, <3>3
  <2>2. ASSUME NEW l \in Loggers, holder'[l] # nullptr
        PROVE  pc'[holder'[l]] \in Printing /\ line[holder'[l]].logger = l
    <3>1. l # k /\ holder'[l] = holder[l]
      BY <1>11, <2>2
    <3>2. holder[l] \in Threads /\ holder[l] # t
      BY <1>1, <1>4, <2>2, <3>1, OtherHolders
    <3> QED  BY <1>11, <2>2, <3>1, <3>2 DEF IInv, MutexInv
  <2> QED  BY <1>10, <2>1, <2>2 DEF MutexInv
<1>16. WrittenInv'
  <2> SUFFICES ASSUME NEW l \in Loggers, NEW rest,
                      rest = IF holder'[l] = nullptr THEN <<>>
                             ELSE Part(call, pc'[holder'[l]], line[holder'[l]])
               PROVE  file'[l] \o buffer'[l] = LinesOf(call, flushed'[l]) \o rest
    BY <1>10 DEF WrittenInv
  <2>1. CASE l = k
    <3>1. rest = <<>> /\ file'[l] = LinesOf(call, flushed'[l]) /\ buffer'[l] = <<>>
      BY <1>11, <1>12, <2>1
    <3>2. PICK x : x = file'[l]
      OBVIOUS
    <3>3. PICK y : y = LinesOf(call, flushed'[l])
      OBVIOUS
    <3>4. PICK b : b = buffer'[l]
      OBVIOUS
    <3>5. x = y /\ b = rest
      BY <3>1, <3>2, <3>3, <3>4
    <3>6. x \o b = y \o rest
      BY <3>5, Zenon
    <3>7. file'[l] \o buffer'[l] = x \o b
      BY <3>2, <3>4, Zenon
    <3>8. LinesOf(call, flushed'[l]) \o rest = y \o rest
      BY <3>3, Zenon
    <3>9. file'[l] \o buffer'[l] = y \o rest
      BY <3>6, <3>7, Zenon
    <3> QED  BY <3>8, <3>9
  <2>2. CASE l # k
    <3>1. holder[l] # nullptr => pc'[holder[l]] = pc[holder[l]]
      BY <1>1, <1>4, <1>11, <2>2, OtherHolders
    <3>2. /\ file'[l] = file[l] /\ buffer'[l] = buffer[l] /\ flushed'[l] = flushed[l]
          /\ holder'[l] = holder[l]
      BY <1>11, <2>2
    <3>3. rest = IF holder[l] = nullptr THEN <<>>
                 ELSE Part(call, pc[holder[l]], line[holder[l]])
      BY <3>1, <3>2
    <3>4. file[l] \o buffer[l] = LinesOf(call, flushed[l]) \o rest
      BY <3>3 DEF IInv, WrittenInv
    <3> QED  BY <3>2, <3>4
  <2> QED  BY <2>1, <2>2
<1>17. KeptInv'
  <2> SUFFICES ASSUME NEW l \in Loggers
               PROVE  IsPrefix(LinesOf(call, flushed'[l]), file'[l])
    BY <1>10 DEF KeptInv
  <2>1. CASE l = k
    <3>1. IsPrefix(file'[k], file'[k] \o <<>>) /\ file'[k] \o <<>> = file'[k]
      BY <1>7, <1>12, PrefixConcat, ConcatEmptySeq
    <3> QED  BY <1>12, <2>1, <3>1
  <2>2. CASE l # k
    BY <1>11, <2>2 DEF IInv, KeptInv
  <2> QED  BY <2>1, <2>2
<1> QED  BY <1>9, <1>14, <1>15, <1>16, <1>17 DEF IInv

LEMMA ReturnInv ==
  ASSUME IInv, NEW t \in Threads, Return(t)
  PROVE  IInv'
<1>1. /\ pc[t] = "check"
      /\ running' = (line[t].level # kFatal)
      /\ pc' = [pc EXCEPT ![t] = IF running' THEN "idle" ELSE @]
      /\ line' = [line EXCEPT ![t] = NoLine]
      /\ UNCHANGED <<setupVars, logs, sinkVars>>
  BY DEF Return
<1>2. PICK next : next = (IF running' THEN "idle" ELSE "check")
  OBVIOUS
<1>3. /\ pc' = [pc EXCEPT ![t] = next] /\ next \in {"idle", "check"}
  BY <1>1, <1>2 DEF IInv, TypeInv
<1>4. NoLine \in [level : Int, text : Seq(Chars), logger : Loggers \cup {nullptr}]
  BY EmptySeq DEF NoLine, kAll
<1>r. running' \in BOOLEAN
  BY <1>1
<1>5. TypeInv'
  BY <1>1, <1>3, <1>4, <1>r DEF IInv, TypeInv, setupVars, sinkVars
<1>6. /\ call' = call /\ holder' = holder /\ buffer' = buffer /\ file' = file
      /\ flushed' = flushed
  BY <1>1 DEF setupVars, sinkVars
<1>7. /\ pc'[t] \notin {"lock"} \cup Printing
      /\ \A u \in Threads : u # t => pc'[u] = pc[u] /\ line'[u] = line[u]
  BY <1>1, <1>3 DEF IInv, TypeInv, Printing
<1>8. \A l \in Loggers : holder[l] # nullptr =>
        /\ pc'[holder[l]] = pc[holder[l]] /\ line'[holder[l]] = line[holder[l]]
  <2> SUFFICES ASSUME NEW l \in Loggers, holder[l] # nullptr
               PROVE  pc'[holder[l]] = pc[holder[l]] /\ line'[holder[l]] = line[holder[l]]
    OBVIOUS
  <2>1. holder[l] \in Threads /\ pc[holder[l]] \in Printing
    BY DEF IInv, TypeInv, MutexInv
  <2>2. holder[l] # t
    BY <1>1, <2>1 DEF Printing
  <2> QED  BY <1>7, <2>1, <2>2
<1>9. LineInv'
  <2> SUFFICES ASSUME NEW u \in Threads, pc'[u] \in {"lock"} \cup Printing
               PROVE  /\ line'[u].logger \in Loggers
                      /\ line'[u].level \in Renderable(call)
                      /\ Printed(line'[u].text) \o <<"\n">> = RenderedOf(call, line'[u].level)
    BY <1>6 DEF LineInv
  <2>1. u # t
    BY <1>7
  <2>2. pc'[u] = pc[u] /\ line'[u] = line[u]
    BY <1>7, <2>1
  <2> QED  BY <2>2 DEF IInv, LineInv
<1>10. MutexInv'
  <2>1. ASSUME NEW u \in Threads, pc'[u] \in Printing
        PROVE  holder[line'[u].logger] = u
    <3>1. u # t
      BY <1>7, <2>1
    <3>2. pc'[u] = pc[u] /\ line'[u] = line[u]
      BY <1>7, <3>1
    <3> QED  BY <2>1, <3>2 DEF IInv, MutexInv
  <2>2. ASSUME NEW l \in Loggers, holder[l] # nullptr
        PROVE  pc'[holder[l]] \in Printing /\ line'[holder[l]].logger = l
    BY <1>8, <2>2 DEF IInv, MutexInv
  <2> QED  BY <1>6, <2>1, <2>2 DEF MutexInv
<1>11. WrittenInv'
  <2> SUFFICES ASSUME NEW l \in Loggers
               PROVE  file[l] \o buffer[l]
                        = LinesOf(call, flushed[l])
                            \o (IF holder[l] = nullptr THEN <<>>
                                ELSE Part(call, pc'[holder[l]], line'[holder[l]]))
    BY <1>6 DEF WrittenInv
  <2> QED  BY <1>8 DEF IInv, WrittenInv
<1>12. KeptInv'
  BY <1>6 DEF IInv, KeptInv
<1> QED  BY <1>5, <1>9, <1>10, <1>11, <1>12 DEF IInv

LEMMA NextInv == IInv /\ [Next]_vars => IInv'
<1> SUFFICES ASSUME IInv, [Next]_vars PROVE IInv'
  OBVIOUS
<1>1. ASSUME NEW l \in Loggers,
             CreateFileNameSink(l) \/ CreateFilePtrSink(l) \/ SetGlobalLogger(l)
      PROVE  IInv'
  <2>1. UNCHANGED <<call, level, pc, line, logs, sinkVars, running>>
    BY <1>1 DEF CreateFileNameSink, CreateFilePtrSink, SetGlobalLogger, threadVars
  <2>2. /\ state' \in [Loggers -> {"none", "alive", "failed", "destroyed"}]
        /\ global' \in Loggers \cup {nullptr}
    BY <1>1 DEF CreateFileNameSink, CreateFilePtrSink, SetGlobalLogger, IInv, TypeInv
  <2>3. TypeInv'
    BY <2>1, <2>2 DEF IInv, TypeInv, sinkVars
  <2> QED  BY <2>1, <2>3, OutsideInv
<1>2. ASSUME NEW l \in Loggers, NEW new \in SetLevels, set_level(l, new)
      PROVE  IInv'
  <2>1. UNCHANGED <<call, state, global, pc, line, logs, sinkVars, running>>
    BY <1>2 DEF set_level, threadVars
  <2>2. level' \in [Loggers -> Int]
    <3>1. new \in Int
      BY LoggerAssumption DEF LoggerAssumption, kAll, kOff
    <3> QED  BY <1>2, <3>1 DEF set_level, IInv, TypeInv
  <2>3. TypeInv'
    BY <2>1, <2>2 DEF IInv, TypeInv, sinkVars
  <2> QED  BY <2>1, <2>3, OutsideInv
<1>3. ASSUME NEW l \in Loggers, Destroy(l)
      PROVE  IInv'
  <2>1. /\ UNCHANGED <<call, level, global, pc, line, logs, holder, flushed, running>>
        /\ UNCHANGED <<buffer, file>> \/ MovesOut(l)
        /\ state' \in [Loggers -> {"none", "alive", "failed", "destroyed"}]
    BY <1>3 DEF Destroy, threadVars, MovesOut, IInv, TypeInv
  <2>2. CASE UNCHANGED <<buffer, file>>
    <3>1. TypeInv'
      BY <2>1, <2>2 DEF IInv, TypeInv
    <3> QED  BY <2>1, <2>2, <3>1, OutsideInv DEF sinkVars
  <2>3. CASE MovesOut(l)
    <3>1. file' \in [Loggers -> Seq(Chars)] /\ buffer' \in [Loggers -> Seq(Chars)]
      BY <2>3, MovesOutType
    <3>2. TypeInv'
      BY <2>1, <3>1 DEF IInv, TypeInv
    <3> QED  BY <2>1, <2>3, <3>2, MovesOutInv
  <2> QED  BY <2>1, <2>2, <2>3
<1>4. ASSUME NEW l \in Loggers, Spill(l)
      PROVE  IInv'
  <2>1. /\ UNCHANGED <<call, state, level, global, pc, line, logs, holder, flushed, running>>
        /\ MovesOut(l)
    BY <1>4 DEF Spill, setupVars, threadVars, MovesOut
  <2>2. file' \in [Loggers -> Seq(Chars)] /\ buffer' \in [Loggers -> Seq(Chars)]
    BY <2>1, MovesOutType
  <2>3. TypeInv'
    BY <2>1, <2>2 DEF IInv, TypeInv
  <2> QED  BY <2>1, <2>3, MovesOutInv
<1>5. ASSUME NEW t \in Threads, LogStep(t)
      PROVE  IInv'
  BY <1>5, LockInv, WriteInv, FlushInv, ReturnInv DEF LogStep
<1>6. ASSUME NEW t \in Threads, NEW lev \in LogLevels, Log(t, lev)
      PROVE  IInv'
  BY <1>6, LogInv
<1>7. CASE End \/ UNCHANGED vars
  <2>1. UNCHANGED <<call, state, level, global, pc, line, logs, sinkVars>> /\ running' \in BOOLEAN
    BY <1>7 DEF End, vars, setupVars, threadVars, IInv, TypeInv
  <2>2. TypeInv'
    BY <2>1 DEF IInv, TypeInv, sinkVars
  <2> QED  BY <2>1, <2>2, OutsideInv
<1> QED  BY <1>1, <1>2, <1>3, <1>4, <1>5, <1>6, <1>7 DEF Next

THEOREM Invariance == Spec => []IInv
BY InitInv, NextInv, PTL DEF Spec

-----------------------------------------------------------------------------
(* The theorems *)

\* Every variable of the model keeps its type: what reaches a sink and a file
\* is text, and a line at a level that can be rendered.
THEOREM TypeCorrect == Spec => []TypeInv
<1>1. IInv => TypeInv
  BY DEF IInv
<1> QED  BY Invariance, <1>1, PTL

\* Format() puts each argument in the place of its {} and a brace for {{ and }},
\* fits in the string that it has sized, and asserts exactly when the format
\* string cannot be cut so, there is not one {} for each argument or the literal
\* has a '\0' in it.
THEOREM FormatCorrect == Spec => []FormatIsExact
<1>1. IInv => FormatIsExact
  <2> SUFFICES ASSUME IInv PROVE FormatIsExact
    OBVIOUS
  <2>1. call.format \in Seq(Chars) /\ call.values \in Seq(Seq(Chars))
    BY CallsAreText DEF IInv, TypeInv
  <2> QED  BY <2>1, FormatOfText DEF FormatIsExact
<1> QED  BY Invariance, <1>1, PTL

\* The lines of any number of threads come whole and one after the other, up to
\* the one that the holder of the mutex of the sink is printing.
THEOREM LinesCorrect == Spec => []LinesAreWhole
<1>1. IInv => LinesAreWhole
  <2> SUFFICES ASSUME IInv, NEW l \in Loggers
               PROVE  LET written == file[l] \o buffer[l]
                      IN  \/ written = Lines(l)
                          \/ \E t \in Threads :
                               /\ pc[t] \in {"newline", "flush"} /\ line[t].logger = l
                               /\ IsPrefix(Lines(l), written)
                               /\ IsPrefix(written, Lines(l) \o Rendered(line[t].level))
    BY DEF LinesAreWhole
  <2>1. PICK written : written = file[l] \o buffer[l]
    OBVIOUS
  <2>2. PICK lines : lines = Lines(l) /\ lines = LinesOf(call, flushed[l])
    BY LinesIs
  <2>3. lines \in Seq(Chars)
    BY <2>2, LinesType DEF IInv, TypeInv
  <2>4. CASE holder[l] = nullptr
    <3>1. written = lines \o <<>>
      BY <2>1, <2>2, <2>4 DEF IInv, WrittenInv
    <3>2. written = lines
      BY <2>3, <3>1, ConcatEmptySeq
    <3> QED  BY <2>1, <2>2, <3>2
  <2>5. CASE holder[l] # nullptr
    <3>1. PICK t \in Threads : t = holder[l] /\ pc[t] \in Printing /\ line[t].logger = l
      BY <2>5 DEF IInv, TypeInv, MutexInv
    <3>2. PICK text : text = Printed(line[t].text)
      OBVIOUS
    <3>3. PICK whole : whole = Rendered(line[t].level)
      OBVIOUS
    <3>4. /\ text \in Seq(Chars) /\ whole \in Seq(Chars) /\ text \o <<"\n">> = whole
          /\ written = lines \o Part(call, pc[t], line[t])
      BY <2>1, <2>2, <3>1, <3>2, <3>3, HolderFacts, RenderedIs
    <3>5. CASE pc[t] = "print"
      <4>1. written = lines \o <<>>
        BY <3>4, <3>5 DEF Part
      <4>2. written = lines
        BY <2>3, <4>1, ConcatEmptySeq
      <4> QED  BY <2>1, <2>2, <4>2
    <3>6. CASE pc[t] = "newline"
      <4>1. written = lines \o text
        BY <3>2, <3>4, <3>6 DEF Part
      <4>2. "\n" \in Chars
        BY DEF Chars
      <4>s. <<"\n">> \in Seq(Chars)
        BY <4>2
      <4>3. PICK end : end = <<"\n">> /\ end \in Seq(Chars)
        BY <4>s
      <4>4. IsPrefix(lines, written) /\ written \in Seq(Chars)
        BY <2>3, <3>4, <4>1, PrefixConcat, ConcatProperties
      <4>5. written \o end = lines \o whole
        <5>1. (lines \o text) \o end = lines \o (text \o end)
          BY <2>3, <3>4, <4>3, ConcatAssociative
        <5> QED  BY <3>4, <4>1, <4>3, <5>1
      <4>6. IsPrefix(written, lines \o whole)
        BY <4>3, <4>4, <4>5, PrefixConcat
      <4> QED  BY <2>1, <2>2, <3>1, <3>3, <3>6, <4>4, <4>6
    <3>7. CASE pc[t] = "flush"
      <4>1. written = lines \o whole
        BY <3>3, <3>4, <3>7, RenderedIs DEF Part
      <4>2. IsPrefix(lines, written) /\ written \in Seq(Chars)
        BY <2>3, <3>4, <4>1, PrefixConcat, ConcatProperties
      <4>3. IsPrefix(written, written \o <<>>) /\ written \o <<>> = written
        BY <4>2, PrefixConcat, ConcatEmptySeq, EmptySeq
      <4>4. IsPrefix(written, lines \o whole)
        BY <4>1, <4>3
      <4> QED  BY <2>1, <2>2, <3>1, <3>3, <3>7, <4>2, <4>4
    <3> QED  BY <3>1, <3>5, <3>6, <3>7 DEF Printing
  <2> QED  BY <2>4, <2>5
<1> QED  BY Invariance, <1>1, PTL

\* Wherever the program ends, the operating system has every line whose Log()
\* got past the sink, whole and in the order of the calls of fflush().
THEOREM LinesKept == Spec => []LoggedLinesAreKept
<1>1. IInv => LoggedLinesAreKept
  BY LinesIs DEF IInv, KeptInv, LoggedLinesAreKept
<1> QED  BY Invariance, <1>1, PTL
=============================================================================
